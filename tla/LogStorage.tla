---------------------------- MODULE LogStorage ----------------------------
(***************************************************************************)
(* The log storage of a node (src/src/raft/log.rs): an in-memory map from  *)
(* indices to entries behind one RwLock.  Every operation of openraft runs *)
(* under the lock, so it is one action; reads of the replication tasks     *)
(* interleave with them in any order, with ranges from before.             *)
(*                                                                         *)
(* openraft's conditions on its calls, the first conjuncts of the actions, *)
(* are: it appends behind the last log id, truncates only what is not      *)
(* committed, and purges forward, up to an entry of the log or, after      *)
(* installing a snapshot, beyond the last one.                             *)
(***************************************************************************)
EXTENDS Naturals, FiniteSets, Sequences

CONSTANTS
    Terms,      \* terms of leaders
    MaxIndex,   \* bound on log indices
    NoLogId     \* Rust's None

VARIABLES
    last_purged_log_id,
    log,        \* index -> term of the entry
    committed,
    vote,
    answer      \* what the last read returned

vars == <<last_purged_log_id, log, committed, vote, answer>>

LogId == [term : Terms, index : 0..MaxIndex]
NextIndex(id) == IF id = NoLogId THEN 0 ELSE id.index + 1

ASSUME LogAssumption ==
    /\ Terms \subseteq Nat \ {0}
    /\ MaxIndex \in Nat
    /\ NoLogId \notin LogId

Indices == DOMAIN log
Within(f, S) == [i \in DOMAIN f \cap S |-> f[i]]

(* iter().next_back() *)
LastIndex == CHOOSE i \in Indices : \A j \in Indices : j <= i

LastLogId == IF Indices = {} THEN last_purged_log_id
             ELSE [term |-> log[LastIndex], index |-> LastIndex]

Init ==
    /\ last_purged_log_id = NoLogId
    /\ log = <<>>
    /\ committed = NoLogId
    /\ vote = 0
    /\ answer = [entries |-> <<>>]

-----------------------------------------------------------------------------

SaveVote(v) ==
    /\ v > vote
    /\ vote' = v
    /\ UNCHANGED <<last_purged_log_id, log, committed, answer>>

SaveCommitted(i) ==
    /\ i \in Indices /\ i >= NextIndex(committed)
    /\ committed' = [term |-> log[i], index |-> i]
    /\ UNCHANGED <<last_purged_log_id, log, vote, answer>>

(* Mutant: entries are keyed by the index of their successor. *)
AppendShifted(ts) ==
    LET first == NextIndex(LastLogId) IN
    /\ first + Len(ts) <= MaxIndex + 1
    /\ log' = [i \in Indices \cup (first + 1 .. first + Len(ts)) |->
                  IF i \in Indices THEN log[i] ELSE ts[i - first]]
    /\ UNCHANGED <<last_purged_log_id, committed, vote, answer>>

(* The entries carry consecutive indices behind the last log id. *)
AppendLog(ts) ==
    LET first == NextIndex(LastLogId) IN
    /\ first + Len(ts) <= MaxIndex + 1
    /\ log' = [i \in Indices \cup (first .. first + Len(ts) - 1) |->
                  IF i < first THEN log[i] ELSE ts[i - first + 1]]
    /\ UNCHANGED <<last_purged_log_id, committed, vote, answer>>

(* Mutant: one entry too many is removed. *)
TruncateBefore(i) ==
    /\ i \in Indices /\ i >= NextIndex(committed)
    /\ log' = Within(log, {j \in Indices : j + 1 < i})
    /\ UNCHANGED <<last_purged_log_id, committed, vote, answer>>

Truncate(i) ==
    /\ i \in Indices /\ i >= NextIndex(committed)
    /\ log' = Within(log, {j \in Indices : j < i})
    /\ UNCHANGED <<last_purged_log_id, committed, vote, answer>>

(* Mutant: the purged entry itself is kept. *)
PurgeBefore(id) ==
    /\ id.index >= NextIndex(last_purged_log_id)
    /\ id.index \in Indices => log[id.index] = id.term
    /\ last_purged_log_id' = id
    /\ log' = Within(log, {j \in Indices : j >= id.index})
    /\ UNCHANGED <<committed, vote, answer>>

(* An id behind the log is that of an installed snapshot. *)
Purge(id) ==
    /\ id.index >= NextIndex(last_purged_log_id)
    /\ id.index \in Indices => log[id.index] = id.term
    /\ last_purged_log_id' = id
    /\ log' = Within(log, {j \in Indices : j > id.index})
    /\ UNCHANGED <<committed, vote, answer>>

(* Mutant: an empty log has no last id, even after a purge. *)
GetStateOfMap ==
    /\ answer' = [last_purged_log_id |-> last_purged_log_id,
                  last_log_id |-> IF Indices = {} THEN NoLogId ELSE LastLogId]
    /\ UNCHANGED <<last_purged_log_id, log, committed, vote>>

GetLogState ==
    /\ answer' = [last_purged_log_id |-> last_purged_log_id, last_log_id |-> LastLogId]
    /\ UNCHANGED <<last_purged_log_id, log, committed, vote>>

TryGetLogEntries(a, b) ==
    /\ answer' = [entries |-> Within(log, a..b - 1)]
    /\ UNCHANGED <<last_purged_log_id, log, committed, vote>>

Batches == {<<t>> : t \in Terms} \cup (Terms \X Terms)

Next ==
    \/ \E v \in Terms : SaveVote(v)
    \/ \E i \in 0..MaxIndex : SaveCommitted(i) \/ Truncate(i)
    \/ \E ts \in Batches : AppendLog(ts)
    \/ \E id \in LogId : Purge(id)
    \/ GetLogState
    \/ \E a, b \in 0..MaxIndex + 1 : TryGetLogEntries(a, b)

Spec == Init /\ [][Next]_vars

-----------------------------------------------------------------------------
(* Properties *)

(* The types of the variables. *)
TypeOK ==
    /\ last_purged_log_id \in LogId \cup {NoLogId}
    /\ Indices \subseteq 0..MaxIndex /\ log \in [Indices -> Terms]
    /\ committed \in LogId \cup {NoLogId}
    /\ vote \in Terms \cup {0}

(* The map never has a hole: its indices run from the one after the last
   purged log id to the last one, through any appends, truncations and
   purges. *)
Contiguous ==
    \E e \in 0..MaxIndex + 1 : Indices = NextIndex(last_purged_log_id)..e - 1

(* A committed entry is never changed, and disappears only by a purge that
   covers it. *)
CommittedKept ==
    [][\A i \in Indices : i < NextIndex(committed) =>
         \/ i \in Indices' /\ log'[i] = log[i]
         \/ i < NextIndex(last_purged_log_id')]_vars

(* The entries of the map in the order of their indices. *)
Entries == [k \in 1..Cardinality(Indices) |-> log[NextIndex(last_purged_log_id) + k - 1]]

RL == INSTANCE RaftLog WITH
        purged <- last_purged_log_id, entries <- Entries

(* Every answer and every state is one of a gapless sequence of entries:
   in particular the last log id falls back to the last purged one when the
   map is empty. *)
ImplementsRaftLog == RL!Spec
=============================================================================
