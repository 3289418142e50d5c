-------------------------- MODULE FailureDetector --------------------------
(***************************************************************************)
(* How a node notices that others have failed: HeartbeatMonitor            *)
(* (src/src/raft/heartbeat.rs), fed by perform_raft_action                 *)
(* (src/src/raft/network.rs), and the tasks detect_failures and            *)
(* watch_membership_changes (src/src/cluster.rs).  The module is the view  *)
(* of one node, which is not a member of Peers.                            *)
(*                                                                         *)
(* Instants are kept as ages in ticks that stop counting above the longest *)
(* deadline.  openraft is modelled as far as the tasks see it: whether the *)
(* node leads, the membership in its metrics, and change_membership, which *)
(* returns when the change is committed by the majorities of the old and   *)
(* of the new voters, fails at once on a node that does not lead or while  *)
(* another change is in progress, and otherwise does not return.           *)
(***************************************************************************)
EXTENDS Naturals, FiniteSets

CONSTANTS
    Voters,             \* peers that are voters at first
    Learners,           \* peers that are learners at first
    HEARTBEAT_DEADLINE,
    QUORUM_DEADLINE,
    MaxFailures,        \* bound on the number of times a peer fails
    MaxElections,       \* bound on the number of times the node is elected
    Leavers,            \* peers that may leave on their own
    None                \* no entry, no change

ASSUME DetectorAssumption ==
    /\ HEARTBEAT_DEADLINE \in Nat \ {0} /\ QUORUM_DEADLINE \in Nat
    /\ HEARTBEAT_DEADLINE < QUORUM_DEADLINE
    /\ {MaxFailures, MaxElections} \subseteq Nat
    /\ Voters \cap Learners = {} /\ IsFiniteSet(Voters \cup Learners)
    /\ Leavers \subseteq Voters /\ None \notin Nat

Peers == Voters \cup Learners
Cap == QUORUM_DEADLINE + 1
Age == 0..Cap

VARIABLES
    up,           \* peers that answer
    failures,     \* number of failures so far
    leads,        \* metrics.state is Leader
    elections,    \* number of elections won
    voters,       \* peers that vote in the membership
    learners,     \* peers that learn
    change,       \* the membership change in progress
    last_seen,    \* HeartbeatMonitor::last_seen, ages
    quorum_age,   \* age of last_quorum_reached
    task,         \* detect_failures: where it is, what it removes
    watched,      \* watch_membership_changes: last_membership
    answered      \* history: age of the last answer

raftVars == <<leads, elections, voters, learners, change>>
monitorVars == <<last_seen, quorum_age, task, watched>>
vars == <<up, failures, raftVars, monitorVars, answered>>

Change == [voters : SUBSET Voters, learners : SUBSET Learners, by : {"detector", "other"}]
Task == [pc : {"waiting", "remove_voters", "await_voters", "remove_learners",
               "await_learners", "check", "stopped"},
         voters : SUBSET Voters, learners : SUBSET Learners]
Waiting == [pc |-> "waiting", voters |-> {}, learners |-> {}]

(* The membership in the metrics: both configurations of a joint one. *)
VoterIds == voters \cup (IF change = None THEN {} ELSE change.voters)
LearnerIds == (IF change = None THEN learners ELSE change.learners) \ VoterIds
Members == VoterIds \cup LearnerIds

(* P and the node itself are a majority of V and the node itself. *)
Majority(P, V) == 2 * (Cardinality(P \cap V) + 1) > Cardinality(V) + 1

(* P and the node itself are a quorum of the membership, joint or not. *)
Quorum(P) == Majority(P, voters) /\ (change # None => Majority(P, change.voters))

Init ==
    /\ up = Peers
    /\ failures = 0
    /\ leads = TRUE
    /\ elections = 0
    /\ voters = Voters
    /\ learners = Learners
    /\ change = None
    /\ last_seen = [p \in Peers |-> None]
    /\ quorum_age = 0
    /\ task = Waiting
    /\ watched = Peers
    /\ answered = [p \in Peers |-> 0]

-----------------------------------------------------------------------------
(* HeartbeatMonitor *)

(* Mutant: an entry that is there is left as it is. *)
KeepEntry(p) == last_seen' = [last_seen EXCEPT ![p] = IF @ = None THEN 0 ELSE @]

on_heartbeat(p) == last_seen' = [last_seen EXCEPT ![p] = 0]

(* last_seen inserts the current time for a peer without an entry. *)
Seen(p) == IF last_seen[p] = None THEN 0 ELSE last_seen[p]

(* perform_raft_action succeeds: for a leader's entries or heartbeat, or for
   the vote request of a candidate.  A peer that is no longer a member may
   still answer, late. *)
Answer(p) ==
    /\ p \in up /\ (leads \/ p \in VoterIds) /\ task.pc # "stopped"
    /\ on_heartbeat(p)
    /\ answered' = [answered EXCEPT ![p] = 0]
    /\ UNCHANGED <<up, failures, raftVars, quorum_age, task, watched>>

(* watch_membership_changes drops the entries of those that have left. *)
WatchMembership ==
    /\ watched # Members
    /\ watched' = Members
    /\ last_seen' = [p \in Peers |-> IF p \in Members THEN last_seen[p] ELSE None]
    /\ UNCHANGED <<up, failures, raftVars, quorum_age, task, answered>>

-----------------------------------------------------------------------------
(* detect_failures *)

(* Mutant: one voter more than a majority is required. *)
OneMorePossible(n, removed) == n - removed > n \div 2 + 1

(* n_voters counts the node itself. *)
QuorumPossible(n, removed) == n - removed >= n \div 2 + 1

Overdue(P) == {p \in P : Seen(p) > HEARTBEAT_DEADLINE}

(* Mutant: the time of the last quorum is taken before the quorum is known. *)
RoundResets ==
    /\ task.pc = "waiting" /\ leads
    /\ last_seen' = [p \in Peers |-> IF p \in Members THEN Seen(p) ELSE last_seen[p]]
    /\ quorum_age' = 0
    /\ task' = IF QuorumPossible(Cardinality(VoterIds) + 1, Cardinality(Overdue(VoterIds)))
               THEN [pc |-> "remove_voters", voters |-> Overdue(VoterIds),
                     learners |-> Overdue(LearnerIds)]
               ELSE [Waiting EXCEPT !.pc = "check"]
    /\ UNCHANGED <<up, failures, raftVars, watched, answered>>

(* One round of the loop on the leader, up to its first await. *)
Round ==
    /\ task.pc = "waiting" /\ leads
    /\ last_seen' = [p \in Peers |-> IF p \in Members THEN Seen(p) ELSE last_seen[p]]
    /\ IF QuorumPossible(Cardinality(VoterIds) + 1, Cardinality(Overdue(VoterIds)))
       THEN /\ quorum_age' = 0
            /\ task' = [pc |-> "remove_voters", voters |-> Overdue(VoterIds),
                        learners |-> Overdue(LearnerIds)]
       ELSE task' = [Waiting EXCEPT !.pc = "check"] /\ UNCHANGED quorum_age
    /\ UNCHANGED <<up, failures, raftVars, watched, answered>>

(* change_membership fails at once. *)
Refused == ~leads \/ change # None

Goto(pc) == task' = [task EXCEPT !.pc = pc]

(* Mutant: the voters stay as learners (retain). *)
RetainVoters ==
    /\ task.pc = "remove_voters"
    /\ IF task.voters = {} \/ Refused
       THEN Goto("remove_learners") /\ UNCHANGED change
       ELSE /\ change' = [voters |-> voters \ task.voters, learners |-> learners \cup task.voters,
                          by |-> "detector"]
            /\ Goto("await_voters")
    /\ UNCHANGED <<up, failures, leads, elections, voters, learners, last_seen, quorum_age,
                   watched, answered>>

(* Mutant: the learners found overdue are forgotten. *)
LearnersForgotten ==
    /\ task.pc = "remove_learners"
    /\ Goto("check")
    /\ UNCHANGED <<up, failures, raftVars, last_seen, quorum_age, watched, answered>>

RemoveVoters ==
    /\ task.pc = "remove_voters"
    /\ IF task.voters = {} \/ Refused
       THEN Goto("remove_learners") /\ UNCHANGED change
       ELSE /\ change' = [voters |-> voters \ task.voters, learners |-> learners,
                          by |-> "detector"]
            /\ Goto("await_voters")
    /\ UNCHANGED <<up, failures, leads, elections, voters, learners, last_seen, quorum_age,
                   watched, answered>>

RemoveLearners ==
    /\ task.pc = "remove_learners"
    /\ IF task.learners = {} \/ Refused
       THEN Goto("check") /\ UNCHANGED change
       ELSE /\ change' = [voters |-> voters, learners |-> learners \ task.learners,
                          by |-> "detector"]
            /\ Goto("await_learners")
    /\ UNCHANGED <<up, failures, leads, elections, voters, learners, last_seen, quorum_age,
                   watched, answered>>

Awaiting == task.pc \in {"await_voters", "await_learners"}
Pending == change # None /\ change.by = "detector"

(* change_membership has returned. *)
Returned ==
    /\ ~Pending
    /\ \/ task.pc = "await_voters" /\ Goto("remove_learners")
       \/ task.pc = "await_learners" /\ Goto("check")
    /\ UNCHANGED <<up, failures, raftVars, last_seen, quorum_age, watched, answered>>

(* force_shutdown ends openraft and the task. *)
CheckQuorum ==
    /\ task.pc = "check"
    /\ IF quorum_age > QUORUM_DEADLINE
       THEN task' = [Waiting EXCEPT !.pc = "stopped"] /\ leads' = FALSE
       ELSE task' = Waiting /\ UNCHANGED leads
    /\ UNCHANGED <<up, failures, elections, voters, learners, change, last_seen, quorum_age,
                   watched, answered>>

Detect == Round \/ RemoveVoters \/ RemoveLearners \/ Returned \/ CheckQuorum

-----------------------------------------------------------------------------
(* The environment *)

Older(a) == IF a = None \/ a = Cap THEN a ELSE a + 1

(* Time passes while the detector waits: for the interval, or for a change.
   A leader sends a heartbeat more than once per tick, and a peer that answers
   does so before the next. *)
Tick ==
    /\ task.pc = "waiting" \/ (Awaiting /\ Pending)
    /\ leads => \A p \in up \cap Members : answered[p] = 0
    /\ last_seen' = [p \in Peers |-> Older(last_seen[p])]
    /\ answered' = [p \in Peers |-> Older(answered[p])]
    /\ quorum_age' = Older(quorum_age)
    /\ UNCHANGED <<up, failures, raftVars, task, watched>>

Fail(p) ==
    /\ p \in up /\ failures < MaxFailures
    /\ up' = up \ {p}
    /\ failures' = failures + 1
    /\ UNCHANGED <<raftVars, monitorVars, answered>>

Recover(p) ==
    /\ p \in Peers \ up
    /\ up' = up \cup {p}
    /\ UNCHANGED <<failures, raftVars, monitorVars, answered>>

(* Another leader is elected. *)
StepDown ==
    /\ leads /\ elections < MaxElections /\ task.pc # "stopped"
    /\ leads' = FALSE
    /\ UNCHANGED <<up, failures, elections, voters, learners, change, monitorVars, answered>>

(* The node is elected by the voters that have just answered it. *)
Elected ==
    /\ ~leads /\ elections < MaxElections /\ task.pc # "stopped"
    /\ Quorum({p \in up : answered[p] = 0})
    /\ leads' = TRUE
    /\ elections' = elections + 1
    /\ UNCHANGED <<up, failures, voters, learners, change, monitorVars, answered>>

(* The change in progress is committed: by this node's leadership, or later
   by that of another one. *)
Commit ==
    /\ change # None
    /\ IF leads THEN Quorum(up) ELSE up # {}
    /\ voters' = change.voters
    /\ learners' = change.learners
    /\ change' = None
    /\ UNCHANGED <<up, failures, leads, elections, monitorVars, answered>>

(* Another leader has replaced the change in the log. *)
Overwritten ==
    /\ change # None /\ ~leads /\ up # {}
    /\ change' = None
    /\ UNCHANGED <<up, failures, leads, elections, voters, learners, monitorVars, answered>>

(* A voter leaves gracefully: main_loop proposes the change for it. *)
OtherLeaves(p) ==
    /\ leads /\ change = None /\ p \in up \cap voters \cap Leavers
    /\ change' = [voters |-> voters \ {p}, learners |-> learners, by |-> "other"]
    /\ UNCHANGED <<up, failures, leads, elections, voters, learners, monitorVars, answered>>

Next ==
    \/ Detect \/ WatchMembership
    \/ Tick \/ StepDown \/ Elected \/ Commit \/ Overwritten
    \/ \E p \in Peers : Answer(p) \/ Fail(p) \/ Recover(p) \/ OtherLeaves(p)

Spec == Init /\ [][Next]_vars

(* Time passes, peers that answer are heard, and what can commit does. *)
FairSpec ==
    /\ Spec
    /\ WF_vars(Detect) /\ WF_vars(WatchMembership)
    /\ SF_vars(Tick) /\ WF_vars(Commit)
    /\ \A p \in Peers : WF_vars(leads /\ Answer(p))

-----------------------------------------------------------------------------
(* Properties *)

(* The types of the variables; a voter that is removed does not stay as a
   learner. *)
TypeOK ==
    /\ up \subseteq Peers /\ failures \in 0..MaxFailures
    /\ leads \in BOOLEAN /\ elections \in 0..MaxElections
    /\ voters \subseteq Voters /\ learners \subseteq Learners
    /\ change \in Change \cup {None}
    /\ last_seen \in [Peers -> Age \cup {None}] /\ quorum_age \in Age
    /\ task \in Task /\ watched \subseteq Peers
    /\ answered \in [Peers -> Age]

(* A peer the detector is about to remove has not answered for longer than
   the deadline when it was found overdue: entries are never older than the
   last answer. *)
OverdueUnanswered ==
    [][task.pc = "waiting" => \A p \in task'.voters \cup task'.learners :
          answered[p] > HEARTBEAT_DEADLINE]_vars

(* A round finds that no quorum is possible only when no majority of the
   voters has answered within the deadline. *)
GivesUpUnanswered ==
    [][task.pc = "waiting" /\ task'.pc = "check" =>
         ~Majority({p \in Peers : answered[p] <= HEARTBEAT_DEADLINE}, VoterIds)]_vars

(* A peer that is gone for good is removed, as long as the node leads and a
   quorum answers that can commit what is in progress. *)
DeadRemoved ==
    \A p \in Peers :
        <>[](p \notin up /\ leads /\ Quorum(up)) => <>[](p \notin Members)

(* A leader that has lost its quorum for good is stopped, unless the loss
   comes while the detector waits for a change. *)
QuorumLossNoticed ==
    []<>(~leads \/ Majority(up, VoterIds) \/ Awaiting)
=============================================================================
