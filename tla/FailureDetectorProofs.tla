----------------------- MODULE FailureDetectorProofs -----------------------
(***************************************************************************)
(* Proofs of the safety properties of FailureDetector, for every           *)
(* membership and every pair of deadlines.  They rest on one fact: an      *)
(* entry of the heartbeat monitor is never older than the last answer of   *)
(* the peer, because only answers and first looks write entries and both   *)
(* write the current time.  Then the same for MetricsWatch, the channel    *)
(* that detect_failures reads.                                             *)
(***************************************************************************)
EXTENDS FailureDetector, MetricsWatch, FiniteSetTheorems, TLAPS

(* Entries are never older than the last answer. *)
SeenSinceAnswer ==
    \A p \in Peers : last_seen[p] # None => last_seen[p] <= answered[p]

(* A detector that waits has nothing to remove. *)
NothingWhileWaiting == task.pc = "waiting" => task.voters \cup task.learners = {}

IInv == TypeOK /\ SeenSinceAnswer /\ NothingWhileWaiting

(* An age grows by one up to the bound, the missing entry stays missing. *)
LEMMA OlderAge ==
    /\ \A a \in Age : Older(a) \in Age
    /\ \A a \in Age \cup {None} : Older(a) \in Age \cup {None}
    /\ \A a, b \in Age : a <= b => Older(a) <= Older(b)
    /\ \A a \in Age \cup {None} : Older(a) = None <=> a = None
BY DetectorAssumption DEF Older, Age, Cap

(* The initial state satisfies the inductive invariant. *)
LEMMA InitInv == Init => IInv
BY DetectorAssumption DEF Init, IInv, TypeOK, SeenSinceAnswer, NothingWhileWaiting, Waiting, Task, Peers, Age, Cap

(* The members that the metrics show are among the first ones. *)
LEMMA MembersType ==
    ASSUME TypeOK
    PROVE  /\ VoterIds \subseteq Voters /\ LearnerIds \subseteq Learners
           /\ Members \subseteq Peers
BY DEF TypeOK, Change, VoterIds, LearnerIds, Members, Peers

(* Each action of the detector keeps the inductive invariant. *)
LEMMA DetectInv == IInv /\ Detect => IInv'
<1> SUFFICES ASSUME IInv, Detect PROVE IInv'
    OBVIOUS
<1> USE DEF IInv
<1>1. CASE Round
    <2>1. Overdue(VoterIds) \subseteq Voters /\ Overdue(LearnerIds) \subseteq Learners
        BY MembersType DEF Overdue
    <2>2. task' \in Task /\ quorum_age' \in Age
        BY <1>1, <2>1, DetectorAssumption DEF Round, Task, Waiting, TypeOK, Age, Cap
    <2>3. last_seen' \in [Peers -> Age \cup {None}]
        BY <1>1, DetectorAssumption DEF Round, Seen, TypeOK, Age, Cap
    <2>4. SeenSinceAnswer'
        BY <1>1, DetectorAssumption DEF Round, Seen, TypeOK, SeenSinceAnswer, Age, Cap
    <2>5. NothingWhileWaiting'
        BY <1>1 DEF NothingWhileWaiting, Round, Waiting
    <2> QED
        BY <1>1, <2>2, <2>3, <2>4, <2>5 DEF Round, TypeOK, raftVars
<1>2. CASE RemoveVoters
    BY <1>2 DEF RemoveVoters, Goto, TypeOK, NothingWhileWaiting, Task, Change, SeenSinceAnswer
<1>3. CASE RemoveLearners
    BY <1>3 DEF RemoveLearners, Goto, TypeOK, NothingWhileWaiting, Task, Change, SeenSinceAnswer
<1>4. CASE Returned
    BY <1>4 DEF Returned, Goto, TypeOK, NothingWhileWaiting, Task, SeenSinceAnswer, raftVars
<1>5. CASE CheckQuorum
    <2>1. task' \in Task
        BY <1>5 DEF CheckQuorum, Waiting, TypeOK, Task
    <2>2. leads' \in BOOLEAN
        BY <1>5 DEF CheckQuorum, TypeOK
    <2>3. NothingWhileWaiting'
        BY <1>5 DEF NothingWhileWaiting, CheckQuorum, Waiting
    <2> QED
        BY <1>5, <2>1, <2>2, <2>3 DEF CheckQuorum, TypeOK, SeenSinceAnswer
<1> QED
    BY <1>1, <1>2, <1>3, <1>4, <1>5 DEF Detect

(* Every step keeps the inductive invariant. *)
LEMMA NextInv == IInv /\ [Next]_vars => IInv'
<1> SUFFICES ASSUME IInv, [Next]_vars PROVE IInv'
    OBVIOUS
<1> USE DEF IInv, NothingWhileWaiting
<1>1. CASE Detect
    BY <1>1, DetectInv
<1>2. CASE WatchMembership
    BY <1>2, MembersType DEF WatchMembership, TypeOK, SeenSinceAnswer, raftVars
<1>3. CASE Tick
    <2>1. /\ last_seen' \in [Peers -> Age \cup {None}]
          /\ answered' \in [Peers -> Age]
          /\ quorum_age' \in Age
        BY <1>3, OlderAge DEF Tick, TypeOK
    <2>2. SeenSinceAnswer'
        BY <1>3, OlderAge DEF Tick, TypeOK, SeenSinceAnswer
    <2> QED
        BY <1>3, <2>1, <2>2 DEF Tick, TypeOK, raftVars
<1>4. CASE StepDown
    BY <1>4 DEF StepDown, TypeOK, SeenSinceAnswer, monitorVars
<1>5. CASE Elected
    BY <1>5, DetectorAssumption
       DEF Elected, TypeOK, SeenSinceAnswer, monitorVars, Age, Cap
<1>6. CASE Commit
    BY <1>6, DetectorAssumption
       DEF Commit, TypeOK, Change, SeenSinceAnswer, monitorVars, Age, Cap
<1>7. CASE Overwritten
    BY <1>7 DEF Overwritten, TypeOK, SeenSinceAnswer, monitorVars
<1>8. ASSUME NEW p \in Peers, Answer(p) PROVE IInv'
    <2>1. 0 \in Age
        BY DetectorAssumption DEF Age, Cap
    <2> QED
        BY <1>8, <2>1 DEF Answer, on_heartbeat, TypeOK, SeenSinceAnswer, raftVars, Age
<1>9. ASSUME NEW p \in Peers, Fail(p) PROVE IInv'
    BY <1>9, DetectorAssumption DEF Fail, TypeOK, SeenSinceAnswer, raftVars, monitorVars
<1>10. ASSUME NEW p \in Peers, Recover(p) PROVE IInv'
    BY <1>10 DEF Recover, TypeOK, SeenSinceAnswer, raftVars, monitorVars
<1>11. ASSUME NEW p \in Peers, OtherLeaves(p) PROVE IInv'
    BY <1>11 DEF OtherLeaves, TypeOK, Change, SeenSinceAnswer, monitorVars
<1>12. CASE UNCHANGED vars
    BY <1>12 DEF vars, TypeOK, SeenSinceAnswer, raftVars, monitorVars
<1> QED
    BY <1>1, <1>2, <1>3, <1>4, <1>5, <1>6, <1>7, <1>8, <1>9, <1>10, <1>11, <1>12 DEF Next

(* The inductive invariant holds in every behaviour. *)
LEMMA InductiveInv == Spec => []IInv
BY InitInv, NextInv, PTL DEF Spec

(* The variables of FailureDetector keep their types, and a voter that is
   removed does not stay as a learner. *)
THEOREM TypeCorrect == Spec => []TypeOK
BY InductiveInv, PTL DEF IInv

(* Only a round moves the detector out of its wait. *)
LEMMA OnlyRound ==
    ASSUME TypeOK, [Next]_vars, task.pc = "waiting"
    PROVE  Round \/ task' = task
BY DEF Next, Detect, RemoveVoters, RemoveLearners, Returned, CheckQuorum, WatchMembership,
       Tick, StepDown, Elected, Commit, Overwritten, Answer, Fail, Recover, OtherLeaves,
       vars, monitorVars

(* Those found overdue have not answered within the deadline. *)
LEMMA OverdueSilent ==
    ASSUME IInv, NEW P, P \subseteq Peers, NEW p \in Overdue(P)
    PROVE  answered[p] > HEARTBEAT_DEADLINE
BY DetectorAssumption DEF IInv, TypeOK, SeenSinceAnswer, Overdue, Seen, Age, Cap

(* The peers a round decides to remove have not answered for longer than
   HEARTBEAT_DEADLINE, whatever happened to the monitor's entries before. *)
THEOREM OnlySilentRemoved == Spec => OverdueUnanswered
<1>1. IInv /\ [Next]_vars =>
        [task.pc = "waiting" => \A p \in task'.voters \cup task'.learners :
            answered[p] > HEARTBEAT_DEADLINE]_vars
    <2> SUFFICES ASSUME IInv, [Next]_vars, task.pc = "waiting",
                        NEW p \in task'.voters \cup task'.learners
                 PROVE  answered[p] > HEARTBEAT_DEADLINE
        OBVIOUS
    <2>1. Round
        BY OnlyRound DEF IInv, NothingWhileWaiting
    <2>2. VoterIds \subseteq Peers /\ LearnerIds \subseteq Peers
        BY MembersType DEF IInv, Peers
    <2>3. p \in Overdue(VoterIds) \/ p \in Overdue(LearnerIds)
        BY <2>1 DEF Round, Waiting
    <2> QED
        BY <2>2, <2>3, OverdueSilent
<1> QED
    BY <1>1, InductiveInv, PTL DEF Spec, OverdueUnanswered

(* The count of detect_failures is right: if a majority answers in time, so
   does a majority by the number of voters that are not overdue. *)
LEMMA AnswersCount ==
    ASSUME IInv,
           Majority({p \in Peers : answered[p] <= HEARTBEAT_DEADLINE}, VoterIds)
    PROVE  QuorumPossible(Cardinality(VoterIds) + 1, Cardinality(Overdue(VoterIds)))
<1> DEFINE V == VoterIds
           O == Overdue(VoterIds)
           A == {p \in Peers : answered[p] <= HEARTBEAT_DEADLINE} \cap VoterIds
<1>1. V \subseteq Peers /\ O \subseteq V
    BY MembersType DEF IInv, Peers, Overdue
<1>2. A \subseteq V \ O
    <2> SUFFICES ASSUME NEW p \in A, p \in O PROVE FALSE
        OBVIOUS
    <2>1. answered[p] > HEARTBEAT_DEADLINE
        BY <1>1, OverdueSilent
    <2>2. answered[p] <= HEARTBEAT_DEADLINE /\ answered[p] \in Nat
        BY DEF IInv, TypeOK, Age
    <2> QED
        BY <2>1, <2>2, DetectorAssumption
<1>3. IsFiniteSet(V)
    BY <1>1, FS_Subset, DetectorAssumption DEF Peers
<1>4. IsFiniteSet(O) /\ IsFiniteSet(V \ O)
    BY <1>1, <1>3, FS_Subset
<1>5. Cardinality(V \ O) = Cardinality(V) - Cardinality(O)
    <2>1. V \cap O = O
        BY <1>1
    <2> QED
        BY <1>3, <1>4, <2>1, FS_Difference
<1>6. Cardinality(A) <= Cardinality(V \ O) /\ IsFiniteSet(A)
    BY <1>2, <1>4, FS_Subset
<1>7. Cardinality(A) \in Nat /\ Cardinality(V) \in Nat /\ Cardinality(O) \in Nat
    BY <1>3, <1>4, <1>6, FS_CardinalityType
<1>8. 2 * (Cardinality(A) + 1) > Cardinality(V) + 1
    BY DEF Majority
<1> HIDE DEF V, O, A
<1>9. QuorumPossible(Cardinality(V) + 1, Cardinality(O))
    BY <1>5, <1>6, <1>7, <1>8 DEF QuorumPossible
<1> QED
    BY <1>9 DEF V, O

(* detect_failures concludes that no quorum is possible only when no majority
   of the voters has answered within HEARTBEAT_DEADLINE. *)
THEOREM NoFalseAlarm == Spec => GivesUpUnanswered
<1>1. IInv /\ [Next]_vars =>
        [task.pc = "waiting" /\ task'.pc = "check" =>
            ~Majority({p \in Peers : answered[p] <= HEARTBEAT_DEADLINE}, VoterIds)]_vars
    <2> SUFFICES ASSUME IInv, [Next]_vars, task.pc = "waiting", task'.pc = "check"
                 PROVE  ~Majority({p \in Peers : answered[p] <= HEARTBEAT_DEADLINE}, VoterIds)
        OBVIOUS
    <2>1. Round
        BY OnlyRound DEF IInv
    <2>2. ~QuorumPossible(Cardinality(VoterIds) + 1, Cardinality(Overdue(VoterIds)))
        BY <2>1 DEF Round
    <2> QED
        BY <2>2, AnswersCount
<1> QED
    BY <1>1, InductiveInv, PTL DEF Spec, GivesUpUnanswered

-----------------------------------------------------------------------------
(* The metrics that detect_failures follows: MetricsWatch, for any number of
   memberships, readers and reports. *)

(* The program counters tell how many guards a task holds. *)
GuardsHeld ==
    /\ \/ pc["detector"] \in {"wait", "changed"} /\ guards["detector"] = 0
       \/ pc["detector"] \in {"state", "members"} /\ guards["detector"] = 1
       \/ pc["detector"] = "clone" /\ guards["detector"] = 2
    /\ \/ pc["watcher"] \in {"wait", "changed", "leader", "retain"} /\ guards["watcher"] = 0
       \/ pc["watcher"] \in {"clone", "reading"} /\ guards["watcher"] = 1
    /\ \A r \in Readers : guards[r] \in {0, 1}

(* The channel keeps its value while the detector holds a guard. *)
RoundReads ==
    /\ pc["detector"] \in {"state", "clone", "members"} => metrics = value
    /\ pc["detector"] \in {"clone", "members"} => current["detector"] = value.membership

(* A value waits to be stored only below the bound on reports. *)
SendingBounded == sending # {} => version < MaxVersion

WatchInv == WatchTypeOK /\ GuardsHeld /\ RoundReads /\ SendingBounded

(* All tasks wait at first and hold no guards. *)
LEMMA InitWatchInv == WatchInit => WatchInv
BY WatchAssumption DEF WatchInit, WatchInv, WatchTypeOK, GuardsHeld, RoundReads,
       SendingBounded, Tasks, Value

(* The channel changes its value only when nobody holds a guard. *)
LEMMA ChannelInv ==
    ASSUME WatchInv, Report \/ Send
    PROVE  WatchInv'
<1> USE DEF WatchInv, Tasks, detectorVars, watcherVars
<1>1. CASE Report
  <2>1. WatchTypeOK' /\ SendingBounded'
    BY <1>1 DEF Report, WatchTypeOK, SendingBounded
  <2> QED
    BY <1>1, <2>1 DEF Report, GuardsHeld, RoundReads
<1>2. CASE Send
  <2>1. value' \in Value /\ version' \in 0..MaxVersion /\ sending' = {}
    BY <1>2, WatchAssumption DEF Send, WatchTypeOK, SendingBounded
  <2>2. pc["detector"] \in {"wait", "changed"}
    BY <1>2 DEF Send, GuardsHeld
  <2> QED
    BY <1>2, <2>1, <2>2 DEF Send, WatchTypeOK, GuardsHeld, RoundReads, SendingBounded
<1> QED
  BY <1>1, <1>2

(* A round of detect_failures keeps its first guard until its end. *)
LEMMA DetectorInv == ASSUME WatchInv, Detector PROVE WatchInv'
<1> USE DEF WatchInv, WatchTypeOK, SendingBounded, Tasks, channelVars,
            detectorVars, watcherVars, MoveTo
<1>1. CASE Changed("detector")
  BY <1>1 DEF Changed, GuardsHeld, RoundReads
<1>2. CASE DetectorBorrows
  BY <1>2, WatchAssumption DEF DetectorBorrows, Borrow, GuardsHeld, RoundReads
<1>3. CASE DetectorSkips
  BY <1>3, WatchAssumption DEF DetectorSkips, Release, GuardsHeld, RoundReads
<1>4. CASE DetectorBorrowsAgain
  BY <1>4, WatchAssumption DEF DetectorBorrowsAgain, Borrow, GuardsHeld, RoundReads,
              Value
<1>5. CASE DetectorReleases
  BY <1>5, WatchAssumption DEF DetectorReleases, Release, GuardsHeld, RoundReads
<1> QED
  BY <1>1, <1>2, <1>3, <1>4, <1>5 DEF Detector

(* watch_membership_changes holds one guard at a time. *)
LEMMA WatcherInv == ASSUME WatchInv, Watcher PROVE WatchInv'
<1> USE DEF WatchInv, WatchTypeOK, SendingBounded, Tasks, channelVars,
            detectorVars, watcherVars, MoveTo
<1>1. CASE Changed("watcher")
  BY <1>1 DEF Changed, GuardsHeld, RoundReads
<1>2. CASE WatcherBorrows
  BY <1>2, WatchAssumption DEF WatcherBorrows, Borrow, GuardsHeld, RoundReads
<1>3. CASE WatcherClones
  BY <1>3, WatchAssumption DEF WatcherClones, Release, GuardsHeld, RoundReads,
              Value
<1>4. CASE WatcherReadsLeader
  BY <1>4, WatchAssumption DEF WatcherReadsLeader, Release, GuardsHeld, RoundReads
<1>5. CASE WatcherRetains
  BY <1>5 DEF WatcherRetains, GuardsHeld, RoundReads
<1> QED
  BY <1>1, <1>2, <1>3, <1>4, <1>5 DEF Watcher

(* Every step of the channel, the two tasks and get_leader keeps the invariant. *)
LEMMA NextWatchInv == WatchInv /\ [WatchNext]_watchVars => WatchInv'
<1> SUFFICES ASSUME WatchInv, [WatchNext]_watchVars PROVE WatchInv'
  OBVIOUS
<1> USE DEF channelVars, detectorVars, watcherVars
<1>1. ASSUME NEW r \in Readers, ReaderBorrows(r) \/ ReaderReleases(r)
      PROVE  WatchInv'
  <2>1. /\ r \notin Tasks /\ guards[r] \in {0, 1}
        /\ guards \in [Tasks \cup Readers -> 0..2]
    BY <1>1, WatchAssumption DEF WatchInv, GuardsHeld, WatchTypeOK
  <2>2. \E g \in {0, 1} : guards' = [guards EXCEPT ![r] = g]
    BY <1>1, <2>1
       DEF ReaderBorrows, ReaderReleases, Borrow, Release
  <2>3. UNCHANGED <<value, version, sending, pc, seen, metrics, current, last_membership, retained>>
    BY <1>1 DEF ReaderBorrows, ReaderReleases
  <2>4. WatchTypeOK'
    BY <2>1, <2>2, <2>3 DEF WatchInv, WatchTypeOK
  <2>5. GuardsHeld'
    BY <2>1, <2>2, <2>3 DEF WatchInv, GuardsHeld, Tasks
  <2> QED
    BY <2>3, <2>4, <2>5 DEF WatchInv, RoundReads, SendingBounded
<1>2. CASE UNCHANGED watchVars
  BY <1>2 DEF watchVars, WatchInv, WatchTypeOK, SendingBounded, GuardsHeld, RoundReads
<1> QED
  BY <1>1, <1>2, ChannelInv, DetectorInv, WatcherInv DEF WatchNext

(* detect_failures decides by the membership of the metrics that say it leads,
   though it borrows them twice. *)
THEOREM RoundsReadOneValue == WatchSpec => []OneValue
<1>1. WatchInv => OneValue
  BY DEF WatchInv, RoundReads, OneValue
<1> QED
  BY <1>1, InitWatchInv, NextWatchInv, PTL DEF WatchSpec

(* The variables of MetricsWatch keep their types: no task holds more than two
   guards, and readers release theirs. *)
THEOREM WatchTypeCorrect == WatchSpec => []WatchTypeOK
<1>1. WatchInv => WatchTypeOK
  BY DEF WatchInv
<1> QED
  BY <1>1, InitWatchInv, NextWatchInv, PTL DEF WatchSpec
=============================================================================
