---------------------------- MODULE MetricsWatch ----------------------------
(***************************************************************************)
(* The tasks of a node that follow openraft's metrics: detect_failures and *)
(* watch_membership_changes wait for a change and then borrow the value,   *)
(* ClusterRef::get_leader borrows it at any time (src/src/cluster.rs).     *)
(*                                                                         *)
(* The channel is tokio's watch: a version number, and the value behind a  *)
(* fair read-write lock.  borrow() takes a read guard and does not wait    *)
(* for other guards, but it does wait behind a writer that waits for them. *)
(* A value is described by its membership and by whether the node leads.   *)
(***************************************************************************)
EXTENDS Naturals

CONSTANTS
    Memberships,    \* memberships that openraft may report
    Readers,        \* threads that call get_leader
    MaxVersion      \* bound on the number of reports

Tasks == {"detector", "watcher"}

ASSUME WatchAssumption == MaxVersion \in Nat /\ Readers \cap Tasks = {}

Value == [membership : Memberships, leads : BOOLEAN]

VARIABLES
    value, version,     \* the channel
    sending,            \* values the writer waits to store: none or one
    guards,             \* number of read guards of every task and reader
    pc,                 \* where the two tasks are
    seen,               \* the version each task has seen
    metrics,            \* detect_failures: the value behind its first guard
    current,            \* both: the membership they work with
    last_membership,    \* watch_membership_changes
    retained            \* history: the last membership given to retain

channelVars == <<value, version, sending>>
detectorVars == <<metrics>>
watcherVars == <<last_membership, retained>>
watchVars == <<channelVars, guards, pc, seen, detectorVars, current, watcherVars>>

WatchInit ==
    /\ value \in Value
    /\ version = 0
    /\ sending = {}
    /\ guards = [t \in Tasks \cup Readers |-> 0]
    /\ pc = [t \in Tasks |-> "wait"]
    /\ seen = [t \in Tasks |-> 0]
    /\ metrics = value
    /\ current = [t \in Tasks |-> value.membership]
    /\ last_membership = value.membership
    /\ retained = value.membership

-----------------------------------------------------------------------------
(* The channel *)

(* openraft has something to report and asks for the lock. *)
Report ==
    /\ sending = {} /\ version < MaxVersion
    /\ \E v \in Value : sending' = {v}
    /\ UNCHANGED <<value, version, guards, pc, seen, detectorVars, current, watcherVars>>

(* The writer gets the lock when all guards are gone. *)
Send ==
    /\ sending # {} /\ \A t \in Tasks \cup Readers : guards[t] = 0
    /\ value' \in sending
    /\ version' = version + 1
    /\ sending' = {}
    /\ UNCHANGED <<guards, pc, seen, detectorVars, current, watcherVars>>

Borrow(t) ==
    /\ sending = {}
    /\ guards' = [guards EXCEPT ![t] = @ + 1]

Release(t) == guards' = [guards EXCEPT ![t] = @ - 1]
MoveTo(t, l) == pc' = [pc EXCEPT ![t] = l]

(* changed() *)
Changed(t) ==
    /\ pc[t] = "wait" /\ seen[t] # version
    /\ seen' = [seen EXCEPT ![t] = version]
    /\ MoveTo(t, "changed")
    /\ UNCHANGED <<channelVars, guards, detectorVars, current, watcherVars>>

-----------------------------------------------------------------------------
(* detect_failures *)

DetectorBorrows ==
    /\ pc["detector"] = "changed"
    /\ Borrow("detector")
    /\ metrics' = value
    /\ MoveTo("detector", "state")
    /\ UNCHANGED <<channelVars, seen, current, watcherVars>>

(* A node that does not lead drops the guard and waits again. *)
DetectorSkips ==
    /\ pc["detector"] = "state" /\ ~metrics.leads
    /\ Release("detector")
    /\ MoveTo("detector", "wait")
    /\ UNCHANGED <<channelVars, seen, detectorVars, current, watcherVars>>

(* Mutant: the first guard is dropped before the second one is taken. *)
DropsFirst ==
    /\ pc["detector"] = "state" /\ metrics.leads
    /\ IF guards["detector"] = 1
       THEN Release("detector") /\ UNCHANGED <<pc, current>>
       ELSE /\ Borrow("detector")
            /\ current' = [current EXCEPT !["detector"] = value.membership]
            /\ MoveTo("detector", "clone")
    /\ UNCHANGED <<channelVars, seen, detectorVars, watcherVars>>

(* The leader borrows once more while it holds its first guard. *)
DetectorBorrowsAgain ==
    /\ pc["detector"] = "state" /\ metrics.leads
    /\ Borrow("detector")
    /\ current' = [current EXCEPT !["detector"] = value.membership]
    /\ MoveTo("detector", "clone")
    /\ UNCHANGED <<channelVars, seen, detectorVars, watcherVars>>

(* The second guard is dropped after the clone, the first after the loop over
   the members; then the round goes on without the channel. *)
DetectorReleases ==
    /\ pc["detector"] \in {"clone", "members"}
    /\ Release("detector")
    /\ MoveTo("detector", IF pc["detector"] = "clone" THEN "members" ELSE "wait")
    /\ UNCHANGED <<channelVars, seen, detectorVars, current, watcherVars>>

Detector ==
    \/ Changed("detector") \/ DetectorBorrows \/ DetectorSkips
    \/ DetectorBorrowsAgain \/ DetectorReleases

-----------------------------------------------------------------------------
(* watch_membership_changes *)

WatcherBorrows ==
    /\ pc["watcher"] \in {"changed", "leader"}
    /\ Borrow("watcher")
    /\ MoveTo("watcher", IF pc["watcher"] = "changed" THEN "clone" ELSE "reading")
    /\ UNCHANGED <<channelVars, seen, detectorVars, current, watcherVars>>

(* The clone is compared with the last membership. *)
WatcherClones ==
    /\ pc["watcher"] = "clone"
    /\ current' = [current EXCEPT !["watcher"] = value.membership]
    /\ MoveTo("watcher", IF value.membership = last_membership THEN "wait" ELSE "leader")
    /\ Release("watcher")
    /\ UNCHANGED <<channelVars, seen, detectorVars, watcherVars>>

WatcherReadsLeader ==
    /\ pc["watcher"] = "reading"
    /\ Release("watcher")
    /\ MoveTo("watcher", "retain")
    /\ UNCHANGED <<channelVars, seen, detectorVars, current, watcherVars>>

(* Mutant: the membership is remembered as it is by now. *)
RetainsStale ==
    /\ pc["watcher"] = "retain"
    /\ retained' = current["watcher"]
    /\ last_membership' = value.membership
    /\ MoveTo("watcher", "wait")
    /\ UNCHANGED <<channelVars, guards, seen, detectorVars, current>>

WatcherRetains ==
    /\ pc["watcher"] = "retain"
    /\ retained' = current["watcher"]
    /\ last_membership' = current["watcher"]
    /\ MoveTo("watcher", "wait")
    /\ UNCHANGED <<channelVars, guards, seen, detectorVars, current>>

Watcher ==
    \/ Changed("watcher") \/ WatcherBorrows \/ WatcherClones
    \/ WatcherReadsLeader \/ WatcherRetains

-----------------------------------------------------------------------------
(* get_leader *)

ReaderBorrows(r) ==
    /\ guards[r] = 0
    /\ Borrow(r)
    /\ UNCHANGED <<channelVars, pc, seen, detectorVars, current, watcherVars>>

ReaderReleases(r) ==
    /\ guards[r] = 1
    /\ Release(r)
    /\ UNCHANGED <<channelVars, pc, seen, detectorVars, current, watcherVars>>

WatchNext ==
    \/ Report \/ Send \/ Detector \/ Watcher
    \/ \E r \in Readers : ReaderBorrows(r) \/ ReaderReleases(r)

WatchSpec == WatchInit /\ [][WatchNext]_watchVars

(* Every thread runs on, and the writer waits at the head of the lock. *)
WatchFairSpec ==
    /\ WatchSpec
    /\ WF_watchVars(Send) /\ WF_watchVars(Detector) /\ WF_watchVars(Watcher)
    /\ \A r \in Readers : WF_watchVars(ReaderReleases(r))

-----------------------------------------------------------------------------
(* Properties *)

(* The types of the variables; nobody holds more than two guards. *)
WatchTypeOK ==
    /\ value \in Value /\ version \in 0..MaxVersion
    /\ \E v \in Value : sending \in {{}, {v}}
    /\ guards \in [Tasks \cup Readers -> 0..2]
    /\ pc \in [Tasks -> {"wait", "changed", "state", "clone", "members", "leader",
                         "reading", "retain"}]
    /\ seen \in [Tasks -> 0..MaxVersion]
    /\ metrics \in Value /\ current \in [Tasks -> Memberships]
    /\ last_membership \in Memberships /\ retained \in Memberships

(* A round of detect_failures works on one value: the membership it reads
   with its second borrow belongs to the leadership it checked before. *)
OneValue ==
    pc["detector"] \in {"clone", "members"} => current["detector"] = metrics.membership

(* The detector's second borrow waits behind a writer that waits for its
   first guard. *)
Blocked == pc["detector"] = "state" /\ metrics.leads /\ sending # {}

(* The heartbeat monitor is cleaned up for the last membership: however the
   reports come, watch_membership_changes misses no change, unless the
   detector has blocked the channel. *)
LastMembershipRetained == <>[](retained = value.membership \/ Blocked)

(* A round that detect_failures has begun comes to its end. *)
RoundEnds == pc["detector"] = "state" ~> pc["detector"] = "wait"
=============================================================================
