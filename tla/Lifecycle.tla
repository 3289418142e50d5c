----------------------------- MODULE Lifecycle -----------------------------
(***************************************************************************)
(* How nodes come and go: Cluster::spawn, which starts a cluster or joins  *)
(* one through a seed, Cluster::shutdown with on_graceful_shutdown and     *)
(* force_shutdown, the two membership requests as main_loop serves them    *)
(* (src/src/cluster.rs) and as Client::request sends them, redirects       *)
(* included (src/src/connection/client.rs).                                *)
(*                                                                         *)
(* A node is one process: its server ID is new, its public address need    *)
(* not be.  main_loop serves one request at a time.  openraft is modelled  *)
(* by its leader, what each node believes the leader to be, and one        *)
(* membership change at a time, committed by a quorum of the old and of    *)
(* the new voters.  Nodes crash, but no message is lost between two nodes  *)
(* that run.  The failure detector removes members that do not run; how it *)
(* finds them is the subject of FailureDetector.                           *)
(***************************************************************************)
EXTENDS Naturals, FiniteSets

CONSTANTS
    Nodes,
    Addrs,          \* public addresses
    MaxCrashes,     \* bound on the number of crashes
    None

ASSUME LifecycleAssumption ==
    /\ IsFiniteSet(Nodes) /\ MaxCrashes \in Nat /\ None \notin Nodes
    /\ {"ok", "error", "detector"} \cap (Nodes \cup {None}) = {}

VARIABLES
    addr,       \* the public address a node is configured with
    pc,         \* where spawn or shutdown of a node is
    on,         \* nodes whose openraft and tasks run
    crashes,    \* number of crashes so far
    seed,       \* the seed of a node
    target,     \* the node that the pending request was sent to
    answer,     \* the answer: "ok", "error", or the leader to ask instead
    inbox,      \* requests that wait for the main_loop of a node
    busy,       \* the request that main_loop serves
    leader, believes,            \* the leader; metrics.current_leader
    voters, learners, change     \* the membership and the change in progress

clientVars == <<seed, target, answer>>
serverVars == <<inbox, busy>>
memberVars == <<voters, learners, change>>
vars == <<addr, pc, on, crashes, clientVars, serverVars, leader, believes, memberVars>>

Request == [from : Nodes, kind : {"AddLearner", "AddVoterIds", "RemoveVoters"}]
Change == [voters : SUBSET Nodes, learners : SUBSET Nodes, by : Nodes \cup {"detector"}]
Asking == {"AddLearner", "AddVoterIds", "RemoveVoters"}

ASSUME NoChangeAssumption == None \notin Change

VoterIds == voters \cup (IF change = None THEN {} ELSE change.voters)
Members == VoterIds \cup learners \cup (IF change = None THEN {} ELSE change.learners)

Majority(P, V) == 2 * Cardinality(P \cap V) > Cardinality(V)
Quorum(P) == Majority(P, voters) /\ (change # None => Majority(P, change.voters))

Init ==
    /\ addr \in [Nodes -> Addrs]
    /\ pc = [n \in Nodes |-> "off"]
    /\ on = {}
    /\ crashes = 0
    /\ seed = [n \in Nodes |-> None]
    /\ target = [n \in Nodes |-> None]
    /\ answer = [n \in Nodes |-> None]
    /\ inbox = [n \in Nodes |-> {}]
    /\ busy = [n \in Nodes |-> None]
    /\ leader = None
    /\ believes = [n \in Nodes |-> None]
    /\ voters = {} /\ learners = {} /\ change = None

-----------------------------------------------------------------------------
(* Client::request *)

Goto(n, l) == pc' = [pc EXCEPT ![n] = l]

(* Send the request that the next label of n is named after. *)
Send(n, t, kind) ==
    /\ target' = [target EXCEPT ![n] = t]
    /\ answer' = [answer EXCEPT ![n] = None]
    /\ inbox' = IF t \in on
                THEN [inbox EXCEPT ![t] = @ \cup {[from |-> n, kind |-> kind]}]
                ELSE inbox

(* ForwardToLeader with a known leader: ask that one. *)
Redirect(n) ==
    /\ pc[n] \in Asking /\ answer[n] \in Nodes
    /\ Send(n, answer[n], pc[n])
    /\ UNCHANGED <<addr, pc, on, crashes, seed, busy, leader, believes, memberVars>>

(* What a failed request leads to: spawn returns an error and leaves openraft
   and the tasks behind, a graceful shutdown ends the process. *)
Failed(n) ==
    IF pc[n] = "RemoveVoters"
    THEN Goto(n, "exited") /\ on' = on \ {n} /\ leader' = (IF leader = n THEN None ELSE leader)
    ELSE Goto(n, "failed") /\ UNCHANGED <<on, leader>>

(* An error is the answer; the leader's own change fails when it is stopped. *)
Rejected(n) ==
    /\ pc[n] \in Asking
    /\ answer[n] = "error" \/ (target[n] = None /\ n \notin on)
    /\ Failed(n)
    /\ UNCHANGED <<addr, crashes, clientVars, serverVars, believes, memberVars>>

(* The connection fails or times out: the node that was asked does not run, or
   cannot get on with the request. *)
ConnectionLost(n) ==
    /\ pc[n] \in Asking /\ answer[n] = None /\ target[n] # None
    /\ target[n] \notin on \/ ~Quorum(on)
    /\ Failed(n)
    /\ UNCHANGED <<addr, crashes, clientVars, serverVars, believes, memberVars>>

-----------------------------------------------------------------------------
(* Cluster::spawn *)

(* Without a seed: a cluster with a single node, which becomes its leader. *)
Initialize(n) ==
    /\ pc[n] = "off" /\ Members = {}
    /\ Goto(n, "running")
    /\ on' = on \cup {n}
    /\ voters' = {n}
    /\ leader' = n
    /\ believes' = [believes EXCEPT ![n] = n]
    /\ UNCHANGED <<addr, crashes, clientVars, serverVars, learners, change>>

(* With a seed: ask it to be added as a learner. *)
Join(n, s) ==
    /\ pc[n] = "off" /\ s \in Nodes \ {n} /\ pc[s] # "off"
    /\ Goto(n, "AddLearner")
    /\ on' = on \cup {n}
    /\ seed' = [seed EXCEPT ![n] = s]
    /\ Send(n, s, "AddLearner")
    /\ UNCHANGED <<addr, crashes, busy, leader, believes, memberVars>>

(* Then, on the same connection, to be made a voter. *)
JoinedAsLearner(n) ==
    /\ pc[n] = "AddLearner" /\ answer[n] = "ok"
    /\ Goto(n, "AddVoterIds")
    /\ Send(n, seed[n], "AddVoterIds")
    /\ UNCHANGED <<addr, on, crashes, seed, busy, leader, believes, memberVars>>

Upgraded(n) ==
    /\ pc[n] = "AddVoterIds" /\ answer[n] = "ok"
    /\ Goto(n, "wait")
    /\ UNCHANGED <<addr, on, crashes, clientVars, serverVars, leader, believes, memberVars>>

(* wait().state(Follower) *)
BecomesFollower(n) ==
    /\ pc[n] = "wait" /\ n \in VoterIds /\ believes[n] # None
    /\ Goto(n, "running")
    /\ UNCHANGED <<addr, on, crashes, clientVars, serverVars, leader, believes, memberVars>>

(* Mutant: the wait has no timeout. *)
WaitsOn(n) == pc[n] = "wait" /\ FALSE /\ UNCHANGED vars

(* The leader did not get through to the node in time. *)
WaitTimesOut(n) ==
    /\ pc[n] = "wait" /\ (leader = None \/ n \notin VoterIds)
    /\ Goto(n, "failed")
    /\ UNCHANGED <<addr, on, crashes, clientVars, serverVars, leader, believes, memberVars>>

-----------------------------------------------------------------------------
(* main_loop and handle_message *)

Reply(n, a) == answer' = [answer EXCEPT ![n] = a]

(* A requester that has given up does not hear the answer. *)
ReplyTo(r, a) ==
    IF pc[r.from] = r.kind /\ answer[r.from] = None THEN Reply(r.from, a) ELSE UNCHANGED answer

NodeExists(r) == r.kind = "AddLearner" /\ \E m \in Members : addr[m] = addr[r.from]

(* Mutant: a learner that is made a voter stays a learner. *)
ChangedTwice(r) ==
    [voters |-> CASE r.kind = "AddLearner"   -> voters
                  [] r.kind = "AddVoterIds"  -> voters \cup {r.from}
                  [] r.kind = "RemoveVoters" -> voters \ {r.from},
     learners |-> IF r.kind = "AddLearner" THEN learners \cup {r.from} ELSE learners,
     by |-> r.from]

(* The membership that the request asks for. *)
Changed(r) ==
    [voters |-> CASE r.kind = "AddLearner"   -> voters
                  [] r.kind = "AddVoterIds"  -> voters \cup {r.from}
                  [] r.kind = "RemoveVoters" -> voters \ {r.from},
     learners |-> IF r.kind = "AddLearner" THEN learners \cup {r.from} ELSE learners \ {r.from},
     by |-> r.from]

(* openraft refuses the change: one is in progress (InProgress), the learner
   is unknown (LearnerNotFound), no voter would remain (EmptyMembership). *)
Refused(r) ==
    \/ change # None
    \/ r.kind = "AddVoterIds" /\ r.from \notin learners
    \/ Changed(r).voters = {}

(* Mutant: the addresses of the members are not looked at. *)
HandleUnchecked(s, r) ==
    /\ s \in on /\ busy[s] = None /\ r \in inbox[s]
    /\ inbox' = [inbox EXCEPT ![s] = @ \ {r}]
    /\ IF leader # s \/ Refused(r)
       THEN /\ ReplyTo(r, IF leader # s /\ believes[s] \notin {None, s} THEN believes[s] ELSE "error")
            /\ UNCHANGED <<busy, change>>
       ELSE /\ busy' = [busy EXCEPT ![s] = r]
            /\ change' = Changed(r)
            /\ UNCHANGED answer
    /\ UNCHANGED <<addr, pc, on, crashes, seed, target, leader, believes, voters, learners>>

(* handle_message up to its await. *)
Handle(s, r) ==
    /\ s \in on /\ busy[s] = None /\ r \in inbox[s]
    /\ inbox' = [inbox EXCEPT ![s] = @ \ {r}]
    /\ IF NodeExists(r) \/ leader # s \/ Refused(r)
       THEN /\ ReplyTo(r, IF ~NodeExists(r) /\ leader # s /\ believes[s] \notin {None, s}
                          THEN believes[s] ELSE "error")
            /\ UNCHANGED <<busy, change>>
       ELSE /\ busy' = [busy EXCEPT ![s] = r]
            /\ change' = Changed(r)
            /\ UNCHANGED answer
    /\ UNCHANGED <<addr, pc, on, crashes, seed, target, leader, believes, voters, learners>>

InProgress(n) == change # None /\ change.by = n

(* Mutant: the answer does not wait for the change. *)
ServedEarly(s) ==
    /\ s \in on /\ busy[s] # None
    /\ ReplyTo(busy[s], "ok")
    /\ busy' = [busy EXCEPT ![s] = None]
    /\ UNCHANGED <<addr, pc, on, crashes, seed, target, inbox, leader, believes, memberVars>>

(* The change is committed; a new learner has also been reached, or is not a
   member any more (blocking). *)
Served(s) ==
    /\ s \in on /\ busy[s] # None
    /\ ~InProgress(busy[s].from)
    /\ busy[s].kind = "AddLearner" => (busy[s].from \in on \/ busy[s].from \notin Members)
    /\ ReplyTo(busy[s], "ok")
    /\ busy' = [busy EXCEPT ![s] = None]
    /\ UNCHANGED <<addr, pc, on, crashes, seed, target, inbox, leader, believes, memberVars>>

-----------------------------------------------------------------------------
(* Cluster::shutdown *)

(* The last node just stops, and so does one that knows no leader. *)
ShutdownAlone(n) ==
    /\ pc[n] = "running" /\ n \in on
    /\ Cardinality(Members) <= 1 \/ (leader # n /\ believes[n] \in {None, n})
    /\ Goto(n, "stop")
    /\ UNCHANGED <<addr, on, crashes, clientVars, serverVars, leader, believes, memberVars>>

(* The leader removes itself; an error ends the process. *)
ShutdownLeader(n) ==
    /\ pc[n] = "running" /\ n \in on /\ leader = n /\ Cardinality(Members) > 1
    /\ IF change # None \/ voters = {n}
       THEN /\ Goto(n, "exited")
            /\ on' = on \ {n}
            /\ leader' = None
            /\ UNCHANGED <<target, answer, change>>
       ELSE /\ Goto(n, "RemoveVoters")
            /\ target' = [target EXCEPT ![n] = None]
            /\ Reply(n, None)
            /\ change' = [voters |-> voters \ {n}, learners |-> learners, by |-> n]
            /\ UNCHANGED <<on, leader>>
    /\ UNCHANGED <<addr, crashes, seed, serverVars, believes, voters, learners>>

(* A follower asks the leader to remove it. *)
ShutdownFollower(n) ==
    /\ pc[n] = "running" /\ n \in on /\ leader # n /\ believes[n] \notin {None, n}
    /\ Cardinality(Members) > 1
    /\ Goto(n, "RemoveVoters")
    /\ Send(n, believes[n], "RemoveVoters")
    /\ UNCHANGED <<addr, on, crashes, seed, busy, leader, believes, memberVars>>

(* Of a node that has been stopped before: the channel of the broadcast has no
   receiver left, and change_membership fails. *)
ShutdownStopped(n) ==
    /\ pc[n] = "running" /\ n \notin on
    /\ Goto(n, "exited")
    /\ UNCHANGED <<addr, on, crashes, clientVars, serverVars, leader, believes, memberVars>>

(* Mutant: the leader waits for an answer, too. *)
LeftAnswered(n) ==
    /\ pc[n] = "RemoveVoters"
    /\ answer[n] = "ok"
    /\ Goto(n, "stop")
    /\ UNCHANGED <<addr, on, crashes, clientVars, serverVars, leader, believes, memberVars>>

(* The node has been removed. *)
Left(n) ==
    /\ pc[n] = "RemoveVoters"
    /\ answer[n] = "ok" \/ (target[n] = None /\ n \in on /\ ~InProgress(n))
    /\ Goto(n, "stop")
    /\ UNCHANGED <<addr, on, crashes, clientVars, serverVars, leader, believes, memberVars>>

(* Openraft and the tasks end; what they had to do is dropped. *)
Ends(n) ==
    /\ on' = on \ {n}
    /\ leader' = IF leader = n THEN None ELSE leader
    /\ inbox' = [inbox EXCEPT ![n] = {}]
    /\ busy' = [busy EXCEPT ![n] = None]

(* force_shutdown at the end of a graceful one. *)
Stop(n) ==
    /\ pc[n] = "stop"
    /\ Ends(n)
    /\ Goto(n, "returned")
    /\ UNCHANGED <<addr, crashes, clientVars, believes, memberVars>>

(* force_shutdown of the failure detector: the leader has lost its quorum. *)
QuorumLost(n) ==
    /\ n \in on /\ leader = n /\ ~Quorum(on)
    /\ Ends(n)
    /\ UNCHANGED <<addr, pc, crashes, clientVars, believes, memberVars>>

-----------------------------------------------------------------------------
(* openraft, the failure detector, crashes *)

(* Mutant: only voters are removed. *)
DetectVoters(d) ==
    /\ leader # None /\ change = None /\ d \in voters \ on
    /\ change' = [voters |-> voters \ {d}, learners |-> learners, by |-> "detector"]
    /\ UNCHANGED <<addr, pc, on, crashes, clientVars, serverVars, leader, believes, voters, learners>>

(* detect_failures removes a member that does not run. *)
DetectFailure(d) ==
    /\ leader # None /\ change = None /\ d \in Members \ on
    /\ change' = [voters |-> voters \ {d}, learners |-> learners \ {d}, by |-> "detector"]
    /\ UNCHANGED <<addr, pc, on, crashes, clientVars, serverVars, leader, believes, voters, learners>>

Commit ==
    /\ change # None /\ leader # None /\ Quorum(on)
    /\ voters' = change.voters
    /\ learners' = change.learners
    /\ change' = None
    /\ UNCHANGED <<addr, pc, on, crashes, clientVars, serverVars, leader, believes>>

(* The new leader may or may not have the change in its log. *)
Elect(n) ==
    /\ leader = None /\ n \in on \cap VoterIds /\ Quorum(on)
    /\ leader' = n
    /\ believes' = [believes EXCEPT ![n] = n]
    /\ change' \in {change, None}
    /\ UNCHANGED <<addr, pc, on, crashes, clientVars, serverVars, voters, learners>>

(* A member hears from the leader, or notices that there is none. *)
Hear(n) ==
    /\ n \in on \cap Members /\ believes[n] # leader
    /\ leader # None \/ believes[n] \notin on
    /\ believes' = [believes EXCEPT ![n] = leader]
    /\ UNCHANGED <<addr, pc, on, crashes, clientVars, serverVars, leader, memberVars>>

Crash(n) ==
    /\ n \in on /\ crashes < MaxCrashes
    /\ crashes' = crashes + 1
    /\ Ends(n)
    /\ Goto(n, "crashed")
    /\ UNCHANGED <<addr, clientVars, believes, memberVars>>

Spawning(n) ==
    \/ JoinedAsLearner(n) \/ Upgraded(n) \/ BecomesFollower(n) \/ WaitTimesOut(n)
    \/ Redirect(n) \/ Rejected(n) \/ ConnectionLost(n)

Shutdown(n) == ShutdownAlone(n) \/ ShutdownLeader(n) \/ ShutdownFollower(n) \/ ShutdownStopped(n)

MainLoop(s) == Served(s) \/ \E r \in inbox[s] : Handle(s, r)

Next ==
    \/ Commit
    \/ \E n \in Nodes :
          \/ Initialize(n) \/ Spawning(n) \/ MainLoop(n)
          \/ Shutdown(n) \/ Left(n) \/ Stop(n)
          \/ QuorumLost(n) \/ DetectFailure(n) \/ Elect(n) \/ Hear(n) \/ Crash(n)
    \/ \E n, s \in Nodes : Join(n, s)

Spec == Init /\ [][Next]_vars

(* Nodes that run do what they have to; starting, stopping and crashing are
   up to the environment. *)
Fairness ==
    /\ WF_vars(Commit) /\ WF_vars(\E n \in Nodes : Elect(n))
    /\ \A n \in Nodes :
          /\ WF_vars(Spawning(n)) /\ WF_vars(MainLoop(n)) /\ WF_vars(Left(n) \/ Stop(n))
          /\ WF_vars(Hear(n)) /\ SF_vars(DetectFailure(n))

FairSpec == Spec /\ Fairness

-----------------------------------------------------------------------------
(* Properties *)

(* The types of the variables; a voter is not a learner as well. *)
TypeOK ==
    /\ addr \in [Nodes -> Addrs]
    /\ pc \in [Nodes -> Asking \cup {"off", "wait", "running", "stop", "returned", "failed",
                                     "exited", "crashed"}]
    /\ on \subseteq Nodes /\ crashes \in 0..MaxCrashes
    /\ seed \in [Nodes -> Nodes \cup {None}] /\ target \in [Nodes -> Nodes \cup {None}]
    /\ answer \in [Nodes -> Nodes \cup {None, "ok", "error"}]
    /\ inbox \in [Nodes -> SUBSET Request] /\ busy \in [Nodes -> Request \cup {None}]
    /\ leader \in Nodes \cup {None} /\ believes \in [Nodes -> Nodes \cup {None}]
    /\ voters \subseteq Nodes /\ learners \subseteq Nodes /\ change \in Change \cup {None}
    /\ voters \cap learners = {}

(* No two members are announced with the same address, whatever joins,
   failures and restarts overlap: requests are checked one at a time. *)
AddrsDiffer == \A m, n \in Members : m # n => addr[m] # addr[n]

(* A node for which spawn has returned votes, until it leaves. *)
RunningVote == \A n \in on : pc[n] = "running" => n \in VoterIds

(* A node whose shutdown has asked to be removed, itself or through the
   leader, does not stop before it has been: no voter is lost to the others
   without their knowing, whoever crashes or is elected meanwhile. *)
LeaversRemoved ==
    [][\A n \in Nodes : pc[n] = "RemoveVoters" /\ pc'[n] = "stop" => n \notin VoterIds]_vars

(* spawn returns: the node runs, or the caller gets an error. *)
SpawnEnds ==
    \A n \in Nodes :
        pc[n] \in {"AddLearner", "AddVoterIds", "wait"} ~> pc[n] \in {"running", "failed", "crashed"}

(* While a quorum runs, main_loop does not wait for one request for ever, not
   even for a learner that has crashed while it was added. *)
MainLoopReturns ==
    \A s \in Nodes : busy[s] # None ~> (busy[s] = None \/ ~Quorum(on))

(* While a quorum runs, a graceful shutdown comes to an end. *)
ShutdownEnds ==
    \A n \in Nodes :
        pc[n] \in {"RemoveVoters", "stop"} ~>
            (pc[n] \in {"returned", "exited", "crashed"} \/ ~Quorum(on))
=============================================================================
