-------------------------- MODULE LifecycleProofs --------------------------
(***************************************************************************)
(* Proof that no two members of the cluster have the same address, for     *)
(* every set of nodes and every assignment of addresses.  Every step       *)
(* leaves the members as they are, drops some, or, in handle_message, adds *)
(* one node whose address has just been compared with those of all others. *)
(*                                                                         *)
(* Then proofs that a running node votes and that a node which leaves has  *)
(* been removed when it stops.  The answer a node waits for, the request   *)
(* main_loop handles and the change of the membership are three records of *)
(* one fact, and the invariant says how they go together.                  *)
(***************************************************************************)
EXTENDS Lifecycle, TLAPS

(* The empty set has no members, as FiniteSets counts them. *)
LEMMA NoMembers == Cardinality({}) = 0
<1> DEFINE F(g) == [T \in SUBSET {} |-> IF T = {} THEN 0 ELSE 1 + g[T \ {CHOOSE x : x \in T}]]
           CS == CHOOSE g : g = F(g)
<1>1. F([T \in SUBSET {} |-> 0]) = [T \in SUBSET {} |-> 0]
    OBVIOUS
<1>2. CS = F(CS)
    <2> HIDE DEF F
    <2> QED BY <1>1, Zenon
<1>3. CS[{}] = 0
    <2> HIDE DEF CS
    <2> QED BY <1>2
<1>4. Cardinality({}) = CS[{}]
    BY Zenon DEF Cardinality
<1> QED BY <1>3, <1>4

(* A change that is in progress keeps voters and learners apart, and so does
   the membership it starts from. *)
Apart ==
    /\ voters \cap learners = {}
    /\ change # None => change.voters \cap change.learners = {}

IInv == TypeOK /\ Apart /\ AddrsDiffer

(* The initial state satisfies the inductive invariant. *)
LEMMA InitInv == Init => IInv
BY LifecycleAssumption
   DEF Init, IInv, TypeOK, Apart, AddrsDiffer, Members, VoterIds, Change, Request

(* Sending a request keeps the types of what it writes. *)
LEMMA SendType ==
    ASSUME TypeOK, NEW n \in Nodes, NEW t \in Nodes, NEW k \in Asking, Send(n, t, k)
    PROVE  /\ target' \in [Nodes -> Nodes \cup {None}]
           /\ answer' \in [Nodes -> Nodes \cup {None, "ok", "error"}]
           /\ inbox' \in [Nodes -> SUBSET Request]
BY DEF TypeOK, Send, Request, Asking

(* So does the end of a node. *)
LEMMA EndsType ==
    ASSUME TypeOK, NEW n \in Nodes, Ends(n)
    PROVE  /\ on' \subseteq Nodes /\ leader' \in Nodes \cup {None}
           /\ inbox' \in [Nodes -> SUBSET Request] /\ busy' \in [Nodes -> Request \cup {None}]
BY DEF TypeOK, Ends

(* The members are kept when the membership is. *)
LEMMA MembersKept ==
    ASSUME IInv, UNCHANGED <<addr, memberVars>>
    PROVE  Apart' /\ AddrsDiffer'
BY DEF IInv, Apart, AddrsDiffer, Members, VoterIds, memberVars

(* Fewer members have different addresses, too. *)
LEMMA MembersDropped ==
    ASSUME IInv, UNCHANGED addr, Members' \subseteq Members
    PROVE  AddrsDiffer'
BY DEF IInv, AddrsDiffer

(* The steps of spawn and of its requests keep the inductive invariant. *)
LEMMA SpawningInv ==
    ASSUME IInv, NEW n \in Nodes, Spawning(n) \/ (\E s \in Nodes : Join(n, s))
    PROVE  IInv'
<1>1. UNCHANGED <<addr, memberVars>>
    BY DEF Spawning, JoinedAsLearner, Upgraded, BecomesFollower, WaitTimesOut, Redirect,
           Rejected, ConnectionLost, Join
<1>2. Apart' /\ AddrsDiffer'
    BY <1>1, MembersKept
<1>3. TypeOK'
    <2> USE DEF IInv
    <2>1. CASE Redirect(n)
        BY <2>1, SendType DEF Redirect, TypeOK, memberVars
    <2>2. ASSUME NEW s \in Nodes, Join(n, s) PROVE TypeOK'
        BY <2>2, SendType DEF Join, Goto, TypeOK, memberVars, Asking
    <2>3. CASE JoinedAsLearner(n)
        <3>1. seed[n] \in Nodes \cup {None}
            BY DEF TypeOK
        <3>2. /\ target' \in [Nodes -> Nodes \cup {None}]
              /\ answer' \in [Nodes -> Nodes \cup {None, "ok", "error"}]
              /\ inbox' \in [Nodes -> SUBSET Request]
            BY <2>3, <3>1 DEF JoinedAsLearner, Send, TypeOK, Request
        <3> QED
            BY <2>3, <3>2 DEF JoinedAsLearner, Goto, TypeOK, memberVars, Asking
    <2>4. CASE Upgraded(n) \/ BecomesFollower(n) \/ WaitTimesOut(n)
        BY <2>4 DEF Upgraded, BecomesFollower, WaitTimesOut, Goto, TypeOK, clientVars,
                    serverVars, memberVars
    <2>5. CASE Rejected(n) \/ ConnectionLost(n)
        BY <2>5 DEF Rejected, ConnectionLost, Failed, Goto, TypeOK, clientVars,
                    serverVars, memberVars
    <2> QED
        BY <2>1, <2>2, <2>3, <2>4, <2>5 DEF Spawning
<1> QED
    BY <1>2, <1>3 DEF IInv

(* The first node of a cluster keeps it. *)
LEMMA InitializeInv ==
    ASSUME IInv, NEW n \in Nodes, Initialize(n)
    PROVE  IInv'
<1>1. /\ voters = {} /\ learners = {}
      /\ change # None => change.voters = {} /\ change.learners = {}
    BY DEF Initialize, Members, VoterIds
<1> QED
    BY <1>1 DEF Initialize, Goto, IInv, TypeOK, Apart, AddrsDiffer, Members, VoterIds,
                clientVars, serverVars

(* A request that is served adds at most its sender, whose address nobody has,
   and keeps voters and learners apart. *)
LEMMA HandleInv ==
    ASSUME IInv, NEW s \in Nodes, NEW r \in inbox[s], Handle(s, r)
    PROVE  IInv'
<1>1. r \in Request /\ r.from \in Nodes /\ r.kind \in Asking
    BY DEF IInv, TypeOK, Request, Asking
<1>2. /\ answer' \in [Nodes -> Nodes \cup {None, "ok", "error"}]
      /\ inbox' \in [Nodes -> SUBSET Request] /\ busy' \in [Nodes -> Request \cup {None}]
    BY <1>1 DEF Handle, ReplyTo, Reply, IInv, TypeOK
<1>3. CASE NodeExists(r) \/ leader # s \/ Refused(r)
    <2>1. UNCHANGED <<addr, memberVars>>
        BY <1>3 DEF Handle, memberVars
    <2> QED
        BY <1>2, <2>1, MembersKept DEF Handle, IInv, TypeOK, memberVars
<1>4. CASE ~(NodeExists(r) \/ leader # s \/ Refused(r))
    <2>1. change = None /\ change' = Changed(r) /\ UNCHANGED <<addr, voters, learners>>
        BY <1>4 DEF Handle, Refused
    <2>2. r.from \notin Members \/ r.kind # "AddLearner"
        BY <1>4 DEF NodeExists
    <2>3. /\ change'.voters \subseteq voters \cup {r.from}
          /\ change'.learners \subseteq learners \cup {r.from}
          /\ change'.voters \cap change'.learners = {}
        BY <1>1, <2>1, <2>2 DEF Changed, Asking, IInv, Apart, Members, VoterIds
    <2>4. change' \in Change
        <3>1. change' = [voters |-> change'.voters, learners |-> change'.learners, by |-> r.from]
            BY <2>1 DEF Changed
        <3>2. change'.voters \in SUBSET Nodes /\ change'.learners \in SUBSET Nodes
            BY <1>1, <2>3 DEF IInv, TypeOK
        <3> HIDE DEF Changed
        <3> QED
            BY <1>1, <3>1, <3>2 DEF Change
    <2>5. Members' \subseteq Members \cup {r.from}
        BY <2>1, <2>3 DEF Members, VoterIds
    <2>6. AddrsDiffer'
        <3>1. CASE r.kind = "RemoveVoters"
            <4>1. Members' \subseteq Members
                BY <2>1, <3>1 DEF Changed, Members, VoterIds
            <4> QED
                BY <2>1, <4>1, MembersDropped
        <3>2. CASE r.kind # "RemoveVoters"
            <4>1. \A m \in Members : m # r.from => addr[m] # addr[r.from]
                BY <1>1, <1>4, <3>2
                   DEF NodeExists, Refused, Asking, Members, IInv, AddrsDiffer
            <4> QED
                BY <2>1, <2>5, <4>1 DEF IInv, AddrsDiffer
        <3> QED
            BY <3>1, <3>2
    <2> QED
        BY <1>2, <2>1, <2>3, <2>4, <2>6 DEF Handle, IInv, TypeOK, Apart
<1> QED
    BY <1>3, <1>4

(* The answer to a request keeps the inductive invariant. *)
LEMMA ServedInv ==
    ASSUME IInv, NEW s \in Nodes, Served(s)
    PROVE  IInv'
<1>1. Apart' /\ AddrsDiffer'
    BY MembersKept DEF Served
<1>2. busy[s] \in Request /\ busy[s].from \in Nodes
    BY DEF Served, IInv, TypeOK, Request
<1> QED
    BY <1>1, <1>2 DEF Served, ReplyTo, Reply, IInv, TypeOK, memberVars

(* Shutting a node down, in whatever way, keeps it. *)
LEMMA ShutdownInv ==
    ASSUME IInv, NEW n \in Nodes, Shutdown(n) \/ Left(n) \/ Stop(n) \/ QuorumLost(n) \/ Crash(n)
    PROVE  IInv'
<1> USE DEF IInv
<1>1. CASE ShutdownLeader(n)
    <2>1. /\ change' = change \/ (change = None /\ change' \in Change)
          /\ UNCHANGED <<addr, voters, learners>>
        BY <1>1 DEF ShutdownLeader, TypeOK, Change
    <2>2. Members' \subseteq Members /\ Apart'
        BY <1>1 DEF ShutdownLeader, Members, VoterIds, Apart
    <2>3. AddrsDiffer'
        BY <2>1, <2>2, MembersDropped
    <2>4. change' \in Change \cup {None}
        BY <2>1 DEF TypeOK
    <2> QED
        BY <1>1, <2>1, <2>2, <2>3, <2>4
           DEF ShutdownLeader, Goto, Reply, TypeOK, Apart, serverVars, Asking
<1>2. CASE ShutdownFollower(n)
    <2>1. believes[n] \in Nodes
        BY <1>2 DEF ShutdownFollower, TypeOK
    <2>2. Apart' /\ AddrsDiffer'
        BY <1>2, MembersKept DEF ShutdownFollower
    <2> QED
        BY <1>2, <2>1, <2>2, SendType DEF ShutdownFollower, Goto, TypeOK, memberVars, Asking
<1>3. CASE ShutdownAlone(n) \/ ShutdownStopped(n) \/ Left(n)
    <2>1. Apart' /\ AddrsDiffer'
        BY <1>3, MembersKept DEF ShutdownAlone, ShutdownStopped, Left
    <2> QED
        BY <1>3, <2>1 DEF ShutdownAlone, ShutdownStopped, Left, Goto, TypeOK, clientVars,
                          serverVars, memberVars
<1>4. CASE Stop(n) \/ QuorumLost(n) \/ Crash(n)
    <2>1. Apart' /\ AddrsDiffer'
        BY <1>4, MembersKept DEF Stop, QuorumLost, Crash
    <2>2. Ends(n)
        BY <1>4 DEF Stop, QuorumLost, Crash
    <2>3. crashes' \in 0..MaxCrashes
        BY <1>4, LifecycleAssumption DEF Stop, QuorumLost, Crash, TypeOK
    <2> QED
        BY <1>4, <2>1, <2>2, <2>3, EndsType
           DEF Stop, QuorumLost, Crash, Goto, TypeOK, clientVars, memberVars
<1> QED
    BY <1>1, <1>2, <1>3, <1>4 DEF Shutdown

(* So do the steps of openraft and of the failure detector. *)
LEMMA RaftInv ==
    ASSUME IInv, NEW n \in Nodes, Commit \/ DetectFailure(n) \/ Elect(n) \/ Hear(n)
    PROVE  IInv'
<1> USE DEF IInv
<1>1. CASE Commit
    <2>1. Members' \subseteq Members /\ Apart'
        BY <1>1 DEF Commit, Members, VoterIds, Apart
    <2> QED
        BY <1>1, <2>1, MembersDropped
           DEF Commit, TypeOK, Apart, Change, clientVars, serverVars
<1>2. CASE DetectFailure(n)
    <2>1. Members' \subseteq Members /\ Apart'
        BY <1>2 DEF DetectFailure, Members, VoterIds, Apart
    <2>2. change' \in Change
        BY <1>2 DEF DetectFailure, TypeOK, Change
    <2> QED
        BY <1>2, <2>1, <2>2, MembersDropped
           DEF DetectFailure, TypeOK, Apart, clientVars, serverVars
<1>3. CASE Elect(n)
    <2>1. Members' \subseteq Members /\ Apart'
        BY <1>3 DEF Elect, Members, VoterIds, Apart
    <2> QED
        BY <1>3, <2>1, MembersDropped
           DEF Elect, TypeOK, Apart, clientVars, serverVars
<1>4. CASE Hear(n)
    <2>1. Apart' /\ AddrsDiffer'
        BY <1>4, MembersKept DEF Hear
    <2> QED
        BY <1>4, <2>1 DEF Hear, TypeOK, clientVars, serverVars, memberVars
<1> QED
    BY <1>1, <1>2, <1>3, <1>4

(* Every step keeps the inductive invariant. *)
LEMMA NextInv == IInv /\ [Next]_vars => IInv'
<1> SUFFICES ASSUME IInv, [Next]_vars PROVE IInv'
    OBVIOUS
<1>1. CASE Commit
    <2>1. CASE Nodes = {}
        BY <1>1, <2>1 DEF Commit, IInv, TypeOK
    <2> QED
        BY <1>1, <2>1, RaftInv
<1>2. ASSUME NEW n \in Nodes,
             \/ Initialize(n) \/ Spawning(n) \/ MainLoop(n)
             \/ Shutdown(n) \/ Left(n) \/ Stop(n)
             \/ QuorumLost(n) \/ DetectFailure(n) \/ Elect(n) \/ Hear(n) \/ Crash(n)
      PROVE  IInv'
    BY <1>2, InitializeInv, SpawningInv, HandleInv, ServedInv, ShutdownInv, RaftInv
       DEF MainLoop
<1>3. ASSUME NEW n \in Nodes, NEW s \in Nodes, Join(n, s) PROVE IInv'
    BY <1>3, SpawningInv
<1>4. CASE UNCHANGED vars
    BY <1>4, MembersKept
       DEF vars, IInv, TypeOK, clientVars, serverVars, memberVars
<1> QED
    BY <1>1, <1>2, <1>3, <1>4 DEF Next

(* The inductive invariant holds in every behaviour. *)
LEMMA InductiveInv == Spec => []IInv
BY InitInv, NextInv, PTL DEF Spec

(* The variables of Lifecycle keep their types, and no voter is a learner. *)
THEOREM TypeCorrect == Spec => []TypeOK
BY InductiveInv, PTL DEF IInv

(* No two members are ever announced with the same address, for every set of
   nodes that join, leave, fail and restart. *)
THEOREM AddressesUnique == Spec => []AddrsDiffer
BY InductiveInv, PTL DEF IInv

-----------------------------------------------------------------------------
(* Running and leaving *)

Gone(n) == pc[n] \in {"failed", "exited", "crashed"}

(* The sender of r, if it has not given up, waits for the answer of s. *)
Awaited(s, r) ==
    Gone(r.from) \/ (pc[r.from] = r.kind /\ answer[r.from] = None /\ target[r.from] = s)

(* A request is under way once, at the node it was last sent to. *)
OneRequest ==
    \A s \in Nodes :
        /\ \A r \in inbox[s] : Awaited(s, r)
        /\ busy[s] # None =>
              Awaited(s, busy[s]) /\ (Gone(busy[s].from) \/ busy[s] \notin inbox[s])

(* Only the leader has a request in progress. *)
LeaderServes ==
    /\ \A s \in on : busy[s] # None => leader = s
    /\ \A n \in Nodes : pc[n] = "off" => n \notin on \cup voters /\ busy[n] = None
    /\ voters = {} => leader = None /\ change = None

(* A change adds or removes the node that waits for it, or removes nodes that
   do not run. *)
Owned ==
    change # None =>
        /\ \A n \in Nodes : InProgress(n) => Gone(n) \/ (pc[n] \in Asking /\ answer[n] # "ok")
        /\ \A n \in Nodes : n \in change.voters \ voters => InProgress(n)
        /\ \A n \in on : n \in voters \ change.voters => InProgress(n)

(* The change of a node that shuts down removes it. *)
Dropped == \A n \in Nodes : pc[n] = "RemoveVoters" /\ InProgress(n) => n \notin change.voters

(* The change has begun; it is lost only with the leader. *)
Dropping(n) == InProgress(n) \/ n \notin VoterIds

Leaving ==
    /\ \A n \in Nodes : pc[n] = "RemoveVoters" /\ answer[n] = "ok" => n \notin VoterIds
    /\ \A n \in on : pc[n] = "RemoveVoters" /\ target[n] = None => leader = n /\ Dropping(n)
    /\ \A s \in on, n \in Nodes :
          busy[s] # None /\ busy[s].from = n /\ pc[n] = "RemoveVoters" => Dropping(n)

Voting == \A n \in on : pc[n] = "running" => n \in voters

LInv == OneRequest /\ LeaderServes /\ Owned /\ Dropped /\ Leaving /\ Voting

(* The first state satisfies this invariant, too. *)
LEMMA InitLeaving == Init => LInv
BY LifecycleAssumption
   DEF Init, LInv, OneRequest, LeaderServes, Owned, Dropped, Leaving, Voting, InProgress

(* The steps of spawn and of its requests keep it. *)
LEMMA SpawnLeaving ==
    ASSUME TypeOK, OneRequest, LeaderServes, Owned, Dropped, Leaving, Voting
    PROVE  \A n \in Nodes :
             Spawning(n) \/ Initialize(n) \/ (\E s \in Nodes : Join(n, s)) => LInv'
<1> USE DEF clientVars, serverVars, memberVars
<1>1. ASSUME NEW n \in Nodes, Redirect(n) PROVE LInv'
    <2>1. OneRequest'
        BY <1>1, LifecycleAssumption DEF Redirect, Send, OneRequest, Awaited, Gone, TypeOK
    <2>2. LeaderServes'
        BY <1>1, LifecycleAssumption DEF Redirect, Send, LeaderServes
    <2>3. Owned'
        BY <1>1, LifecycleAssumption DEF Redirect, Send, Owned, InProgress, Gone
    <2>4. Dropped'
        BY <1>1, LifecycleAssumption DEF Redirect, Send, Dropped, InProgress
    <2>5. Leaving'
        BY <1>1, LifecycleAssumption DEF Redirect, Send, Leaving, Dropping, InProgress, VoterIds
    <2>6. Voting'
        BY <1>1, LifecycleAssumption DEF Redirect, Send, Voting
    <2> QED
        BY <2>1, <2>2, <2>3, <2>4, <2>5, <2>6 DEF LInv
<1>2. ASSUME NEW n \in Nodes, Rejected(n) PROVE LInv'
    <2>1. OneRequest'
        BY <1>2, LifecycleAssumption DEF Rejected, Failed, Goto, OneRequest, Awaited, Gone,
               TypeOK, Request, Asking
    <2>2. LeaderServes'
        BY <1>2, LifecycleAssumption DEF Rejected, Failed, Goto, LeaderServes, TypeOK
    <2>3. Owned'
        BY <1>2, LifecycleAssumption DEF Rejected, Failed, Goto, Owned, InProgress, Gone, TypeOK
    <2>4. Dropped'
        BY <1>2, LifecycleAssumption DEF Rejected, Failed, Goto, Dropped, InProgress, TypeOK
    <2>5. Leaving'
        BY <1>2, LifecycleAssumption DEF Rejected, Failed, Goto, Leaving, Dropping, InProgress,
               VoterIds, TypeOK
    <2>6. Voting'
        BY <1>2, LifecycleAssumption DEF Rejected, Failed, Goto, Voting, TypeOK
    <2> QED
        BY <2>1, <2>2, <2>3, <2>4, <2>5, <2>6 DEF LInv
<1>3. ASSUME NEW n \in Nodes, ConnectionLost(n) PROVE LInv'
    <2>1. OneRequest'
        BY <1>3, LifecycleAssumption DEF ConnectionLost, Failed, Goto, OneRequest, Awaited,
               Gone, TypeOK, Request, Asking
    <2>2. LeaderServes'
        BY <1>3, LifecycleAssumption DEF ConnectionLost, Failed, Goto, LeaderServes, TypeOK
    <2>3. Owned'
        BY <1>3, LifecycleAssumption DEF ConnectionLost, Failed, Goto, Owned, InProgress, Gone,
               TypeOK
    <2>4. Dropped'
        BY <1>3, LifecycleAssumption DEF ConnectionLost, Failed, Goto, Dropped, InProgress,
               TypeOK
    <2>5. Leaving'
        BY <1>3, LifecycleAssumption DEF ConnectionLost, Failed, Goto, Leaving, Dropping,
               InProgress, VoterIds, TypeOK
    <2>6. Voting'
        BY <1>3, LifecycleAssumption DEF ConnectionLost, Failed, Goto, Voting, TypeOK
    <2> QED
        BY <2>1, <2>2, <2>3, <2>4, <2>5, <2>6 DEF LInv
<1>4. ASSUME NEW n \in Nodes, JoinedAsLearner(n) PROVE LInv'
    <2>1. OneRequest'
        BY <1>4, LifecycleAssumption DEF JoinedAsLearner, Goto, Send, OneRequest, Awaited, Gone,
               TypeOK
    <2>2. LeaderServes'
        BY <1>4, LifecycleAssumption DEF JoinedAsLearner, Goto, Send, LeaderServes
    <2>3. Owned'
        BY <1>4, LifecycleAssumption DEF JoinedAsLearner, Goto, Send, Owned, InProgress, Gone
    <2>4. Dropped'
        BY <1>4, LifecycleAssumption DEF JoinedAsLearner, Goto, Send, Dropped, InProgress
    <2>5. Leaving'
        BY <1>4, LifecycleAssumption DEF JoinedAsLearner, Goto, Send, Leaving, Dropping,
               InProgress, VoterIds
    <2>6. Voting'
        BY <1>4, LifecycleAssumption DEF JoinedAsLearner, Goto, Send, Voting
    <2> QED
        BY <2>1, <2>2, <2>3, <2>4, <2>5, <2>6 DEF LInv
<1>5. ASSUME NEW n \in Nodes, Upgraded(n) PROVE LInv'
    <2>1. OneRequest'
        BY <1>5, LifecycleAssumption DEF Upgraded, Goto, OneRequest, Awaited, Gone
    <2>2. LeaderServes'
        BY <1>5, LifecycleAssumption DEF Upgraded, Goto, LeaderServes
    <2>3. Owned'
        BY <1>5, LifecycleAssumption DEF Upgraded, Goto, Owned, InProgress, Gone
    <2>4. Dropped'
        BY <1>5, LifecycleAssumption DEF Upgraded, Goto, Dropped, InProgress
    <2>5. Leaving'
        BY <1>5, LifecycleAssumption DEF Upgraded, Goto, Leaving, Dropping, InProgress, VoterIds
    <2>6. Voting'
        BY <1>5, LifecycleAssumption DEF Upgraded, Goto, Voting
    <2> QED
        BY <2>1, <2>2, <2>3, <2>4, <2>5, <2>6 DEF LInv
<1>6. ASSUME NEW n \in Nodes, BecomesFollower(n) PROVE LInv'
    <2>1. OneRequest'
        BY <1>6, LifecycleAssumption DEF BecomesFollower, Goto, OneRequest, Awaited, Gone,
               TypeOK, Request, Asking
    <2>2. LeaderServes'
        BY <1>6, LifecycleAssumption DEF BecomesFollower, Goto, LeaderServes
    <2>3. Owned'
        BY <1>6, LifecycleAssumption DEF BecomesFollower, Goto, Owned, InProgress, Gone, TypeOK,
               Request, Asking
    <2>4. Dropped'
        BY <1>6, LifecycleAssumption DEF BecomesFollower, Goto, Dropped, InProgress
    <2>5. Leaving'
        BY <1>6, LifecycleAssumption DEF BecomesFollower, Goto, Leaving, Dropping, InProgress,
               VoterIds
    <2>6. Voting'
        BY <1>6, LifecycleAssumption DEF BecomesFollower, Goto, Voting, TypeOK, LeaderServes,
               VoterIds, Owned, InProgress, Gone, Asking
    <2> QED
        BY <2>1, <2>2, <2>3, <2>4, <2>5, <2>6 DEF LInv
<1>7. ASSUME NEW n \in Nodes, WaitTimesOut(n) PROVE LInv'
    <2>1. OneRequest'
        BY <1>7, LifecycleAssumption DEF WaitTimesOut, Goto, OneRequest, Awaited, Gone
    <2>2. LeaderServes'
        BY <1>7, LifecycleAssumption DEF WaitTimesOut, Goto, LeaderServes
    <2>3. Owned'
        BY <1>7, LifecycleAssumption DEF WaitTimesOut, Goto, Owned, InProgress, Gone
    <2>4. Dropped'
        BY <1>7, LifecycleAssumption DEF WaitTimesOut, Goto, Dropped, InProgress
    <2>5. Leaving'
        BY <1>7, LifecycleAssumption DEF WaitTimesOut, Goto, Leaving, Dropping, InProgress,
               VoterIds
    <2>6. Voting'
        BY <1>7, LifecycleAssumption DEF WaitTimesOut, Goto, Voting
    <2> QED
        BY <2>1, <2>2, <2>3, <2>4, <2>5, <2>6 DEF LInv
<1>8. ASSUME NEW n \in Nodes, Initialize(n) PROVE LInv'
    <2>1. OneRequest'
        BY <1>8, LifecycleAssumption DEF Initialize, Goto, Members, OneRequest, Awaited, Gone,
               TypeOK, LeaderServes, VoterIds, Owned, InProgress, Asking, Request
    <2>2. LeaderServes'
        BY <1>8, LifecycleAssumption DEF Initialize, Goto, Members, LeaderServes, TypeOK,
               VoterIds
    <2>3. Owned'
        BY <1>8, LifecycleAssumption DEF Initialize, Goto, Members, Owned, InProgress, Gone,
               TypeOK, LeaderServes, VoterIds
    <2>4. Dropped'
        BY <1>8, LifecycleAssumption DEF Initialize, Goto, Members, Dropped, InProgress
    <2>5. Leaving'
        BY <1>8, LifecycleAssumption DEF Initialize, Goto, Members, Leaving, Dropping,
               InProgress, VoterIds, TypeOK, LeaderServes
    <2>6. Voting'
        BY <1>8, LifecycleAssumption DEF Initialize, Goto, Members, Voting, TypeOK,
               LeaderServes, VoterIds
    <2> QED
        BY <2>1, <2>2, <2>3, <2>4, <2>5, <2>6 DEF LInv
<1>9. ASSUME NEW n \in Nodes, NEW s \in Nodes, Join(n, s) PROVE LInv'
    <2>1. OneRequest'
        BY <1>9, LifecycleAssumption DEF Join, Goto, Send, OneRequest, Awaited, Gone, TypeOK,
               Request, Asking
    <2>2. LeaderServes'
        BY <1>9, LifecycleAssumption DEF Join, Goto, Send, LeaderServes, TypeOK
    <2>3. Owned'
        BY <1>9, LifecycleAssumption DEF Join, Goto, Send, Owned, InProgress, Gone, TypeOK,
               LeaderServes, VoterIds, Asking
    <2>4. Dropped'
        BY <1>9, LifecycleAssumption DEF Join, Goto, Send, Dropped, InProgress
    <2>5. Leaving'
        BY <1>9, LifecycleAssumption DEF Join, Goto, Send, Leaving, Dropping, InProgress,
               VoterIds, TypeOK, LeaderServes
    <2>6. Voting'
        BY <1>9, LifecycleAssumption DEF Join, Goto, Send, Voting
    <2> QED
        BY <2>1, <2>2, <2>3, <2>4, <2>5, <2>6 DEF LInv
<1> QED
    BY <1>1, <1>2, <1>3, <1>4, <1>5, <1>6, <1>7, <1>8, <1>9 DEF Spawning

(* So do the steps of main_loop. *)
LEMMA MainLoopLeaving ==
    ASSUME TypeOK, OneRequest, LeaderServes, Owned, Dropped, Leaving, Voting
    PROVE  \A s \in Nodes : MainLoop(s) => LInv'
<1> USE DEF clientVars, serverVars, memberVars
<1>1. ASSUME NEW s \in Nodes, Served(s) PROVE LInv'
    <2>1. OneRequest'
        BY <1>1, LifecycleAssumption DEF Served, ReplyTo, Reply, OneRequest, Awaited, Gone,
               TypeOK, LeaderServes, VoterIds, Request, Asking
    <2>2. LeaderServes'
        BY <1>1, LifecycleAssumption DEF Served, ReplyTo, Reply, LeaderServes
    <2>3. Owned'
        BY <1>1, LifecycleAssumption DEF Served, ReplyTo, Reply, Owned, InProgress, Gone, TypeOK
    <2>4. Dropped'
        BY <1>1, LifecycleAssumption DEF Served, ReplyTo, Reply, Dropped, InProgress
    <2>5. Leaving'
        BY <1>1, LifecycleAssumption DEF Served, ReplyTo, Reply, Leaving, Dropping, InProgress,
               VoterIds, TypeOK
    <2>6. Voting'
        BY <1>1, LifecycleAssumption DEF Served, ReplyTo, Reply, Voting
    <2> QED
        BY <2>1, <2>2, <2>3, <2>4, <2>5, <2>6 DEF LInv
<1>2. ASSUME NEW s \in Nodes, NEW r \in inbox[s], Handle(s, r),
             NodeExists(r) \/ leader # s \/ Refused(r)
      PROVE  LInv'
    <2>1. OneRequest'
        BY <1>2, LifecycleAssumption DEF Handle, ReplyTo, Reply, OneRequest, Awaited, Gone,
               TypeOK, Request, Asking
    <2>2. LeaderServes'
        BY <1>2, LifecycleAssumption DEF Handle, ReplyTo, Reply, LeaderServes
    <2>3. Owned'
        BY <1>2, LifecycleAssumption DEF Handle, ReplyTo, Reply, Owned, InProgress, Gone, TypeOK
    <2>4. Dropped'
        BY <1>2, LifecycleAssumption DEF Handle, ReplyTo, Reply, Dropped, InProgress
    <2>5. Leaving'
        BY <1>2, LifecycleAssumption DEF Handle, ReplyTo, Reply, Leaving, Dropping, InProgress,
               VoterIds, TypeOK
    <2>6. Voting'
        BY <1>2, LifecycleAssumption DEF Handle, ReplyTo, Reply, Voting
    <2> QED
        BY <2>1, <2>2, <2>3, <2>4, <2>5, <2>6 DEF LInv
<1>3. ASSUME NEW s \in Nodes, NEW r \in inbox[s], Handle(s, r),
             ~(NodeExists(r) \/ leader # s \/ Refused(r))
      PROVE  LInv'
    <2>1. OneRequest'
        BY <1>3, LifecycleAssumption, NoChangeAssumption DEF Handle, Changed, Refused,
               OneRequest, Awaited, Gone, TypeOK, Request, Asking
    <2>2. LeaderServes'
        BY <1>3, LifecycleAssumption, NoChangeAssumption DEF Handle, Changed, Refused,
               LeaderServes, TypeOK
    <2>3. Owned'
        BY <1>3, LifecycleAssumption, NoChangeAssumption DEF Handle, Changed, Refused, Owned,
               InProgress, Gone, TypeOK, Request, Asking, OneRequest, Awaited
    <2>4. Dropped'
        BY <1>3, LifecycleAssumption, NoChangeAssumption DEF Handle, Changed, Refused, Dropped,
               InProgress, TypeOK, Request, Asking, OneRequest, Awaited, Gone
    <2>5. Leaving'
        BY <1>3, LifecycleAssumption, NoChangeAssumption DEF Handle, Changed, Refused, Leaving,
               Dropping, InProgress, VoterIds, TypeOK, LeaderServes, Owned, Gone, Asking,
               Request, OneRequest, Awaited, Dropped, Voting, Change
    <2>6. Voting'
        BY <1>3, LifecycleAssumption, NoChangeAssumption DEF Handle, Changed, Refused, Voting
    <2> QED
        BY <2>1, <2>2, <2>3, <2>4, <2>5, <2>6 DEF LInv
<1> QED
    BY <1>1, <1>2, <1>3 DEF MainLoop

(* So do the steps of shutdown and the end of a process. *)
LEMMA ShutdownLeaving ==
    ASSUME TypeOK, OneRequest, LeaderServes, Owned, Dropped, Leaving, Voting
    PROVE  \A n \in Nodes :
             Shutdown(n) \/ Left(n) \/ Stop(n) \/ QuorumLost(n) \/ Crash(n) => LInv'
<1> USE DEF clientVars, serverVars, memberVars
<1>1. ASSUME NEW n \in Nodes, ShutdownLeader(n), change # None \/ voters = {n}
      PROVE  LInv'
    <2>1. OneRequest'
        BY <1>1, LifecycleAssumption DEF ShutdownLeader, Goto, OneRequest, Awaited, Gone,
               TypeOK, Request, Asking
    <2>2. LeaderServes'
        BY <1>1, LifecycleAssumption DEF ShutdownLeader, Goto, LeaderServes, TypeOK
    <2>3. Owned'
        BY <1>1, LifecycleAssumption DEF ShutdownLeader, Goto, Owned, InProgress, Gone, TypeOK
    <2>4. Dropped'
        BY <1>1, LifecycleAssumption DEF ShutdownLeader, Goto, Dropped, InProgress, TypeOK
    <2>5. Leaving'
        BY <1>1, LifecycleAssumption DEF ShutdownLeader, Goto, Leaving, Dropping, InProgress,
               VoterIds, TypeOK
    <2>6. Voting'
        BY <1>1, LifecycleAssumption DEF ShutdownLeader, Goto, Voting, TypeOK
    <2> QED
        BY <2>1, <2>2, <2>3, <2>4, <2>5, <2>6 DEF LInv
<1>2. ASSUME NEW n \in Nodes, ShutdownLeader(n), ~(change # None \/ voters = {n})
      PROVE  LInv'
    <2>1. OneRequest'
        BY <1>2, LifecycleAssumption, NoChangeAssumption DEF ShutdownLeader, Goto, Reply,
               OneRequest, Awaited, Gone, TypeOK, Request, Asking
    <2>2. LeaderServes'
        BY <1>2, LifecycleAssumption, NoChangeAssumption DEF ShutdownLeader, Goto, Reply,
               LeaderServes, TypeOK
    <2>3. Owned'
        BY <1>2, LifecycleAssumption, NoChangeAssumption DEF ShutdownLeader, Goto, Reply, Owned,
               InProgress, Gone, TypeOK, Request, Asking
    <2>4. Dropped'
        BY <1>2, LifecycleAssumption, NoChangeAssumption DEF ShutdownLeader, Goto, Reply,
               Dropped, InProgress
    <2>5. Leaving'
        BY <1>2, LifecycleAssumption, NoChangeAssumption DEF ShutdownLeader, Goto, Reply,
               Leaving, Dropping, InProgress, VoterIds, TypeOK, LeaderServes, Owned, Gone,
               Asking, Request, OneRequest, Awaited, Dropped, Voting, Change
    <2>6. Voting'
        BY <1>2, LifecycleAssumption, NoChangeAssumption DEF ShutdownLeader, Goto, Reply,
               Voting, TypeOK
    <2> QED
        BY <2>1, <2>2, <2>3, <2>4, <2>5, <2>6 DEF LInv
<1>3. ASSUME NEW n \in Nodes, ShutdownFollower(n) PROVE LInv'
    <2>1. OneRequest'
        BY <1>3, LifecycleAssumption DEF ShutdownFollower, Goto, Send, OneRequest, Awaited,
               Gone, TypeOK, Owned, InProgress, Asking, Request
    <2>2. LeaderServes'
        BY <1>3, LifecycleAssumption DEF ShutdownFollower, Goto, Send, LeaderServes
    <2>3. Owned'
        BY <1>3, LifecycleAssumption DEF ShutdownFollower, Goto, Send, Owned, InProgress, Gone,
               TypeOK, Request, Asking
    <2>4. Dropped'
        BY <1>3, LifecycleAssumption DEF ShutdownFollower, Goto, Send, Dropped, InProgress,
               TypeOK, Owned, Gone, Asking
    <2>5. Leaving'
        BY <1>3, LifecycleAssumption DEF ShutdownFollower, Goto, Send, Leaving, Dropping,
               InProgress, VoterIds, TypeOK, LeaderServes, Request, Asking, OneRequest, Awaited,
               Gone
    <2>6. Voting'
        BY <1>3, LifecycleAssumption DEF ShutdownFollower, Goto, Send, Voting
    <2> QED
        BY <2>1, <2>2, <2>3, <2>4, <2>5, <2>6 DEF LInv
<1>4. ASSUME NEW n \in Nodes, ShutdownAlone(n) PROVE LInv'
    <2>1. OneRequest'
        BY <1>4, LifecycleAssumption DEF ShutdownAlone, Goto, OneRequest, Awaited, Gone, TypeOK,
               Request, Asking
    <2>2. LeaderServes'
        BY <1>4, LifecycleAssumption DEF ShutdownAlone, Goto, LeaderServes
    <2>3. Owned'
        BY <1>4, LifecycleAssumption DEF ShutdownAlone, Goto, Owned, InProgress, Gone, TypeOK,
               Request, Asking
    <2>4. Dropped'
        BY <1>4, LifecycleAssumption DEF ShutdownAlone, Goto, Dropped, InProgress
    <2>5. Leaving'
        BY <1>4, LifecycleAssumption DEF ShutdownAlone, Goto, Leaving, Dropping, InProgress,
               VoterIds
    <2>6. Voting'
        BY <1>4, LifecycleAssumption DEF ShutdownAlone, Goto, Voting
    <2> QED
        BY <2>1, <2>2, <2>3, <2>4, <2>5, <2>6 DEF LInv
<1>5. ASSUME NEW n \in Nodes, ShutdownStopped(n) PROVE LInv'
    <2>1. OneRequest'
        BY <1>5, LifecycleAssumption DEF ShutdownStopped, Goto, OneRequest, Awaited, Gone
    <2>2. LeaderServes'
        BY <1>5, LifecycleAssumption DEF ShutdownStopped, Goto, LeaderServes
    <2>3. Owned'
        BY <1>5, LifecycleAssumption DEF ShutdownStopped, Goto, Owned, InProgress, Gone
    <2>4. Dropped'
        BY <1>5, LifecycleAssumption DEF ShutdownStopped, Goto, Dropped, InProgress
    <2>5. Leaving'
        BY <1>5, LifecycleAssumption DEF ShutdownStopped, Goto, Leaving, Dropping, InProgress,
               VoterIds
    <2>6. Voting'
        BY <1>5, LifecycleAssumption DEF ShutdownStopped, Goto, Voting
    <2> QED
        BY <2>1, <2>2, <2>3, <2>4, <2>5, <2>6 DEF LInv
<1>6. ASSUME NEW n \in Nodes, Left(n) PROVE LInv'
    <2>1. OneRequest'
        BY <1>6, LifecycleAssumption DEF Left, Goto, OneRequest, Awaited, Gone
    <2>2. LeaderServes'
        BY <1>6, LifecycleAssumption DEF Left, Goto, LeaderServes
    <2>3. Owned'
        BY <1>6, LifecycleAssumption DEF Left, Goto, Owned, InProgress, Gone
    <2>4. Dropped'
        BY <1>6, LifecycleAssumption DEF Left, Goto, Dropped, InProgress
    <2>5. Leaving'
        BY <1>6, LifecycleAssumption DEF Left, Goto, Leaving, Dropping, InProgress, VoterIds
    <2>6. Voting'
        BY <1>6, LifecycleAssumption DEF Left, Goto, Voting
    <2> QED
        BY <2>1, <2>2, <2>3, <2>4, <2>5, <2>6 DEF LInv
<1>7. ASSUME NEW n \in Nodes, Stop(n) PROVE LInv'
    <2>1. OneRequest'
        BY <1>7, LifecycleAssumption DEF Stop, Ends, Goto, OneRequest, Awaited, Gone, TypeOK,
               Request, Asking
    <2>2. LeaderServes'
        BY <1>7, LifecycleAssumption DEF Stop, Ends, Goto, LeaderServes
    <2>3. Owned'
        BY <1>7, LifecycleAssumption DEF Stop, Ends, Goto, Owned, InProgress, Gone, TypeOK,
               Request, Asking
    <2>4. Dropped'
        BY <1>7, LifecycleAssumption DEF Stop, Ends, Goto, Dropped, InProgress
    <2>5. Leaving'
        BY <1>7, LifecycleAssumption DEF Stop, Ends, Goto, Leaving, Dropping, InProgress,
               VoterIds
    <2>6. Voting'
        BY <1>7, LifecycleAssumption DEF Stop, Ends, Goto, Voting
    <2> QED
        BY <2>1, <2>2, <2>3, <2>4, <2>5, <2>6 DEF LInv
<1>8. ASSUME NEW n \in Nodes, QuorumLost(n) PROVE LInv'
    <2>1. OneRequest'
        BY <1>8, LifecycleAssumption DEF QuorumLost, Ends, OneRequest, Awaited, Gone
    <2>2. LeaderServes'
        BY <1>8, LifecycleAssumption DEF QuorumLost, Ends, LeaderServes
    <2>3. Owned'
        BY <1>8, LifecycleAssumption DEF QuorumLost, Ends, Owned, InProgress, Gone
    <2>4. Dropped'
        BY <1>8, LifecycleAssumption DEF QuorumLost, Ends, Dropped, InProgress
    <2>5. Leaving'
        BY <1>8, LifecycleAssumption DEF QuorumLost, Ends, Leaving, Dropping, InProgress,
               VoterIds
    <2>6. Voting'
        BY <1>8, LifecycleAssumption DEF QuorumLost, Ends, Voting
    <2> QED
        BY <2>1, <2>2, <2>3, <2>4, <2>5, <2>6 DEF LInv
<1>9. ASSUME NEW n \in Nodes, Crash(n) PROVE LInv'
    <2>1. OneRequest'
        BY <1>9, LifecycleAssumption DEF Crash, Ends, Goto, OneRequest, Awaited, Gone
    <2>2. LeaderServes'
        BY <1>9, LifecycleAssumption DEF Crash, Ends, Goto, LeaderServes
    <2>3. Owned'
        BY <1>9, LifecycleAssumption DEF Crash, Ends, Goto, Owned, InProgress, Gone
    <2>4. Dropped'
        BY <1>9, LifecycleAssumption DEF Crash, Ends, Goto, Dropped, InProgress
    <2>5. Leaving'
        BY <1>9, LifecycleAssumption DEF Crash, Ends, Goto, Leaving, Dropping, InProgress,
               VoterIds
    <2>6. Voting'
        BY <1>9, LifecycleAssumption DEF Crash, Ends, Goto, Voting
    <2> QED
        BY <2>1, <2>2, <2>3, <2>4, <2>5, <2>6 DEF LInv
<1> QED
    BY <1>1, <1>2, <1>3, <1>4, <1>5, <1>6, <1>7, <1>8, <1>9 DEF Shutdown

(* So do those of openraft and of the failure detector. *)
LEMMA RaftLeaving ==
    ASSUME TypeOK, OneRequest, LeaderServes, Owned, Dropped, Leaving, Voting
    PROVE  Commit \/ (\E n \in Nodes : DetectFailure(n) \/ Elect(n) \/ Hear(n)) => LInv'
<1> USE DEF clientVars, serverVars, memberVars
<1>1. ASSUME Commit PROVE LInv'
    <2>0. change.voters # {}
        <3> SUFFICES ASSUME change.voters = {} PROVE FALSE
            OBVIOUS
        <3>1. on \cap change.voters = {}
            OBVIOUS
        <3>2. Cardinality(on \cap change.voters) = 0 /\ Cardinality(change.voters) = 0
            BY <3>1, NoMembers
        <3>3. Majority(on, change.voters)
            BY <1>1 DEF Commit, Quorum
        <3> QED
            BY <3>2, <3>3 DEF Majority
    <2>1. OneRequest'
        BY <1>1, <2>0, LifecycleAssumption DEF Commit, OneRequest, Awaited, Gone
    <2>2. LeaderServes'
        BY <1>1, <2>0, LifecycleAssumption DEF Commit, LeaderServes, TypeOK, Owned, InProgress,
               Gone, Asking
    <2>3. Owned'
        BY <1>1, <2>0, LifecycleAssumption DEF Commit, Owned, InProgress, Gone
    <2>4. Dropped'
        BY <1>1, <2>0, LifecycleAssumption DEF Commit, Dropped, InProgress
    <2>5. Leaving'
        BY <1>1, <2>0, LifecycleAssumption DEF Commit, Leaving, Dropping, InProgress, VoterIds,
               TypeOK, Owned, Gone, Asking, Request, OneRequest, Awaited, Dropped
    <2>6. Voting'
        BY <1>1, <2>0, LifecycleAssumption DEF Commit, Voting, TypeOK, Owned, InProgress, Gone,
               Asking
    <2> QED
        BY <2>1, <2>2, <2>3, <2>4, <2>5, <2>6 DEF LInv
<1>2. ASSUME NEW n \in Nodes, DetectFailure(n) PROVE LInv'
    <2>1. OneRequest'
        BY <1>2, LifecycleAssumption, NoChangeAssumption DEF DetectFailure, OneRequest, Awaited,
               Gone
    <2>2. LeaderServes'
        BY <1>2, LifecycleAssumption, NoChangeAssumption DEF DetectFailure, LeaderServes
    <2>3. Owned'
        BY <1>2, LifecycleAssumption, NoChangeAssumption DEF DetectFailure, Owned, InProgress,
               Gone
    <2>4. Dropped'
        BY <1>2, LifecycleAssumption, NoChangeAssumption DEF DetectFailure, Dropped, InProgress
    <2>5. Leaving'
        BY <1>2, LifecycleAssumption, NoChangeAssumption DEF DetectFailure, Leaving, Dropping,
               InProgress, VoterIds
    <2>6. Voting'
        BY <1>2 DEF DetectFailure, Voting
    <2> QED
        BY <2>1, <2>2, <2>3, <2>4, <2>5, <2>6 DEF LInv
<1>3. ASSUME NEW n \in Nodes, Elect(n) PROVE LInv'
    <2>1. OneRequest'
        BY <1>3, LifecycleAssumption DEF Elect, OneRequest, Awaited, Gone
    <2>2. LeaderServes'
        BY <1>3, LifecycleAssumption DEF Elect, LeaderServes, TypeOK, VoterIds
    <2>3. Owned'
        BY <1>3, LifecycleAssumption DEF Elect, Owned, InProgress, Gone
    <2>4. Dropped'
        BY <1>3, LifecycleAssumption DEF Elect, Dropped, InProgress
    <2>5. Leaving'
        BY <1>3, LifecycleAssumption DEF Elect, Leaving, Dropping, InProgress, VoterIds, TypeOK,
               LeaderServes
    <2>6. Voting'
        BY <1>3, LifecycleAssumption DEF Elect, Voting
    <2> QED
        BY <2>1, <2>2, <2>3, <2>4, <2>5, <2>6 DEF LInv
<1>4. ASSUME NEW n \in Nodes, Hear(n) PROVE LInv'
    <2>1. OneRequest'
        BY <1>4, LifecycleAssumption DEF Hear, OneRequest, Awaited, Gone
    <2>2. LeaderServes'
        BY <1>4, LifecycleAssumption DEF Hear, LeaderServes
    <2>3. Owned'
        BY <1>4, LifecycleAssumption DEF Hear, Owned, InProgress, Gone
    <2>4. Dropped'
        BY <1>4, LifecycleAssumption DEF Hear, Dropped, InProgress
    <2>5. Leaving'
        BY <1>4, LifecycleAssumption DEF Hear, Leaving, Dropping, InProgress, VoterIds
    <2>6. Voting'
        BY <1>4, LifecycleAssumption DEF Hear, Voting
    <2> QED
        BY <2>1, <2>2, <2>3, <2>4, <2>5, <2>6 DEF LInv
<1> QED
    BY <1>1, <1>2, <1>3, <1>4

(* Every step keeps it. *)
LEMMA NextLeaving == IInv /\ LInv /\ [Next]_vars => LInv'
<1> SUFFICES ASSUME TypeOK, LInv, [Next]_vars PROVE LInv'
    BY DEF IInv
<1>0. OneRequest /\ LeaderServes /\ Owned /\ Dropped /\ Leaving /\ Voting
    BY DEF LInv
<1>1. CASE Next
    BY <1>0, <1>1, SpawnLeaving, MainLoopLeaving, ShutdownLeaving, RaftLeaving DEF Next
<1>2. CASE UNCHANGED vars
    <2> USE DEF clientVars, serverVars, memberVars
    <2>1. OneRequest'
        BY <1>2, <1>0 DEF vars, OneRequest, Awaited, Gone
    <2>2. LeaderServes'
        BY <1>2, <1>0 DEF vars, LeaderServes
    <2>3. Owned'
        BY <1>2, <1>0 DEF vars, Owned, InProgress, Gone
    <2>4. Dropped'
        BY <1>2, <1>0 DEF vars, Dropped, InProgress
    <2>5. Leaving'
        BY <1>2, <1>0 DEF vars, Leaving, Dropping, InProgress, VoterIds
    <2>6. Voting'
        BY <1>2, <1>0 DEF vars, Voting
    <2> QED
        BY <2>1, <2>2, <2>3, <2>4, <2>5, <2>6 DEF LInv
<1> QED
    BY <1>1, <1>2

(* A node for which spawn has returned is a voter until it leaves, for any
   number of nodes that come and go. *)
THEOREM RunningNodesVote == Spec => []RunningVote
<1>1. LInv => RunningVote
    BY DEF LInv, Voting, RunningVote, VoterIds
<1> QED
    BY <1>1, InitInv, NextInv, InitLeaving, NextLeaving, PTL DEF Spec

(* A node that has asked to be removed does not stop before it has been. *)
THEOREM LeaversAreRemoved == Spec => LeaversRemoved
<1>1. ASSUME IInv, LInv, [Next]_vars, NEW n \in Nodes, pc[n] = "RemoveVoters", pc'[n] = "stop"
      PROVE  n \notin VoterIds
    <2>0. DOMAIN pc = Nodes
        BY <1>1 DEF IInv, TypeOK
    <2>1. ASSUME NEW m \in Nodes, Redirect(m) \/ MainLoop(m) \/ QuorumLost(m) \/ DetectFailure(m)
                                  \/ Elect(m) \/ Hear(m)
          PROVE  FALSE
        <3>1. MainLoop(m) => pc' = pc
            BY DEF MainLoop, Served, Handle
        <3>2. Redirect(m) \/ QuorumLost(m) => pc' = pc
            BY DEF Redirect, QuorumLost
        <3>3. DetectFailure(m) \/ Elect(m) \/ Hear(m) => pc' = pc
            BY DEF DetectFailure, Elect, Hear
        <3> QED
            BY <1>1, <2>1, <3>1, <3>2, <3>3
    <2>2. ASSUME NEW m \in Nodes, JoinedAsLearner(m) \/ Upgraded(m) \/ BecomesFollower(m)
                                  \/ WaitTimesOut(m) \/ Rejected(m) \/ ConnectionLost(m)
          PROVE  FALSE
        BY <1>1, <2>0, <2>2 DEF JoinedAsLearner, Upgraded, BecomesFollower, WaitTimesOut, Rejected,
                                ConnectionLost, Failed, Goto
    <2>3. ASSUME NEW m \in Nodes, Initialize(m) \/ (\E s \in Nodes : Join(m, s))
                                  \/ Stop(m) \/ Crash(m)
          PROVE  FALSE
        <3>1. /\ pc[m] # "RemoveVoters" \/ pc'[m] # "stop"
              /\ \E x : Goto(m, x)
            BY <2>0, <2>3 DEF Initialize, Join, Stop, Crash, Goto
        <3> QED
            BY <1>1, <2>0, <3>1 DEF Goto
    <2>4. ASSUME NEW m \in Nodes, Shutdown(m) PROVE FALSE
        <3>1. pc[m] = "running" /\ \E x : Goto(m, x)
            BY <2>4 DEF Shutdown, ShutdownAlone, ShutdownLeader, ShutdownFollower, ShutdownStopped
        <3> QED
            BY <1>1, <2>0, <3>1 DEF Goto
    <2>5. ASSUME NEW m \in Nodes, Left(m) PROVE n \notin VoterIds
        <3>1. m = n
            BY <1>1, <2>0, <2>5 DEF Left, Goto
        <3> QED
            BY <1>1, <2>5, <3>1 DEF Left, LInv, Leaving, Dropping
    <2>6. ~(Commit \/ UNCHANGED vars)
        BY <1>1 DEF Commit, vars
    <2> QED
        BY <1>1, <2>1, <2>2, <2>3, <2>4, <2>5, <2>6 DEF Next, Spawning
<1>2. IInv /\ LInv /\ [Next]_vars =>
        [\A n \in Nodes : pc[n] = "RemoveVoters" /\ pc'[n] = "stop" => n \notin VoterIds]_vars
    BY <1>1
<1> QED
    BY <1>2, InitInv, NextInv, InitLeaving, NextLeaving, PTL DEF Spec, LeaversRemoved
=============================================================================
