-------------------------- MODULE ReplicatedStore --------------------------
(***************************************************************************)
(* The data path of distruct: a DMap or DMultiMap method at one node, the  *)
(* Client that sends its request to the leader and follows redirects, the  *)
(* server queue and the one-message-at-a-time main_loop of every node, and *)
(* the state machine each node applies the Raft log to.                    *)
(*                                                                         *)
(* openraft is external.  It is modelled by what src/ uses of it: a leader *)
(* elected by a quorum, each node's opinion of who leads (its metrics), a  *)
(* log of committed entries, and the prefix of it every node has received  *)
(* and applied.  AppendEntries and Vote requests reach a node through the  *)
(* same main_loop as everything else, so a node takes part in a quorum     *)
(* only while its main_loop is idle; the node that asks needs no quorum    *)
(* message to itself.                                                      *)
(*                                                                         *)
(* The nodes of the cluster are fixed.  A node may be replaced: its        *)
(* process ends and a new one with a new id listens on the same address.   *)
(***************************************************************************)
EXTENDS Collections, Sequences

CONSTANTS
    Nodes,        \* voters; a node stands for its id and for its address
    Quorums,      \* sets of nodes that decide
    Clients,      \* tasks that call the collections
    Home,         \* the node whose Cluster handle a client uses
    Requests,     \* the requests clients make
    NewId,        \* id of a process that replaced a node
    MaxCalls,     \* bound on the number of calls
    MaxTerm,      \* bound on the number of elections and failed attempts
    MaxReplaced   \* bound on the number of replaced nodes

ASSUME StoreAssumption ==
    /\ Quorums \subseteq SUBSET Nodes
    /\ \A P, Q \in Quorums : P \cap Q # {}
    /\ IsFiniteSet(Nodes)
    /\ Home \in [Clients -> Nodes]
    /\ Requests \subseteq RequestBody
    /\ NewId \notin Nodes /\ None \notin Nodes
    /\ {MaxCalls, MaxTerm, MaxReplaced} \subseteq Nat

VARIABLES
    leader,    \* the node a quorum elected last
    term,      \* number of elections and failed attempts so far
    view,      \* view[n]: current_leader in the metrics of node n
    log,       \* committed entries
    received,  \* received[n]: length of the prefix of log stored at n
    proposed,  \* proposed[n]: uncommitted entries stored at n
    applied,   \* applied[n]: length of the prefix of log applied at n
    sm,        \* sm[n]: data in the state machine of n
    pid,       \* pid[n]: id of the process listening on the address of n
    inbox,     \* inbox[n]: requests in the channel between server and main_loop
    main,      \* main[n]: what main_loop of n is awaiting
    call,      \* call[c]: current or last call of client c
    issued,    \* history: the requests of all calls, in order
    versions   \* history: versions[i] is the data before the i-th log entry

raftVars == <<leader, term, view, log, received, proposed, versions>>
nodeVars == <<applied, sm, pid, inbox, main>>
vars == <<raftVars, nodeVars, call, issued>>

-----------------------------------------------------------------------------
(* Messages, replies and calls *)

Entry == [id : Nat, req : LogRequests]

Message == [client : Clients, id : Nat, req : Requests, target : Nodes]

Reply ==
    [tag : {"Err"}, variant : {"None"}, body : {None}]
        \cup [tag : {"ForwardToLeader"}, variant : {"None"}, body : Nodes \cup {None}]
        \cup [tag : {"Ok"}, variant : {"ClientWrite"}, body : Option \cup BOOLEAN]
        \cup [tag : {"Ok"}, variant : {"Get", "Remove"}, body : Option]
        \cup [tag : {"Ok"}, variant : {"GetMulti"}, body : SUBSET Values]
        \cup [tag : {"Ok"}, variant : {"ContainsKey", "RemoveMulti"}, body : BOOLEAN]
        \cup [tag : {"Ok"}, variant : {"Len"}, body : Nat]

Ok(r, v) == [tag |-> "Ok", variant |-> ResponseVariant(r), body |-> v]
Error == [tag |-> "Err", variant |-> "None", body |-> None]
ForwardToLeader(l) == [tag |-> "ForwardToLeader", variant |-> "None", body |-> l]

Idle == [pc |-> "idle"]
Busy(pc, m) == [pc |-> pc, msg |-> m, readIndex |-> 0]

Awaiting == [pc : {"writing", "ensuring", "reading"}, msg : Message, readIndex : Nat]

NoCall == [pc |-> "idle", id |-> 0, start |-> 0, readIndex |-> 0, result |-> Error]

CallRecord ==
    [pc : {"idle", "route", "ensure", "local", "connect", "waiting", "replied", "done"},
     id : Nat, start : Nat, readIndex : Nat, result : Reply]

Req(c) == issued[call[c].id]
Active(c) == call[c].pc \notin {"idle", "done"}

Alive(n) == pid[n] = n
Free(n) == Alive(n) /\ main[n] = Idle

(* A quorum around node l whose other members can answer it now. *)
Reachable(l, Q) == l \in Q /\ Alive(l) /\ \A q \in Q \ {l} : Free(q)

(* ensure_linearizable at node n can be confirmed: n leads and a quorum says so. *)
LeadershipConfirmed(n) == leader = n /\ \E Q \in Quorums : Reachable(n, Q)

(* Mutant: ReadIndex is served like LeaderStale. *)
ConfirmLeaseRead(consistency) == consistency = "LeaseRead"

(* Consistencies for which ensure_consistency asks Raft for confirmation. *)
NeedsConfirmation(consistency) == consistency \in {"LeaseRead", "ReadIndex"}

-----------------------------------------------------------------------------
Init ==
    /\ leader \in Nodes
    /\ term = 0
    /\ view = [n \in Nodes |-> leader]
    /\ log = <<>>
    /\ received = [n \in Nodes |-> 0]
    /\ proposed = [n \in Nodes |-> {}]
    /\ applied = [n \in Nodes |-> 0]
    /\ sm = [n \in Nodes |-> EmptyData]
    /\ pid = [n \in Nodes |-> n]
    /\ inbox = [n \in Nodes |-> <<>>]
    /\ main = [n \in Nodes |-> Idle]
    /\ call = [c \in Clients |-> NoCall]
    /\ issued = <<>>
    /\ versions = <<EmptyData>>

-----------------------------------------------------------------------------
(* Client side: DMap, DMultiMap, should_read_stale, Client::request *)

(* get_leader and is_leader ask the metrics of the local node. *)
GetLeader(h) == view[h]
IsLeader(h) == view[h] = h

(* Mutant: everything but a stale read asks for the leader first. *)
RouteAll(r) == IF r \in ReadRequests /\ r.consistency = "Stale" THEN "local" ELSE "route"

(* A method of DMap or DMultiMap is called. *)
FirstStep(r) ==
    IF r \notin ReadRequests THEN "connect"
    ELSE IF r.consistency = "Stale" THEN "local" ELSE "route"

Call(c, r) ==
    /\ ~Active(c) /\ Alive(Home[c])
    /\ Len(issued) < MaxCalls
    /\ issued' = Append(issued, r)
    /\ call' = [call EXCEPT ![c] = [pc |-> FirstStep(r), id |-> Len(issued) + 1,
                                    start |-> Len(log), readIndex |-> 0, result |-> Error]]
    /\ UNCHANGED <<raftVars, nodeVars>>

Finish(c, result) ==
    call' = [call EXCEPT ![c].pc = "done", ![c].result = result]

Goto(c, pc) == call' = [call EXCEPT ![c].pc = pc]

(* should_read_stale asks the local node whether it leads. *)
CheckIsLeader(c) ==
    /\ call[c].pc = "route"
    /\ IF ~IsLeader(Home[c]) THEN Goto(c, "connect")
       ELSE IF NeedsConfirmation(Req(c).consistency) THEN Goto(c, "ensure")
       ELSE Goto(c, "local")
    /\ UNCHANGED <<raftVars, nodeVars, issued>>

(* Mutant: waits until leadership is confirmed or lost. *)
EnsureOrWait(c) ==
    /\ call[c].pc = "ensure"
    /\ \/ /\ LeadershipConfirmed(Home[c])
          /\ call' = [call EXCEPT ![c].pc = "local", ![c].readIndex = received[Home[c]]]
       \/ view[Home[c]] # Home[c] /\ Goto(c, "connect")
    /\ UNCHANGED <<raftVars, nodeVars, issued>>

(* should_read_stale awaits ensure_linearizable at the local node. *)
EnsureLocally(c) ==
    /\ call[c].pc = "ensure"
    /\ \/ /\ LeadershipConfirmed(Home[c])
          /\ call' = [call EXCEPT ![c].pc = "local", ![c].readIndex = received[Home[c]]]
       \/ view[Home[c]] # Home[c] /\ Goto(c, "connect")
       \/ view[Home[c]] = Home[c] /\ Finish(c, Error)
    /\ UNCHANGED <<raftVars, nodeVars, issued>>

ReadLocally(c) ==
    /\ call[c].pc = "local"
    /\ applied[Home[c]] >= call[c].readIndex
    /\ Finish(c, Ok(Req(c), ReadResponse(sm[Home[c]], Req(c))))
    /\ UNCHANGED <<raftVars, nodeVars, issued>>

(* The request of client c is written to a stream to node n. *)
SendTo(c, n) ==
    inbox' = [inbox EXCEPT ![n] =
        Append(@, [client |-> c, id |-> call[c].id, req |-> Req(c), target |-> n])]

(* client_to_leader, then the first round of Client::request. *)
SendToLeader(c) ==
    /\ call[c].pc = "connect"
    /\ \/ /\ GetLeader(Home[c]) = None
          /\ Finish(c, Error)
          /\ UNCHANGED inbox
       \/ /\ GetLeader(Home[c]) # None
          /\ SendTo(c, GetLeader(Home[c]))
          /\ Goto(c, "waiting")
    /\ UNCHANGED <<raftVars, applied, sm, pid, main, issued>>

(* Client::request reads a response: done, redirected, or failed. *)
ReceiveReply(c) ==
    LET reply == call[c].result
        redirect == reply.tag = "ForwardToLeader" /\ reply.body # None
    IN
    /\ call[c].pc = "replied"
    /\ \/ /\ redirect
          /\ SendTo(c, reply.body)
          /\ Goto(c, "waiting")
       \/ /\ ~redirect
          /\ Finish(c, IF reply.tag = "Ok" /\ reply.variant = ExpectedVariant(Req(c))
                       THEN reply ELSE Error)
          /\ UNCHANGED inbox
    /\ UNCHANGED <<raftVars, applied, sm, pid, main, issued>>

(* Mutant: the request is sent again. *)
ConnectionRetried(c) ==
    /\ call[c].pc = "waiting"
    /\ Goto(c, "connect")
    /\ UNCHANGED <<raftVars, nodeVars, issued>>

(* Connecting, writing or reading fails; the request may have been delivered. *)
ConnectionLost(c) ==
    /\ call[c].pc = "waiting"
    /\ Finish(c, Error)
    /\ UNCHANGED <<raftVars, nodeVars, issued>>

-----------------------------------------------------------------------------
(* Server side: main_loop and handle_message *)

(* reply.send: nobody listens any more when the caller's stream has failed. *)
Deliver(m, reply) ==
    call' = IF call[m.client].pc = "waiting" /\ call[m.client].id = m.id
            THEN [call EXCEPT ![m.client].pc = "replied", ![m.client].result = reply]
            ELSE call

(* main_loop of the process at address n takes message m off its queue. *)
Takes(n, m) ==
    /\ main[n] = Idle
    /\ inbox[n] # <<>>
    /\ m = Head(inbox[n])
    /\ inbox' = [inbox EXCEPT ![n] = Tail(@)]

ServeOtherNode(n) ==
    LET m == Head(inbox[n]) IN
    /\ Takes(n, m)
    /\ m.target # pid[n]
    /\ Deliver(m, Error)
    /\ UNCHANGED <<raftVars, applied, sm, pid, main, issued>>

(* Mutant: the leader changes its data before the entry is committed. *)
ServeWriteEarly(n) ==
    LET m == Head(inbox[n]) IN
    /\ Takes(n, m)
    /\ m.target = pid[n] /\ m.req \in LogRequests /\ view[n] = n
    /\ proposed' = [proposed EXCEPT ![n] = @ \cup {[id |-> m.id, req |-> m.req]}]
    /\ main' = [main EXCEPT ![n] = Busy("writing", m)]
    /\ sm' = [sm EXCEPT ![n] = ApplyRequest(@, m.req)]
    /\ UNCHANGED <<leader, term, view, log, received, versions, applied, pid, call, issued>>

(* Insert, InsertMulti and Clear: client_write proposes, or names the leader. *)
ServeWrite(n) ==
    LET m == Head(inbox[n]) IN
    /\ Takes(n, m)
    /\ m.target = pid[n] /\ m.req \in LogRequests
    /\ \/ /\ view[n] = n
          /\ proposed' = [proposed EXCEPT ![n] = @ \cup {[id |-> m.id, req |-> m.req]}]
          /\ main' = [main EXCEPT ![n] = Busy("writing", m)]
          /\ UNCHANGED call
       \/ /\ view[n] # n
          /\ Deliver(m, ForwardToLeader(view[n]))
          /\ UNCHANGED <<proposed, main>>
    /\ UNCHANGED <<leader, term, view, log, received, versions, applied, sm, pid, issued>>

(* ContainsKey, Get, GetMulti and Len: ensure_consistency, then the read. *)
ServeRead(n) ==
    LET m == Head(inbox[n]) IN
    /\ Takes(n, m)
    /\ m.target = pid[n] /\ m.req \in ReadRequests
    /\ \/ /\ NeedsConfirmation(m.req.consistency) /\ view[n] = n
          /\ main' = [main EXCEPT ![n] = Busy("ensuring", m)]
          /\ UNCHANGED call
       \/ /\ NeedsConfirmation(m.req.consistency) /\ view[n] # n
          /\ Deliver(m, Error)
          /\ UNCHANGED main
       \/ /\ ~NeedsConfirmation(m.req.consistency)
          /\ Deliver(m, Ok(m.req, ReadResponse(sm[n], m.req)))
          /\ UNCHANGED main
    /\ UNCHANGED <<raftVars, applied, sm, pid, issued>>

(* ensure_linearizable returns in ensure_consistency. *)
FinishEnsure(n) ==
    /\ main[n].pc = "ensuring"
    /\ \/ /\ LeadershipConfirmed(n)
          /\ main' = [main EXCEPT ![n].pc = "reading", ![n].readIndex = received[n]]
          /\ UNCHANGED call
       \/ /\ main' = [main EXCEPT ![n] = Idle]
          /\ Deliver(main[n].msg, Error)
    /\ UNCHANGED <<raftVars, applied, sm, pid, inbox, issued>>

FinishRead(n) ==
    /\ main[n].pc = "reading"
    /\ applied[n] >= main[n].readIndex
    /\ main' = [main EXCEPT ![n] = Idle]
    /\ Deliver(main[n].msg, Ok(main[n].msg.req, ReadResponse(sm[n], main[n].msg.req)))
    /\ UNCHANGED <<raftVars, applied, sm, pid, inbox, issued>>

(* Remove and RemoveMulti change the state machine of this node only. *)
ServeRemove(n) ==
    LET m == Head(inbox[n]) IN
    /\ Takes(n, m)
    /\ m.target = pid[n] /\ m.req \in RemoveRequests
    /\ sm' = [sm EXCEPT ![n] = RemoveFrom(@, m.req)]
    /\ Deliver(m, Ok(m.req, RemoveResponse(sm[n], m.req)))
    /\ UNCHANGED <<raftVars, applied, pid, main, issued>>

(* Mutant: the newest entry, before the ones a node has to catch up with. *)
NewestEntry(n) == log[received[n]]

NextEntry(n) == log[applied[n] + 1]

(* RaftStateMachine::apply of the next entry at node n.  The client_write
   that proposed the entry at this node returns its response. *)
Apply(n) ==
    LET e == NextEntry(n) IN
    /\ Alive(n) /\ applied[n] < received[n]
    /\ applied' = [applied EXCEPT ![n] = @ + 1]
    /\ sm' = [sm EXCEPT ![n] = ApplyRequest(@, e.req)]
    /\ IF main[n].pc = "writing" /\ main[n].msg.id = e.id
       THEN /\ main' = [main EXCEPT ![n] = Idle]
            /\ Deliver(main[n].msg, Ok(e.req, ApplyResponse(sm[n], e.req)))
       ELSE UNCHANGED <<main, call>>
    /\ UNCHANGED <<raftVars, pid, inbox, issued>>

-----------------------------------------------------------------------------
(* openraft: elections, replication *)

(* Mutant: a vote for anybody who asks. *)
AnyCandidate(n, Q) == TRUE

(* The members of Q find the log of candidate n no older than theirs. *)
UpToDate(n, Q) == \A q \in Q : received[q] <= received[n]

(* Node n wins an election.  A voter compares logs before it grants its
   vote and knows no leader until the new one makes contact. *)
Elect(n, Q) ==
    /\ n # leader /\ term < MaxTerm
    /\ Reachable(n, Q)
    /\ UpToDate(n, Q)
    /\ leader' = n
    /\ term' = term + 1
    /\ view' = [m \in Nodes |-> IF m = n THEN n ELSE IF m \in Q THEN None ELSE view[m]]
    /\ UNCHANGED <<log, received, proposed, versions, nodeVars, call, issued>>

(* The election timeout of node n passes: it becomes a candidate, knows no
   leader, and does not win. *)
Campaign(n) ==
    /\ Alive(n) /\ n # leader /\ term < MaxTerm
    /\ view[n] # None
    /\ term' = term + 1
    /\ view' = [view EXCEPT ![n] = None]
    /\ UNCHANGED <<leader, log, received, proposed, versions, nodeVars, call, issued>>

(* Node n hears of a newer term: the leader it believed in, maybe itself,
   no longer leads. *)
StepDown(n) ==
    /\ Alive(n)
    /\ view[n] \notin {None, leader}
    /\ view' = [view EXCEPT ![n] = None]
    /\ UNCHANGED <<leader, term, log, received, proposed, versions, nodeVars, call, issued>>

(* main_loop of follower n serves an AppendEntries request of the leader:
   n now has the leader's entries, its own conflicting ones are truncated. *)
AppendEntries(n) ==
    /\ n # leader /\ Alive(leader) /\ Free(n)
    /\ <<view[n], received[n], proposed[n]>> # <<leader, received[leader], proposed[leader]>>
    /\ view' = [view EXCEPT ![n] = leader]
    /\ received' = [received EXCEPT ![n] = received[leader]]
    /\ proposed' = [proposed EXCEPT ![n] = proposed[leader]]
    /\ UNCHANGED <<leader, term, log, versions, nodeVars, call, issued>>

(* The leader commits entry p, proposed by it or inherited from a
   predecessor, once quorum Q has stored it. *)
Commit(p, Q) ==
    /\ Reachable(leader, Q)
    /\ log' = Append(log, p)
    /\ versions' = Append(versions, ApplyRequest(versions[Len(versions)], p.req))
    /\ received' = [n \in Nodes |-> IF n \in Q THEN Len(log) + 1 ELSE received[n]]
    /\ proposed' = [n \in Nodes |-> IF n \in Q THEN proposed[leader] \ {p} ELSE proposed[n]]
    /\ view' = [n \in Nodes |-> IF n \in Q THEN leader ELSE view[n]]
    /\ UNCHANGED <<leader, term, nodeVars, call, issued>>

(* The process of node n ends and a new one, with a new id and not part of
   this cluster, takes its address. *)
Replace(n) ==
    /\ Alive(n)
    /\ Cardinality({m \in Nodes : ~Alive(m)}) < MaxReplaced
    /\ pid' = [pid EXCEPT ![n] = NewId]
    /\ inbox' = [inbox EXCEPT ![n] = <<>>]
    /\ main' = [main EXCEPT ![n] = Idle]
    /\ call' = [c \in Clients |-> IF Home[c] = n THEN NoCall ELSE call[c]]
    /\ UNCHANGED <<raftVars, applied, sm, issued>>

-----------------------------------------------------------------------------
ClientStep(c) ==
    \/ CheckIsLeader(c)
    \/ EnsureLocally(c)
    \/ ReadLocally(c)
    \/ SendToLeader(c)
    \/ ReceiveReply(c)

NodeStep(n) ==
    \/ ServeOtherNode(n)
    \/ ServeWrite(n)
    \/ ServeRead(n)
    \/ FinishEnsure(n)
    \/ FinishRead(n)
    \/ ServeRemove(n)

Next ==
    \/ \E c \in Clients, r \in Requests : Call(c, r)
    \/ \E c \in Clients : ClientStep(c) \/ ConnectionLost(c)
    \/ \E n \in Nodes : NodeStep(n) \/ Apply(n) \/ AppendEntries(n) \/ Campaign(n)
                         \/ StepDown(n) \/ Replace(n)
    \/ \E n \in Nodes, Q \in Quorums : Elect(n, Q)
    \/ \E Q \in Quorums : \E p \in proposed[leader] : Commit(p, Q)

Spec == Init /\ [][Next]_vars

(* The request of c's current call is queued or being served at node n. *)
HeldAt(n, c) ==
    \/ main[n] # Idle /\ main[n].msg.client = c /\ main[n].msg.id = call[c].id
    \/ \E i \in DOMAIN inbox[n] : inbox[n][i].client = c /\ inbox[n][i].id = call[c].id

(* No process will answer c: its stream fails. *)
Unanswerable(c) == call[c].pc = "waiting" /\ \A n \in Nodes : ~HeldAt(n, c)

(* Tasks keep running and openraft keeps replicating.  Nothing is assumed
   of elections, and a connection fails for certain only when nobody is
   left to answer on it. *)
Fairness ==
    /\ \A c \in Clients : /\ WF_vars(ClientStep(c))
                          /\ WF_vars(Unanswerable(c) /\ ConnectionLost(c))
    /\ \A n \in Nodes : /\ WF_vars(NodeStep(n))
                        /\ WF_vars(Apply(n))
                        /\ WF_vars(AppendEntries(n))
                        /\ WF_vars(StepDown(n))
    /\ WF_vars(\E Q \in Quorums : \E p \in proposed[leader] : Commit(p, Q))

FairSpec == Spec /\ Fairness

-----------------------------------------------------------------------------
(* Properties *)

RaftTypes ==
    /\ leader \in Nodes /\ term \in Nat
    /\ view \in [Nodes -> Nodes \cup {None}]
    /\ log \in Seq(Entry)
    /\ received \in [Nodes -> 0..Len(log)]
    /\ proposed \in [Nodes -> SUBSET Entry]
    /\ versions \in Seq(Data) /\ Len(versions) = Len(log) + 1

NodeTypes ==
    /\ applied \in [Nodes -> Nat]
    /\ \A n \in Nodes : applied[n] <= received[n]
    /\ sm \in [Nodes -> Data]
    /\ pid \in [Nodes -> Nodes \cup {NewId}]
    /\ inbox \in [Nodes -> Seq(Message)]
    /\ main \in [Nodes -> {Idle} \cup Awaiting]
    /\ \A n \in Nodes :
          main[n].pc \in {"ensuring", "reading"} => main[n].msg.req \in ReadRequests

CallTypes ==
    /\ issued \in Seq(Requests)
    /\ call \in [Clients -> CallRecord]
    /\ \A c \in Clients :
          /\ Active(c) => call[c].id \in 1..Len(issued)
          /\ call[c].pc \in {"route", "ensure", "local"} => Req(c) \in ReadRequests

(* The types of the variables; a node applies no more than it has received
   of the log, and whoever is about to read holds a read request. *)
TypeOK == RaftTypes /\ NodeTypes /\ CallTypes

(* No committed write is lost with a leader: the leader, and some member of
   every quorum that could elect the next one, has the whole log.  It is
   what lets ensure_linearizable and client_write answer from one node. *)
CommittedSurvive ==
    /\ received[leader] = Len(log)
    /\ \A Q \in Quorums : \E q \in Q : received[q] = Len(log)

(* A write happens at most once: redirected by ForwardToLeader, left behind in
   the queue of a node that was replaced, or inherited by a new leader, it
   has one entry in the log. *)
WrittenOnce == \A i, j \in 1..Len(log) : log[i].id = log[j].id => i = j

(* Two nodes that have applied the same number of log entries hold the same
   data: what lib.rs calls a consistent view, whatever path (apply, remove,
   a leader change, a replaced node) the state machines came there by. *)
ReplicasAgree ==
    \A m, n \in Nodes : applied[m] = applied[n] => sm[m] = sm[n]

(* Data d has no entry that data e lacks. *)
ContainedIn(d, e) ==
    \A x \in Names, k \in Keys :
        /\ d.maps[x][k] \in {None, e.maps[x][k]}
        /\ d.multi_maps[x][k] \subseteq e.multi_maps[x][k]

(* With removes among the requests the nodes may differ, but a node holds
   only what the log put there: each of its entries is the one of the
   version it has applied, or was removed. *)
NothingInvented ==
    \A n \in Nodes : ContainedIn(sm[n], versions[applied[n] + 1])

(* A call whose request the leader carried out reports success: Client
   accepts every response variant that handle_message sends for it. *)
AnswerAccepted ==
    [][\A c \in Clients :
        call[c].pc = "replied" /\ call[c].result.tag = "Ok" /\ call'[c].pc = "done"
            => call'[c].result.tag = "Ok"]_vars

(* main_loop of n awaits a client_write that cannot complete as things are:
   n has not received the entry and is not a leader with a quorum. *)
Wedged(n) ==
    /\ main[n].pc = "writing"
    /\ \A i \in 1..received[n] : log[i].id # main[n].msg.id
    /\ ~LeadershipConfirmed(n)

(* Every call of a collection method ends, with an answer or an error, or
   its request is held by a node whose main_loop is wedged: redirects,
   replaced nodes, lost quorums and leader changes never leave a caller
   waiting otherwise. *)
CallsEnd ==
    \A c \in Clients : Active(c) ~> (~Active(c) \/ \E n \in Nodes : HeldAt(n, c) /\ Wedged(n))
=============================================================================
