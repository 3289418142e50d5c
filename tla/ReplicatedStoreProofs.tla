----------------------- MODULE ReplicatedStoreProofs -----------------------
(***************************************************************************)
(* Theorems about ReplicatedStore for any number of nodes, clients, calls, *)
(* elections and replaced nodes, any quorums that intersect, and any data. *)
(***************************************************************************)
EXTENDS ReplicatedStore, TLAPS

-----------------------------------------------------------------------------
(* What the operations on the data return *)

(* Applying a log entry to the data gives data. *)
LEMMA ApplyRequestType ==
    ASSUME NEW d \in Data, NEW r \in LogRequests
    PROVE  ApplyRequest(d, r) \in Data
<1>1. CASE r.op = "Insert"
  BY <1>1 DEF ApplyRequest, Data, LogRequests, Option
<1>2. CASE r.op = "InsertMulti"
  <2> DEFINE vs == d.multi_maps[r.name][r.key] \cup {r.value}
  <2>1. r.name \in Names /\ r.key \in Keys /\ vs \in SUBSET Values
    BY <1>2 DEF LogRequests, Data
  <2>2. ApplyRequest(d, r) = [d EXCEPT !.multi_maps[r.name][r.key] = vs]
    BY <1>2 DEF ApplyRequest
  <2> HIDE DEF vs
  <2>3. d.multi_maps \in [Names -> [Keys -> SUBSET Values]]
    BY DEF Data
  <2>4. [d.multi_maps[r.name] EXCEPT ![r.key] = vs] \in [Keys -> SUBSET Values]
    BY <2>1, <2>3
  <2>5. [d.multi_maps EXCEPT ![r.name][r.key] = vs] \in [Names -> [Keys -> SUBSET Values]]
    BY <2>1, <2>3, <2>4
  <2> QED
    BY <2>2, <2>5 DEF Data
<1>3. CASE r.op = "Clear"
  BY <1>3 DEF ApplyRequest, Data, LogRequests, Option, EmptyMap
<1> QED
  BY <1>1, <1>2, <1>3 DEF LogRequests

(* Removing from the data gives data. *)
LEMMA RemoveFromType ==
    ASSUME NEW d \in Data, NEW r \in RemoveRequests
    PROVE  RemoveFrom(d, r) \in Data
<1>1. CASE r.op = "Remove"
  BY <1>1 DEF RemoveFrom, Data, RemoveRequests, Option
<1>2. CASE r.op = "RemoveMulti"
  <2> DEFINE vs == d.multi_maps[r.name][r.key] \ {r.value}
  <2>1. r.name \in Names /\ r.key \in Keys /\ vs \in SUBSET Values
    BY <1>2 DEF RemoveRequests, Data
  <2>2. RemoveFrom(d, r) = [d EXCEPT !.multi_maps[r.name][r.key] = vs]
    BY <1>2 DEF RemoveFrom
  <2> HIDE DEF vs
  <2>3. d.multi_maps \in [Names -> [Keys -> SUBSET Values]]
    BY DEF Data
  <2>4. [d.multi_maps[r.name] EXCEPT ![r.key] = vs] \in [Keys -> SUBSET Values]
    BY <2>1, <2>3
  <2>5. [d.multi_maps EXCEPT ![r.name][r.key] = vs] \in [Names -> [Keys -> SUBSET Values]]
    BY <2>1, <2>3, <2>4
  <2> QED
    BY <2>2, <2>5 DEF Data
<1> QED
  BY <1>1, <1>2 DEF RemoveRequests

(* The response to an applied entry is a reply a client can be sent. *)
LEMMA ApplyResponseType ==
    ASSUME NEW d \in Data, NEW r \in LogRequests
    PROVE  Ok(r, ApplyResponse(d, r)) \in Reply
<1>1. CASE r.op = "Insert"
  BY <1>1 DEF Ok, Reply, ResponseVariant, ApplyResponse, Data, LogRequests, Option
<1>2. CASE r.op = "InsertMulti"
  BY <1>2 DEF Ok, Reply, ResponseVariant, ApplyResponse, Data, LogRequests, Option
<1>3. CASE r.op = "Clear"
  BY <1>3 DEF Ok, Reply, ResponseVariant, ApplyResponse, Data, LogRequests, Option
<1> QED
  BY <1>1, <1>2, <1>3 DEF LogRequests

(* So is the response to a read; len counts some of the keys. *)
LEMMA ReadResponseType ==
    ASSUME NEW d \in Data, NEW r \in ReadRequests
    PROVE  Ok(r, ReadResponse(d, r)) \in Reply
<1>1. CASE r.op = "ContainsKey"
  BY <1>1 DEF Ok, Reply, ResponseVariant, ReadResponse
<1>2. CASE r.op = "Get"
  BY <1>2 DEF Ok, Reply, ResponseVariant, ReadResponse, Data, ReadRequests
<1>3. CASE r.op = "GetMulti"
  BY <1>3 DEF Ok, Reply, ResponseVariant, ReadResponse, Data, ReadRequests
<1>4. CASE r.op = "Len"
  <2> DEFINE S == {k \in Keys : d.maps[r.name][k] # None}
  <2>1. Cardinality(S) \in Nat
    BY CollectionsAssumption
  <2>2. ReadResponse(d, r) = Cardinality(S)
    BY <1>4 DEF ReadResponse
  <2> HIDE DEF S
  <2> QED
    BY <1>4, <2>1, <2>2 DEF Ok, Reply, ResponseVariant
<1> QED
  BY <1>1, <1>2, <1>3, <1>4 DEF ReadRequests

(* So is the response to a remove. *)
LEMMA RemoveResponseType ==
    ASSUME NEW d \in Data, NEW r \in RemoveRequests
    PROVE  Ok(r, RemoveResponse(d, r)) \in Reply
<1>1. CASE r.op = "Remove"
  BY <1>1 DEF Ok, Reply, ResponseVariant, RemoveResponse, Data, RemoveRequests
<1>2. CASE r.op = "RemoveMulti"
  BY <1>2 DEF Ok, Reply, ResponseVariant, RemoveResponse
<1> QED
  BY <1>1, <1>2 DEF RemoveRequests

-----------------------------------------------------------------------------
(* Type correctness *)

(* A reply changes nothing about a call but its pc and its result. *)
LEMMA DeliverType ==
    ASSUME CallTypes, NEW m \in Message, NEW reply \in Reply, Deliver(m, reply),
           UNCHANGED issued
    PROVE  CallTypes'
<1>1. CASE call[m.client].pc = "waiting" /\ call[m.client].id = m.id
  <2>1. call' = [call EXCEPT ![m.client].pc = "replied", ![m.client].result = reply]
    BY <1>1 DEF Deliver
  <2>2. m.client \in Clients
    BY DEF Message
  <2> QED
    BY <1>1, <2>1, <2>2 DEF CallTypes, CallRecord, Active, Req
<1>2. CASE ~(call[m.client].pc = "waiting" /\ call[m.client].id = m.id)
  <2>1. call' = call
    BY <1>2 DEF Deliver
  <2> QED
    BY <2>1 DEF CallTypes, CallRecord, Active, Req
<1> QED
  BY <1>1, <1>2

(* A call that ends keeps its types. *)
LEMMA FinishType ==
    ASSUME CallTypes, NEW c \in Clients, NEW result \in Reply, Finish(c, result),
           UNCHANGED issued
    PROVE  CallTypes'
BY DEF Finish, CallTypes, CallRecord, Active, Req

(* A call that moves to a state that may follow keeps its types. *)
LEMMA GotoType ==
    ASSUME CallTypes, NEW c \in Clients, Active(c), Req(c) \in Requests,
           NEW pc \in {"ensure", "local", "connect", "waiting"},
           pc \in {"ensure", "local"} => Req(c) \in ReadRequests,
           Goto(c, pc), UNCHANGED issued
    PROVE  CallTypes'
BY DEF Goto, CallTypes, CallRecord, Active, Req

(* Sending puts a message in an inbox. *)
LEMMA SendToType ==
    ASSUME CallTypes, inbox \in [Nodes -> Seq(Message)],
           NEW c \in Clients, Active(c), NEW n \in Nodes, SendTo(c, n)
    PROVE  inbox' \in [Nodes -> Seq(Message)]
<1> DEFINE m == [client |-> c, id |-> call[c].id, req |-> Req(c), target |-> n]
<1>1. m \in Message
  BY DEF CallTypes, CallRecord, Req, Message
<1>2. inbox' = [inbox EXCEPT ![n] = Append(@, m)]
  BY DEF SendTo
<1> HIDE DEF m
<1> QED
  BY <1>1, <1>2

(* Taking a message off a queue yields a message and leaves a queue. *)
LEMMA TakesType ==
    ASSUME inbox \in [Nodes -> Seq(Message)], NEW n \in Nodes, NEW m, Takes(n, m)
    PROVE  m \in Message /\ inbox' \in [Nodes -> Seq(Message)]
BY DEF Takes

(* Client steps preserve the types. *)
LEMMA ClientTypes ==
    ASSUME TypeOK, NEW c \in Clients,
           ClientStep(c) \/ ConnectionLost(c) \/ \E r \in Requests : Call(c, r)
    PROVE  TypeOK'
<1> USE DEF TypeOK
<1>h. Home[c] \in Nodes /\ Error \in Reply
  BY StoreAssumption DEF Error, Reply
<1>r. Active(c) => Req(c) \in Requests
  BY DEF CallTypes, CallRecord, Req
<1>u. ASSUME UNCHANGED <<raftVars, nodeVars>> PROVE RaftTypes' /\ NodeTypes'
  BY <1>u DEF raftVars, nodeVars, RaftTypes, NodeTypes
<1>i. ASSUME UNCHANGED <<raftVars, applied, sm, pid, main>>, inbox' \in [Nodes -> Seq(Message)]
      PROVE  RaftTypes' /\ NodeTypes'
  BY <1>i DEF raftVars, RaftTypes, NodeTypes
<1>1. ASSUME NEW r \in Requests, Call(c, r) PROVE TypeOK'
  <2>1. FirstStep(r) \in {"connect", "local", "route"}
        /\ (FirstStep(r) # "connect" => r \in ReadRequests)
    BY DEF FirstStep
  <2>2. Len(issued) \in Nat /\ Len(log) \in Nat
    BY DEF RaftTypes, CallTypes
  <2>3. CallTypes'
    BY <1>1, <1>h, <2>1, <2>2 DEF Call, CallTypes, CallRecord, Active, Req
  <2> QED
    BY <1>1, <1>u, <2>3 DEF Call
<1>2. CASE CheckIsLeader(c)
  <2>1. Active(c) /\ Req(c) \in ReadRequests
    BY <1>2 DEF CheckIsLeader, Active, CallTypes
  <2> QED
    BY <1>2, <1>u, <1>r, <2>1, GotoType DEF CheckIsLeader
<1>3. CASE EnsureLocally(c)
  <2>1. Active(c) /\ Req(c) \in ReadRequests /\ UNCHANGED issued
    BY <1>3 DEF EnsureLocally, Active, CallTypes
  <2>2. CASE call' = [call EXCEPT ![c].pc = "local", ![c].readIndex = received[Home[c]]]
    <3>1. received[Home[c]] \in Nat
      BY <1>h DEF RaftTypes
    <3> QED
      BY <1>3, <1>u, <2>1, <2>2, <3>1 DEF EnsureLocally, CallTypes, CallRecord, Active, Req
  <2>3. CASE Goto(c, "connect")
    BY <1>3, <1>u, <1>r, <2>1, <2>3, GotoType DEF EnsureLocally
  <2>4. CASE Finish(c, Error)
    BY <1>3, <1>u, <1>h, <2>1, <2>4, FinishType DEF EnsureLocally
  <2> QED
    BY <1>3, <2>2, <2>3, <2>4 DEF EnsureLocally
<1>4. CASE ReadLocally(c)
  <2>1. Req(c) \in ReadRequests /\ sm[Home[c]] \in Data
    BY <1>4, <1>h DEF ReadLocally, CallTypes, NodeTypes
  <2>2. Ok(Req(c), ReadResponse(sm[Home[c]], Req(c))) \in Reply
    BY <2>1, ReadResponseType
  <2> QED
    BY <1>4, <1>u, <2>2, FinishType DEF ReadLocally
<1>5. CASE SendToLeader(c)
  <2>1. Active(c) /\ GetLeader(Home[c]) \in Nodes \cup {None}
    BY <1>5, <1>h DEF SendToLeader, Active, RaftTypes, GetLeader
  <2>2. CASE GetLeader(Home[c]) = None
    BY <1>5, <1>i, <1>h, <2>2, FinishType DEF SendToLeader, NodeTypes
  <2>3. CASE GetLeader(Home[c]) # None
    <3>1. inbox' \in [Nodes -> Seq(Message)]
      BY <1>5, <2>1, <2>3, SendToType DEF SendToLeader, NodeTypes
    <3> QED
      BY <1>5, <1>i, <1>r, <2>1, <2>3, <3>1, GotoType DEF SendToLeader
  <2> QED
    BY <2>2, <2>3
<1>6. CASE ReceiveReply(c)
  <2> DEFINE reply == call[c].result
             redirect == reply.tag = "ForwardToLeader" /\ reply.body # None
  <2>1. Active(c) /\ reply \in Reply
    BY <1>6 DEF ReceiveReply, Active, CallTypes, CallRecord
  <2>2. CASE redirect
    <3>1. reply.body \in Nodes
      BY <2>1, <2>2 DEF Reply
    <3>2. inbox' \in [Nodes -> Seq(Message)]
      BY <1>6, <2>1, <2>2, <3>1, SendToType DEF ReceiveReply, NodeTypes
    <3> QED
      BY <1>6, <1>i, <1>r, <2>1, <2>2, <3>2, GotoType DEF ReceiveReply
  <2>3. CASE ~redirect
    <3>1. PICK res \in {reply, Error} : Finish(c, res)
      BY <1>6, <2>3 DEF ReceiveReply
    <3> QED
      BY <1>6, <1>i, <1>h, <2>1, <2>3, <3>1, FinishType DEF ReceiveReply, NodeTypes
  <2> QED
    BY <2>2, <2>3
<1>7. CASE ConnectionLost(c)
  BY <1>7, <1>u, <1>h, FinishType DEF ConnectionLost
<1> QED
  BY <1>1, <1>2, <1>3, <1>4, <1>5, <1>6, <1>7 DEF ClientStep

(* Steps of main_loop and of apply preserve the types. *)
LEMMA MainLoopTypes ==
    ASSUME TypeOK, NEW n \in Nodes, NodeStep(n) \/ Apply(n)
    PROVE  TypeOK'
<1> USE DEF TypeOK
<1>e. Error \in Reply
  BY DEF Error, Reply
<1>b. inbox \in [Nodes -> Seq(Message)] /\ sm[n] \in Data /\ main[n] \in {Idle} \cup Awaiting
  BY DEF NodeTypes
<1>m. main[n].pc \in {"writing", "ensuring", "reading"} => main[n].msg \in Message
  BY <1>b DEF Idle, Awaiting
<1> DEFINE m == Head(inbox[n])
<1>1. CASE ServeOtherNode(n)
  <2>1. m \in Message /\ inbox' \in [Nodes -> Seq(Message)]
    BY <1>1, <1>b, TakesType DEF ServeOtherNode
  <2>2. CallTypes'
    BY <1>1, <1>e, <2>1, DeliverType DEF ServeOtherNode
  <2> QED
    BY <1>1, <2>1, <2>2 DEF ServeOtherNode, raftVars, RaftTypes, NodeTypes
<1>2. CASE ServeWrite(n)
  <2>1. m \in Message /\ inbox' \in [Nodes -> Seq(Message)]
    BY <1>2, <1>b, TakesType DEF ServeWrite
  <2>2. CASE view[n] = n
    <3>1. [id |-> m.id, req |-> m.req] \in Entry
      BY <1>2, <2>1 DEF ServeWrite, Message, Entry
    <3>2. RaftTypes'
      <4> DEFINE ps == proposed[n] \cup {[id |-> m.id, req |-> m.req]}
      <4>1. ps \in SUBSET Entry
        BY <3>1 DEF RaftTypes
      <4>2. proposed' = [proposed EXCEPT ![n] = ps]
        BY <1>2, <2>2 DEF ServeWrite
      <4> HIDE DEF ps
      <4> QED
        BY <1>2, <4>1, <4>2 DEF ServeWrite, RaftTypes
    <3>3. Busy("writing", m) \in Awaiting /\ Busy("writing", m).pc = "writing"
      BY <2>1 DEF Busy, Awaiting
    <3>4. NodeTypes'
      BY <1>2, <2>1, <2>2, <3>3 DEF ServeWrite, NodeTypes
    <3> QED
      BY <1>2, <2>2, <3>2, <3>4 DEF ServeWrite, CallTypes, Active, Req
  <2>3. CASE view[n] # n
    <3>1. ForwardToLeader(view[n]) \in Reply
      BY DEF ForwardToLeader, Reply, RaftTypes
    <3>2. CallTypes'
      BY <1>2, <2>1, <2>3, <3>1, DeliverType DEF ServeWrite
    <3> QED
      BY <1>2, <2>1, <2>3, <3>2 DEF ServeWrite, RaftTypes, NodeTypes
  <2> QED
    BY <2>2, <2>3
<1>3. CASE ServeRead(n)
  <2>1. m \in Message /\ inbox' \in [Nodes -> Seq(Message)] /\ m.req \in ReadRequests
    BY <1>3, <1>b, TakesType DEF ServeRead
  <2>2. RaftTypes'
    BY <1>3 DEF ServeRead, raftVars, RaftTypes
  <2>3. CASE UNCHANGED call /\ main' = [main EXCEPT ![n] = Busy("ensuring", m)]
    <3>1. Busy("ensuring", m) \in Awaiting /\ Busy("ensuring", m).msg = m
      BY <2>1 DEF Busy, Awaiting
    <3>2. NodeTypes'
      BY <1>3, <2>1, <2>3, <3>1 DEF ServeRead, NodeTypes, raftVars
    <3> QED
      BY <1>3, <2>2, <2>3, <3>2 DEF ServeRead, CallTypes, Active, Req
  <2>4. CASE UNCHANGED main /\ \E reply \in Reply : Deliver(m, reply)
    <3>1. CallTypes'
      BY <1>3, <2>1, <2>4, DeliverType DEF ServeRead
    <3> QED
      BY <1>3, <2>1, <2>2, <2>4, <3>1 DEF ServeRead, NodeTypes, raftVars
  <2>5. Ok(m.req, ReadResponse(sm[n], m.req)) \in Reply
    BY <1>b, <2>1, ReadResponseType
  <2> QED
    BY <1>3, <1>e, <2>3, <2>4, <2>5 DEF ServeRead
<1>4. CASE FinishEnsure(n)
  <2>1. RaftTypes'
    BY <1>4 DEF FinishEnsure, raftVars, RaftTypes
  <2>2. CASE UNCHANGED call /\ main' = [main EXCEPT ![n].pc = "reading", ![n].readIndex = received[n]]
    <3>1. received[n] \in Nat /\ main[n] \in Awaiting
      BY <1>4, <1>b DEF FinishEnsure, RaftTypes, Idle
    <3>2. main'[n] \in Awaiting /\ main'[n].msg = main[n].msg
      BY <2>2, <3>1 DEF NodeTypes, Awaiting
    <3>3. NodeTypes'
      BY <1>4, <2>2, <3>2 DEF FinishEnsure, NodeTypes, raftVars
    <3> QED
      BY <1>4, <2>1, <2>2, <3>3 DEF FinishEnsure, CallTypes, Active, Req
  <2>3. CASE main' = [main EXCEPT ![n] = Idle] /\ Deliver(main[n].msg, Error)
    <3>1. CallTypes'
      BY <1>4, <1>e, <1>m, <2>3, DeliverType DEF FinishEnsure
    <3>2. NodeTypes'
      BY <1>4, <2>3 DEF FinishEnsure, NodeTypes, Idle, raftVars
    <3> QED
      BY <2>1, <3>1, <3>2
  <2> QED
    BY <1>4, <2>2, <2>3 DEF FinishEnsure
<1>5. CASE FinishRead(n)
  <2>1. main[n].msg.req \in ReadRequests /\ main[n].msg \in Message
    BY <1>5, <1>m DEF FinishRead, NodeTypes
  <2>2. Ok(main[n].msg.req, ReadResponse(sm[n], main[n].msg.req)) \in Reply
    BY <1>b, <2>1, ReadResponseType
  <2>3. CallTypes'
    BY <1>5, <2>1, <2>2, DeliverType DEF FinishRead
  <2>4. NodeTypes'
    BY <1>5 DEF FinishRead, NodeTypes, Idle, raftVars
  <2> QED
    BY <1>5, <2>3, <2>4 DEF FinishRead, raftVars, RaftTypes
<1>6. CASE ServeRemove(n)
  <2>1. m \in Message /\ inbox' \in [Nodes -> Seq(Message)] /\ m.req \in RemoveRequests
    BY <1>6, <1>b, TakesType DEF ServeRemove
  <2>2. Ok(m.req, RemoveResponse(sm[n], m.req)) \in Reply /\ RemoveFrom(sm[n], m.req) \in Data
    BY <1>b, <2>1, RemoveResponseType, RemoveFromType
  <2>3. CallTypes'
    BY <1>6, <2>1, <2>2, DeliverType DEF ServeRemove
  <2>4. NodeTypes'
    BY <1>6, <2>1, <2>2 DEF ServeRemove, NodeTypes, raftVars
  <2> QED
    BY <1>6, <2>3, <2>4 DEF ServeRemove, raftVars, RaftTypes
<1>7. CASE Apply(n)
  <2> DEFINE e == NextEntry(n)
  <2>1. e \in Entry /\ applied[n] + 1 <= received[n]
    BY <1>7 DEF Apply, NextEntry, RaftTypes, NodeTypes
  <2>2. Ok(e.req, ApplyResponse(sm[n], e.req)) \in Reply /\ ApplyRequest(sm[n], e.req) \in Data
    BY <1>b, <2>1, ApplyResponseType, ApplyRequestType DEF Entry
  <2>3. RaftTypes'
    BY <1>7 DEF Apply, raftVars, RaftTypes
  <2>4. CASE main[n].pc = "writing" /\ main[n].msg.id = e.id
    <3>1. CallTypes'
      BY <1>7, <1>m, <2>2, <2>4, DeliverType DEF Apply
    <3>2. NodeTypes'
      <4>1. main' = [main EXCEPT ![n] = Idle] /\ UNCHANGED <<pid, inbox, received>>
        BY <1>7, <2>4 DEF Apply, raftVars
      <4>2. applied' = [applied EXCEPT ![n] = applied[n] + 1]
            /\ sm' = [sm EXCEPT ![n] = ApplyRequest(sm[n], e.req)]
        BY <1>7 DEF Apply
      <4> HIDE DEF e
      <4> QED
        BY <2>1, <2>2, <4>1, <4>2 DEF NodeTypes, Idle
    <3> QED
      BY <2>3, <3>1, <3>2
  <2>5. CASE ~(main[n].pc = "writing" /\ main[n].msg.id = e.id)
    <3>1. UNCHANGED <<main, call, issued, pid, inbox, received>>
      BY <1>7, <2>5 DEF Apply, raftVars
    <3>2. CallTypes'
      BY <3>1 DEF CallTypes, Active, Req
    <3>3. NodeTypes'
      <4>1. applied' = [applied EXCEPT ![n] = applied[n] + 1]
            /\ sm' = [sm EXCEPT ![n] = ApplyRequest(sm[n], e.req)]
        BY <1>7 DEF Apply
      <4> HIDE DEF e
      <4> QED
        BY <2>1, <2>2, <3>1, <4>1 DEF NodeTypes
    <3> QED
      BY <2>3, <3>2, <3>3
  <2> QED
    BY <2>4, <2>5
<1> QED
  BY <1>1, <1>2, <1>3, <1>4, <1>5, <1>6, <1>7 DEF NodeStep

RaftStep ==
    \/ \E n \in Nodes : AppendEntries(n) \/ Campaign(n) \/ StepDown(n) \/ Replace(n)
    \/ \E n \in Nodes, Q \in Quorums : Elect(n, Q)
    \/ \E Q \in Quorums : \E p \in proposed[leader] : Commit(p, Q)

(* Elections, replication and the end of a process preserve the types.  A
   follower catches up with the leader, which has the whole log. *)
LEMMA RaftStepTypes ==
    ASSUME TypeOK, CommittedSurvive, RaftStep
    PROVE  TypeOK' /\ CommittedSurvive'
<1> USE DEF TypeOK
<1>u. ASSUME UNCHANGED <<call, issued>> PROVE CallTypes'
  BY <1>u DEF CallTypes, Active, Req
<1>v. ASSUME UNCHANGED <<nodeVars, received>> PROVE NodeTypes'
  BY <1>v DEF nodeVars, NodeTypes
<1>s. ASSUME UNCHANGED <<leader, log, received>> PROVE CommittedSurvive'
  BY <1>s DEF CommittedSurvive
<1>1. ASSUME NEW n \in Nodes, AppendEntries(n) PROVE TypeOK' /\ CommittedSurvive'
  <2>1. received' = [received EXCEPT ![n] = Len(log)] /\ UNCHANGED <<leader, log>>
    BY <1>1 DEF AppendEntries, CommittedSurvive
  <2>2. RaftTypes'
    BY <1>1 DEF AppendEntries, RaftTypes
  <2>3. NodeTypes'
    BY <1>1, <2>1 DEF AppendEntries, RaftTypes, NodeTypes, nodeVars
  <2>4. CommittedSurvive'
    BY <2>1, StoreAssumption DEF RaftTypes, CommittedSurvive
  <2> QED
    BY <1>1, <1>u, <2>2, <2>3, <2>4 DEF AppendEntries
<1>2. ASSUME NEW n \in Nodes, Campaign(n) PROVE TypeOK' /\ CommittedSurvive'
  BY <1>2, <1>u, <1>v, <1>s DEF Campaign, RaftTypes
<1>3. ASSUME NEW n \in Nodes, StepDown(n) PROVE TypeOK' /\ CommittedSurvive'
  BY <1>3, <1>u, <1>v, <1>s DEF StepDown, RaftTypes
<1>4. ASSUME NEW n \in Nodes, Replace(n) PROVE TypeOK' /\ CommittedSurvive'
  <2>1. RaftTypes' /\ CommittedSurvive'
    BY <1>4, <1>s DEF Replace, raftVars, RaftTypes
  <2>2. inbox' \in [Nodes -> Seq(Message)]
    BY <1>4 DEF Replace, NodeTypes
  <2>3. NodeTypes'
    BY <1>4, <2>2 DEF Replace, raftVars, NodeTypes, Idle
  <2>4. NoCall \in CallRecord /\ NoCall.pc = "idle"
    BY DEF NoCall, CallRecord, Error, Reply
  <2>5. CallTypes'
    BY <1>4, <2>4 DEF Replace, CallTypes, Active, Req
  <2> QED
    BY <2>1, <2>3, <2>5
<1>5. ASSUME NEW n \in Nodes, NEW Q \in Quorums, Elect(n, Q)
      PROVE  TypeOK' /\ CommittedSurvive'
  <2>1. PICK q \in Q : received[q] = Len(log)
    BY DEF CommittedSurvive
  <2>2. received[n] = Len(log)
    BY <1>5, <2>1, StoreAssumption DEF Elect, UpToDate, RaftTypes
  <2>3. RaftTypes' /\ CommittedSurvive'
    BY <1>5, <2>2 DEF Elect, RaftTypes, CommittedSurvive
  <2> QED
    BY <1>5, <1>u, <1>v, <2>3 DEF Elect
<1>6. ASSUME NEW Q \in Quorums, NEW p \in proposed[leader], Commit(p, Q)
      PROVE  TypeOK' /\ CommittedSurvive'
  <2>1. p \in Entry /\ ApplyRequest(versions[Len(versions)], p.req) \in Data
    BY ApplyRequestType DEF RaftTypes, Entry
  <2>2. log' \in Seq(Entry) /\ Len(log') = Len(log) + 1
    BY <1>6, <2>1 DEF Commit, RaftTypes
  <2>3. versions' \in Seq(Data) /\ Len(versions') = Len(log') + 1
    BY <1>6, <2>1, <2>2 DEF Commit, RaftTypes
  <2>4. RaftTypes'
    <3>1. received' \in [Nodes -> 0..Len(log')]
      BY <1>6, <2>2 DEF Commit, RaftTypes
    <3>2. proposed' \in [Nodes -> SUBSET Entry]
      BY <1>6 DEF Commit, RaftTypes
    <3> QED
      BY <1>6, <2>2, <2>3, <3>1, <3>2 DEF Commit, RaftTypes
  <2>5. NodeTypes'
    BY <1>6 DEF Commit, nodeVars, RaftTypes, NodeTypes
  <2>6. CommittedSurvive'
    <3>1. \A q \in Q : received'[q] = Len(log')
      BY <1>6, <2>2, StoreAssumption DEF Commit, RaftTypes
    <3>2. leader' \in Q
      BY <1>6 DEF Commit, Reachable
    <3> QED
      BY <1>6, <3>1, <3>2, StoreAssumption DEF Commit, CommittedSurvive
  <2> QED
    BY <1>6, <1>u, <2>4, <2>5, <2>6 DEF Commit
<1> QED
  BY <1>1, <1>2, <1>3, <1>4, <1>5, <1>6 DEF RaftStep

(* Every step is one of a client, of a main_loop, or of openraft. *)
LEMMA NextSplit ==
    ASSUME Next
    PROVE  \/ \E c \in Clients :
                 ClientStep(c) \/ ConnectionLost(c) \/ \E r \in Requests : Call(c, r)
           \/ \E n \in Nodes : NodeStep(n) \/ Apply(n)
           \/ RaftStep
BY Zenon DEF Next, RaftStep

(* What a client or a main_loop does leaves the log and its copies alone. *)
LEMMA LogUntouched ==
    ASSUME \/ \E c \in Clients :
                 ClientStep(c) \/ ConnectionLost(c) \/ \E r \in Requests : Call(c, r)
           \/ \E n \in Nodes : NodeStep(n) \/ Apply(n)
    PROVE  UNCHANGED <<leader, log, received, versions>>
BY DEF ClientStep, ConnectionLost, Call, CheckIsLeader, EnsureLocally, ReadLocally,
       SendToLeader, ReceiveReply, NodeStep, ServeOtherNode, ServeWrite, ServeRead,
       FinishEnsure, FinishRead, ServeRemove, Apply, raftVars

(* The types hold initially. *)
LEMMA InitTypes == Init => TypeOK /\ CommittedSurvive
<1> SUFFICES ASSUME Init PROVE TypeOK /\ CommittedSurvive
  OBVIOUS
<1>1. EmptyData \in Data
  BY DEF EmptyData, EmptyMap, Data, Option
<1>2. RaftTypes
  BY <1>1 DEF Init, RaftTypes
<1>3. NodeTypes
  BY <1>1 DEF Init, NodeTypes, Idle
<1>4. CallTypes
  BY DEF Init, CallTypes, CallRecord, NoCall, Active, Error, Reply
<1>5. CommittedSurvive
  BY StoreAssumption DEF Init, CommittedSurvive
<1> QED
  BY <1>2, <1>3, <1>4, <1>5 DEF TypeOK

(* Every step preserves the types and the survival of committed entries. *)
LEMMA NextTypes == TypeOK /\ CommittedSurvive /\ [Next]_vars => TypeOK' /\ CommittedSurvive'
<1> SUFFICES ASSUME TypeOK, CommittedSurvive, [Next]_vars PROVE TypeOK' /\ CommittedSurvive'
  OBVIOUS
<1>1. ASSUME UNCHANGED <<leader, log, received, versions>> PROVE CommittedSurvive'
  BY <1>1 DEF CommittedSurvive
<1>2. CASE UNCHANGED vars
  BY <1>2, <1>1 DEF vars, raftVars, nodeVars, TypeOK, RaftTypes, NodeTypes, CallTypes, Active, Req
<1>3. CASE Next
  BY <1>3, <1>1, NextSplit, LogUntouched, ClientTypes, MainLoopTypes, RaftStepTypes
<1> QED
  BY <1>2, <1>3

(* The state of the store has its types: among them that no node applies
   an entry before it has received it, and that reads await only reads. *)
THEOREM TypeCorrect == Spec => []TypeOK
<1>1. Spec => [](TypeOK /\ CommittedSurvive)
  BY InitTypes, NextTypes, PTL DEF Spec
<1> QED
  BY <1>1, PTL

(* Committed writes survive every leader change. *)
THEOREM Survival == Spec => []CommittedSurvive
<1>1. Spec => [](TypeOK /\ CommittedSurvive)
  BY InitTypes, NextTypes, PTL DEF Spec
<1> QED
  BY <1>1, PTL

-----------------------------------------------------------------------------
(* The data of the nodes *)

(* Applying an entry to both keeps contained data contained. *)
LEMMA ApplyMonotonic ==
    ASSUME NEW d \in Data, NEW e \in Data, NEW r \in LogRequests, ContainedIn(d, e)
    PROVE  ContainedIn(ApplyRequest(d, r), ApplyRequest(e, r))
<1>1. CASE r.op = "Insert"
  <2>1. ApplyRequest(d, r) = [d EXCEPT !.maps[r.name][r.key] = r.value]
        /\ ApplyRequest(e, r) = [e EXCEPT !.maps[r.name][r.key] = r.value]
    BY <1>1 DEF ApplyRequest
  <2> QED
    BY <1>1, <2>1 DEF ContainedIn, Data, LogRequests
<1>2. CASE r.op = "InsertMulti"
  <2> DEFINE D == d.multi_maps[r.name][r.key] \cup {r.value}
             E == e.multi_maps[r.name][r.key] \cup {r.value}
  <2>1. r.name \in Names /\ r.key \in Keys
    BY <1>2 DEF LogRequests
  <2>2. ApplyRequest(d, r) = [d EXCEPT !.multi_maps[r.name][r.key] = D]
        /\ ApplyRequest(e, r) = [e EXCEPT !.multi_maps[r.name][r.key] = E]
    BY <1>2 DEF ApplyRequest
  <2>3. D \subseteq E
    BY <2>1 DEF ContainedIn
  <2> HIDE DEF D, E
  <2> QED
    BY <2>1, <2>2, <2>3 DEF ContainedIn, Data
<1>3. CASE r.op = "Clear"
  <2>1. ApplyRequest(d, r) = [d EXCEPT !.maps[r.name] = EmptyMap]
        /\ ApplyRequest(e, r) = [e EXCEPT !.maps[r.name] = EmptyMap]
    BY <1>3 DEF ApplyRequest
  <2> QED
    BY <1>3, <2>1 DEF ContainedIn, Data, LogRequests, EmptyMap
<1> QED
  BY <1>1, <1>2, <1>3 DEF LogRequests

(* Removing keeps contained data contained. *)
LEMMA RemoveContained ==
    ASSUME NEW d \in Data, NEW e \in Data, NEW r \in RemoveRequests, ContainedIn(d, e)
    PROVE  ContainedIn(RemoveFrom(d, r), e)
<1>1. CASE r.op = "Remove"
  <2>1. RemoveFrom(d, r) = [d EXCEPT !.maps[r.name][r.key] = None]
    BY <1>1 DEF RemoveFrom
  <2> QED
    BY <1>1, <2>1 DEF ContainedIn, Data, RemoveRequests
<1>2. CASE r.op = "RemoveMulti"
  <2> DEFINE D == d.multi_maps[r.name][r.key] \ {r.value}
  <2>1. r.name \in Names /\ r.key \in Keys
    BY <1>2 DEF RemoveRequests
  <2>2. RemoveFrom(d, r) = [d EXCEPT !.multi_maps[r.name][r.key] = D]
    BY <1>2 DEF RemoveFrom
  <2>3. D \subseteq e.multi_maps[r.name][r.key]
    BY <2>1, Zenon DEF ContainedIn
  <2> HIDE DEF D
  <2> QED
    BY <2>1, <2>2, <2>3 DEF ContainedIn, Data
<1> QED
  BY <1>1, <1>2 DEF RemoveRequests

(* Each version is the one before it with the log entry between applied. *)
VersionsFollow ==
    \A i \in 1..Len(log) : versions[i + 1] = ApplyRequest(versions[i], log[i].req)

(* The data of a node is the version it has applied. *)
ReplicaIsVersion ==
    \A n \in Nodes : sm[n] = versions[applied[n] + 1]

(* What a step can do to the data of a node and to the versions: apply the
   next entry, remove, commit a further entry, or nothing. *)
LEMMA DataSteps ==
    ASSUME TypeOK, [Next]_vars
    PROVE  \/ UNCHANGED <<sm, applied, log, versions>>
           \/ \E n \in Nodes :
                 /\ applied[n] < received[n]
                 /\ applied' = [applied EXCEPT ![n] = applied[n] + 1]
                 /\ sm' = [sm EXCEPT ![n] = ApplyRequest(sm[n], log[applied[n] + 1].req)]
                 /\ UNCHANGED <<log, versions>>
           \/ \E n \in Nodes : \E r \in RemoveRequests \cap Requests :
                 /\ sm' = [sm EXCEPT ![n] = RemoveFrom(sm[n], r)]
                 /\ UNCHANGED <<applied, log, versions>>
           \/ \E p \in Entry :
                 /\ log' = Append(log, p)
                 /\ versions' = Append(versions, ApplyRequest(versions[Len(versions)], p.req))
                 /\ UNCHANGED <<sm, applied>>
<1>1. CASE UNCHANGED vars
  BY <1>1 DEF vars, raftVars, nodeVars
<1>2. ASSUME NEW c \in Clients,
             ClientStep(c) \/ ConnectionLost(c) \/ \E r \in Requests : Call(c, r)
      PROVE  UNCHANGED <<sm, applied, log, versions>>
  BY <1>2 DEF ClientStep, ConnectionLost, Call, CheckIsLeader, EnsureLocally, ReadLocally,
              SendToLeader, ReceiveReply, raftVars, nodeVars
<1>3. ASSUME NEW n \in Nodes, NodeStep(n), ~ServeRemove(n)
      PROVE  UNCHANGED <<sm, applied, log, versions>>
  BY <1>3 DEF NodeStep, ServeOtherNode, ServeWrite, ServeRead, FinishEnsure, FinishRead, raftVars
<1>4. ASSUME NEW n \in Nodes, ServeRemove(n)
      PROVE  \E r \in RemoveRequests \cap Requests :
                 /\ sm' = [sm EXCEPT ![n] = RemoveFrom(sm[n], r)]
                 /\ UNCHANGED <<applied, log, versions>>
  <2>1. Head(inbox[n]).req \in RemoveRequests \cap Requests
    <3>1. Takes(n, Head(inbox[n])) /\ Head(inbox[n]).req \in RemoveRequests
      BY <1>4 DEF ServeRemove
    <3>2. Head(inbox[n]) \in Message
      BY <3>1, TakesType DEF TypeOK, NodeTypes
    <3> QED
      BY <3>1, <3>2 DEF Message
  <2> QED
    BY <1>4, <2>1 DEF ServeRemove, raftVars
<1>5. ASSUME NEW n \in Nodes, Apply(n)
      PROVE  /\ applied[n] < received[n]
             /\ applied' = [applied EXCEPT ![n] = applied[n] + 1]
             /\ sm' = [sm EXCEPT ![n] = ApplyRequest(sm[n], log[applied[n] + 1].req)]
             /\ UNCHANGED <<log, versions>>
  BY <1>5 DEF Apply, NextEntry, raftVars
<1>6. CASE \E n \in Nodes : AppendEntries(n) \/ Campaign(n) \/ StepDown(n) \/ Replace(n)
  BY <1>6 DEF AppendEntries, Campaign, StepDown, Replace, raftVars, nodeVars
<1>7. CASE \E n \in Nodes, Q \in Quorums : Elect(n, Q)
  BY <1>7 DEF Elect, nodeVars
<1>8. ASSUME NEW Q \in Quorums, NEW p \in proposed[leader], Commit(p, Q)
      PROVE  /\ p \in Entry
             /\ log' = Append(log, p)
             /\ versions' = Append(versions, ApplyRequest(versions[Len(versions)], p.req))
             /\ UNCHANGED <<sm, applied>>
  BY <1>8 DEF Commit, nodeVars, TypeOK, RaftTypes
<1> QED
  BY <1>1, <1>2, <1>3, <1>4, <1>5, <1>6, <1>7, <1>8, NextSplit, Zenon DEF RaftStep

(* The inductive invariant behind the data theorems is preserved. *)
LEMMA VersionsNext == TypeOK /\ VersionsFollow /\ [Next]_vars => VersionsFollow'
<1> SUFFICES ASSUME TypeOK, VersionsFollow, [Next]_vars PROVE VersionsFollow'
  OBVIOUS
<1>1. CASE UNCHANGED <<log, versions>>
  BY <1>1 DEF VersionsFollow
<1>2. ASSUME NEW p \in Entry, log' = Append(log, p),
             versions' = Append(versions, ApplyRequest(versions[Len(versions)], p.req))
      PROVE  VersionsFollow'
  <2> SUFFICES ASSUME NEW i \in 1..Len(log')
               PROVE  versions'[i + 1] = ApplyRequest(versions'[i], log'[i].req)
    BY DEF VersionsFollow
  <2>1. log \in Seq(Entry) /\ versions \in Seq(Data) /\ Len(versions) = Len(log) + 1
    BY DEF TypeOK, RaftTypes
  <2>2. CASE i = Len(log) + 1
    BY <1>2, <2>1, <2>2
  <2>3. CASE i # Len(log) + 1
    <3>1. i \in 1..Len(log)
      BY <1>2, <2>1, <2>3
    <3>2. versions'[i + 1] = versions[i + 1] /\ versions'[i] = versions[i] /\ log'[i] = log[i]
      BY <1>2, <2>1, <3>1
    <3> QED
      BY <3>1, <3>2 DEF VersionsFollow
  <2> QED
    BY <2>2, <2>3
<1> QED
  BY <1>1, <1>2, DataSteps

(* A step that commits keeps the version a node has applied. *)
LEMMA CommitKeepsVersions ==
    ASSUME TypeOK, NEW v, versions' = Append(versions, v), NEW n \in Nodes
    PROVE  versions'[applied[n] + 1] = versions[applied[n] + 1]
<1>1. versions \in Seq(Data) /\ applied[n] + 1 \in 1..Len(versions)
  BY DEF TypeOK, RaftTypes, NodeTypes
<1> QED
  BY <1>1

(* Apply takes a node from one version to the next. *)
LEMMA ApplyNextVersion ==
    ASSUME TypeOK, VersionsFollow, NEW n \in Nodes, applied[n] < received[n]
    PROVE  /\ log[applied[n] + 1].req \in LogRequests
           /\ versions[applied[n] + 1] \in Data
           /\ versions[(applied[n] + 1) + 1]
                = ApplyRequest(versions[applied[n] + 1], log[applied[n] + 1].req)
<1>1. applied[n] + 1 \in 1..Len(log) /\ applied[n] + 1 \in 1..Len(versions)
  BY DEF TypeOK, RaftTypes, NodeTypes
<1>2. log[applied[n] + 1] \in Entry /\ versions[applied[n] + 1] \in Data
  BY <1>1 DEF TypeOK, RaftTypes
<1> QED
  BY <1>1, <1>2 DEF VersionsFollow, Entry

(* Whatever is requested, a node holds only what the log put there: apply
   and remove never produce an entry that the log does not account for. *)
THEOREM NodesInventNothing == Spec => []NothingInvented
<1> DEFINE IInv == TypeOK /\ CommittedSurvive /\ VersionsFollow /\ NothingInvented
<1>1. Init => IInv
  <2> SUFFICES ASSUME Init PROVE IInv
    OBVIOUS
  <2>1. VersionsFollow
    BY DEF Init, VersionsFollow
  <2>2. NothingInvented
    BY DEF Init, NothingInvented, ContainedIn
  <2> QED
    BY InitTypes, <2>1, <2>2
<1>2. IInv /\ [Next]_vars => IInv'
  <2> SUFFICES ASSUME IInv, [Next]_vars PROVE NothingInvented'
    BY NextTypes, VersionsNext, Zenon
  <2> SUFFICES ASSUME NEW n \in Nodes
               PROVE  ContainedIn(sm'[n], versions'[applied'[n] + 1])
    BY DEF NothingInvented, ContainedIn
  <2>1. sm \in [Nodes -> Data] /\ applied \in [Nodes -> Nat]
        /\ ContainedIn(sm[n], versions[applied[n] + 1])
    BY DEF TypeOK, NodeTypes, NothingInvented
  <2>2. CASE UNCHANGED <<sm, applied, log, versions>>
    BY <2>1, <2>2
  <2>3. ASSUME NEW m \in Nodes, applied[m] < received[m],
               applied' = [applied EXCEPT ![m] = applied[m] + 1],
               sm' = [sm EXCEPT ![m] = ApplyRequest(sm[m], log[applied[m] + 1].req)],
               UNCHANGED <<log, versions>>
        PROVE  ContainedIn(sm'[n], versions'[applied'[n] + 1])
    <3>1. CASE m = n
      <4>1. sm'[n] = ApplyRequest(sm[n], log[applied[n] + 1].req) /\ applied'[n] = applied[n] + 1
        BY <2>1, <2>3, <3>1
      <4>2. /\ log[applied[n] + 1].req \in LogRequests
            /\ versions[applied[n] + 1] \in Data
            /\ versions[(applied[n] + 1) + 1]
                = ApplyRequest(versions[applied[n] + 1], log[applied[n] + 1].req)
        BY <2>3, <3>1, ApplyNextVersion
      <4> QED
        BY <2>1, <2>3, <4>1, <4>2, ApplyMonotonic
    <3>2. CASE m # n
      <4>1. sm'[n] = sm[n] /\ applied'[n] = applied[n]
        BY <2>1, <2>3, <3>2
      <4> QED
        BY <2>1, <2>3, <4>1
    <3> QED
      BY <3>1, <3>2
  <2>4. ASSUME NEW m \in Nodes, NEW r \in RemoveRequests,
               sm' = [sm EXCEPT ![m] = RemoveFrom(sm[m], r)],
               UNCHANGED <<applied, log, versions>>
        PROVE  ContainedIn(sm'[n], versions'[applied'[n] + 1])
    <3>1. versions[applied[n] + 1] \in Data
      BY DEF TypeOK, RaftTypes, NodeTypes
    <3>2. sm'[n] = IF m = n THEN RemoveFrom(sm[n], r) ELSE sm[n]
      BY <2>1, <2>4
    <3> QED
      BY <2>1, <2>4, <3>1, <3>2, RemoveContained
  <2>5. ASSUME NEW p \in Entry,
               versions' = Append(versions, ApplyRequest(versions[Len(versions)], p.req)),
               UNCHANGED <<sm, applied>>
        PROVE  ContainedIn(sm'[n], versions'[applied'[n] + 1])
    BY <2>1, <2>5, CommitKeepsVersions
  <2> QED
    BY <2>2, <2>3, <2>4, <2>5, DataSteps
<1>3. IInv => NothingInvented
  OBVIOUS
<1> QED
  BY <1>1, <1>2, <1>3, PTL DEF Spec

(* When no client removes, a node stays at a version of the log. *)
LEMMA ReplicaNext ==
    ASSUME Requests \cap RemoveRequests = {}
    PROVE  TypeOK /\ VersionsFollow /\ ReplicaIsVersion /\ [Next]_vars => ReplicaIsVersion'
<1> SUFFICES ASSUME TypeOK, VersionsFollow, ReplicaIsVersion, [Next]_vars PROVE ReplicaIsVersion'
  OBVIOUS
<1> SUFFICES ASSUME NEW n \in Nodes
             PROVE  sm'[n] = versions'[applied'[n] + 1]
  BY DEF ReplicaIsVersion
<1>1. sm \in [Nodes -> Data] /\ applied \in [Nodes -> Nat]
      /\ sm[n] = versions[applied[n] + 1]
  BY DEF TypeOK, NodeTypes, ReplicaIsVersion
<1>2. CASE UNCHANGED <<sm, applied, log, versions>>
  BY <1>1, <1>2
<1>3. ASSUME NEW m \in Nodes, applied[m] < received[m],
             applied' = [applied EXCEPT ![m] = applied[m] + 1],
             sm' = [sm EXCEPT ![m] = ApplyRequest(sm[m], log[applied[m] + 1].req)],
             UNCHANGED <<log, versions>>
      PROVE  sm'[n] = versions'[applied'[n] + 1]
  <2>1. CASE m = n
    <3>1. sm'[n] = ApplyRequest(sm[n], log[applied[n] + 1].req) /\ applied'[n] = applied[n] + 1
      BY <1>1, <1>3, <2>1
    <3>2. versions[(applied[n] + 1) + 1]
              = ApplyRequest(versions[applied[n] + 1], log[applied[n] + 1].req)
      BY <1>3, <2>1, ApplyNextVersion
    <3> QED
      BY <1>1, <1>3, <3>1, <3>2
  <2>2. CASE m # n
    BY <1>1, <1>3, <2>2
  <2> QED
    BY <2>1, <2>2
<1>4. ASSUME NEW p \in Entry,
             versions' = Append(versions, ApplyRequest(versions[Len(versions)], p.req)),
             UNCHANGED <<sm, applied>>
      PROVE  sm'[n] = versions'[applied'[n] + 1]
  BY <1>1, <1>4, CommitKeepsVersions
<1> QED
  BY <1>2, <1>3, <1>4, DataSteps

(* When no client removes, the nodes agree: apply alone takes every state
   machine through the same versions, whatever leaders come and go. *)
THEOREM NodesAgree ==
    ASSUME Requests \cap RemoveRequests = {}
    PROVE  Spec => []ReplicasAgree
<1> DEFINE IInv == TypeOK /\ CommittedSurvive /\ VersionsFollow /\ ReplicaIsVersion
<1>1. Init => IInv
  <2> SUFFICES ASSUME Init PROVE IInv
    OBVIOUS
  <2>1. VersionsFollow /\ ReplicaIsVersion
    BY DEF Init, VersionsFollow, ReplicaIsVersion
  <2> QED
    BY InitTypes, <2>1
<1>2. IInv /\ [Next]_vars => IInv'
  BY NextTypes, VersionsNext, ReplicaNext
<1>3. IInv => ReplicasAgree
  BY DEF ReplicaIsVersion, ReplicasAgree
<1> QED
  BY <1>1, <1>2, <1>3, PTL DEF Spec
=============================================================================
