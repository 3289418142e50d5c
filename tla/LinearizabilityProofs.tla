----------------------- MODULE LinearizabilityProofs -----------------------
(***************************************************************************)
(* The nodes of ReplicatedStore together implement one linearizable store. *)
(***************************************************************************)
EXTENDS ReadProofs, StoreRefinement

(* A reply that reports success is one that the abstract store may give. *)
RepliesRight ==
    \A c \in Clients :
        call[c].pc = "replied" /\ call[c].result.tag = "Ok" => call[c].result.body \in Store!Answers(c)

-----------------------------------------------------------------------------
(* The answers of the abstract store *)

(* A read may be answered from a version that is recent enough for it. *)
LEMMA ReadAnswer ==
    ASSUME NEW c \in Clients, Req(c) \in ReadRequests, Len(log) \in Nat, call[c].start \in Nat,
           NEW i \in 0..Len(log),
           NeedsConfirmation(Req(c).consistency) => call[c].start <= i
    PROVE  ReadResponse(versions[i + 1], Req(c)) \in Store!Answers(c)
<1>1. /\ AbstractCall[c].id = call[c].id /\ AbstractCall[c].start = call[c].start
  BY DEF AbstractCall
<1>2. Req(c) \in Store!ReadRequests
  BY DEF Store!ReadRequests, ReadRequests, Store!ReadConsistency, ReadConsistency
<1>3. i \in Store!Readable(Req(c), call[c].start)
  BY DEF Store!Readable, NeedsConfirmation
<1>4. Store!ReadResponse(versions[i + 1], Req(c)) \in Store!Answers(c)
  BY <1>1, <1>2, <1>3 DEF Store!Answers, Req
<1>5. Store!ReadResponse(versions[i + 1], Req(c)) = ReadResponse(versions[i + 1], Req(c))
  BY DEF Store!ReadResponse, ReadResponse
<1> QED
  BY <1>4, <1>5

(* A write is answered from the version before its entry. *)
LEMMA WriteAnswer ==
    ASSUME NEW c \in Clients, Req(c) \in LogRequests, NEW i \in 1..Len(log), log \in Seq(Entry),
           log[i].id = call[c].id
    PROVE  ApplyResponse(versions[i], Req(c)) \in Store!Answers(c)
<1>1. AbstractCall[c].id = call[c].id
  BY DEF AbstractCall
<1>2. Req(c) \notin Store!ReadRequests
  BY DEF Store!ReadRequests, LogRequests
<1>3. i \in {j \in DOMAIN log : log[j].id = AbstractCall[c].id}
  BY <1>1
<1>4. Store!ApplyResponse(versions[i], Req(c)) \in Store!Answers(c)
  BY <1>1, <1>2, <1>3 DEF Store!Answers, Req
<1>5. Store!ApplyResponse(versions[i], Req(c)) = ApplyResponse(versions[i], Req(c))
  BY DEF Store!ApplyResponse, ApplyResponse
<1> QED
  BY <1>4, <1>5

(* What the abstract store may answer, it may still answer later. *)
LEMMA AnswersKept ==
    ASSUME NEW c \in Clients, log \in Seq(Entry), log' \in Seq(Entry), Len(log) <= Len(log'),
           call[c].start \in Nat,
           \A i \in 1..Len(log) : log'[i] = log[i],
           \A i \in 1..Len(log) + 1 : versions'[i] = versions[i],
           call'[c].id = call[c].id, call'[c].start = call[c].start,
           issued'[call[c].id] = issued[call[c].id]
    PROVE  Store!Answers(c) \subseteq Store!Answers(c)'
<1>1. /\ AbstractCall[c].id = call[c].id /\ AbstractCall'[c].id = call[c].id
      /\ AbstractCall[c].start = call[c].start /\ AbstractCall'[c].start = call[c].start
  BY DEF AbstractCall
<1> DEFINE r == issued[call[c].id]
<1>2. CASE r \in Store!ReadRequests
  <2> DEFINE first == IF r.consistency \in {"LeaseRead", "ReadIndex"} THEN call[c].start ELSE 0
  <2>1. Store!Answers(c)
           = {Store!ReadResponse(versions[i + 1], r) : i \in first..Len(log)}
    BY <1>1, <1>2 DEF Store!Answers, Store!Readable
  <2>2. Store!Answers(c)'
           = {Store!ReadResponse(versions'[i + 1], r) : i \in first..Len(log')}
    BY <1>1, <1>2 DEF Store!Answers, Store!Readable
  <2>3. \A i \in first..Len(log) : i \in first..Len(log') /\ versions'[i + 1] = versions[i + 1]
    BY DEF first
  <2> HIDE DEF first, r
  <2> QED
    BY <2>1, <2>2, <2>3
<1>3. CASE r \notin Store!ReadRequests
  <2> DEFINE I == {j \in DOMAIN log : log[j].id = call[c].id}
  <2>1. Store!Answers(c) = {Store!ApplyResponse(versions[i], r) : i \in I}
    BY <1>1, <1>3 DEF Store!Answers
  <2>2. Store!Answers(c)' = {Store!ApplyResponse(versions'[i], r) :
                               i \in {j \in DOMAIN log' : log'[j].id = call[c].id}}
    BY <1>1, <1>3 DEF Store!Answers
  <2>3. I \subseteq {j \in DOMAIN log' : log'[j].id = call[c].id}
        /\ \A i \in I : versions'[i] = versions[i]
    OBVIOUS
  <2> QED
    BY <2>1, <2>2, <2>3
<1> QED
  BY <1>2, <1>3

(* Replies after a step that the abstract store may give before it. *)
NewRepliesRight ==
    \A c \in Clients : call'[c].pc = "replied" /\ call'[c].result.tag = "Ok" =>
        /\ Active(c) /\ call'[c].id = call[c].id /\ call'[c].start = call[c].start
        /\ call'[c].result.body \in Store!Answers(c)

(* They are right after it, too: log, versions and requests are only added to. *)
LEMMA RepliesStayRight ==
    ASSUME TypeOK, TypeOK', [Next]_vars, NewRepliesRight
    PROVE  RepliesRight'
<1>1. log \in Seq(Entry) /\ log' \in Seq(Entry) /\ versions \in Seq(Data)
      /\ Len(versions) = Len(log) + 1 /\ issued \in Seq(Requests)
  BY DEF TypeOK, RaftTypes, CallTypes
<1>2. /\ Len(log) <= Len(log')
      /\ \A i \in 1..Len(log) : log'[i] = log[i]
      /\ \A i \in 1..Len(log) + 1 : versions'[i] = versions[i]
  <2>1. CASE UNCHANGED <<log, versions>>
    BY <1>1, <2>1
  <2>2. CASE \E p \in Entry : log' = Append(log, p) /\ \E v : versions' = Append(versions, v)
    BY <1>1, <2>2
  <2> QED
    BY <2>1, <2>2, DataSteps
<1>3. issued' = issued \/ \E r \in Requests : issued' = Append(issued, r)
  <2>1. ASSUME \E c \in Clients : ClientStep(c) \/ ConnectionLost(c) PROVE issued' = issued
    BY <2>1 DEF ClientStep, ConnectionLost, CheckIsLeader, EnsureLocally, ReadLocally,
                SendToLeader, ReceiveReply
  <2>2. ASSUME \E n \in Nodes : NodeStep(n) \/ Apply(n) PROVE issued' = issued
    BY <2>2 DEF NodeStep, ServeOtherNode, ServeWrite, ServeRead, FinishEnsure, FinishRead,
                ServeRemove, Apply
  <2>3. ASSUME RaftStep PROVE issued' = issued
    BY <2>3 DEF RaftStep, AppendEntries, Campaign, StepDown, Replace, Elect, Commit
  <2>4. ASSUME NEW c \in Clients, NEW r \in Requests, Call(c, r) PROVE issued' = Append(issued, r)
    BY <2>4 DEF Call
  <2>5. CASE UNCHANGED vars
    BY <2>5 DEF vars
  <2> QED
    BY <2>1, <2>2, <2>3, <2>4, <2>5, NextSplit
<1>4. \A i \in 1..Len(issued) : issued'[i] = issued[i]
  BY <1>1, <1>3
<1> SUFFICES ASSUME NEW c \in Clients, call'[c].pc = "replied", call'[c].result.tag = "Ok"
             PROVE  call'[c].result.body \in Store!Answers(c)'
  BY DEF RepliesRight
<1>5. /\ Active(c) /\ call'[c].id = call[c].id /\ call'[c].start = call[c].start
      /\ call'[c].result.body \in Store!Answers(c)
  BY DEF NewRepliesRight
<1>6. call[c].id \in 1..Len(issued) /\ call[c].start \in Nat
  BY <1>5 DEF TypeOK, CallTypes, CallRecord
<1> QED
  BY <1>1, <1>2, <1>4, <1>5, <1>6, AnswersKept

(* A reply is right when it is right for the call that gets it. *)
LEMMA DeliveredRight ==
    ASSUME TypeOK, RepliesRight, NEW m \in Message, NEW reply, Deliver(m, reply),
           reply.tag = "Ok" /\ Active(m.client) /\ call[m.client].id = m.id
               => reply.body \in Store!Answers(m.client)
    PROVE  NewRepliesRight
<1> SUFFICES ASSUME NEW c \in Clients, call'[c].pc = "replied", call'[c].result.tag = "Ok"
             PROVE  /\ Active(c) /\ call'[c].id = call[c].id /\ call'[c].start = call[c].start
                    /\ call'[c].result.body \in Store!Answers(c)
  BY DEF NewRepliesRight
<1>1. CASE call'[c] = call[c]
  BY <1>1 DEF RepliesRight, Active
<1>2. CASE call'[c] # call[c]
  <2>1. /\ c = m.client /\ call[c].pc = "waiting" /\ call[c].id = m.id /\ call'[c].result = reply
        /\ call'[c].id = call[c].id /\ call'[c].start = call[c].start
    BY <1>2, Delivered
  <2> QED
    BY <2>1 DEF Active
<1> QED
  BY <1>1, <1>2

(* What a node reads from its state machine is right for the call. *)
LEMMA StateMachineRight ==
    ASSUME TypeOK, ReplicaIsVersion, ReadsRecent, NEW n \in Nodes, NEW c \in Clients,
           Req(c) \in ReadRequests,
           NeedsConfirmation(Req(c).consistency) => call[c].start <= applied[n]
    PROVE  ReadResponse(sm[n], Req(c)) \in Store!Answers(c)
<1>1. applied[n] \in 0..Len(log) /\ Len(log) \in Nat /\ call[c].start \in Nat
  BY DEF TypeOK, RaftTypes, NodeTypes, CallTypes, CallRecord
<1>2. sm[n] = versions[applied[n] + 1]
  BY DEF ReplicaIsVersion
<1> QED
  BY <1>1, <1>2, ReadAnswer

(* No step of main_loop or apply sends a wrong reply. *)
LEMMA MainLoopReplies ==
    ASSUME Requests \cap RemoveRequests = {}, TypeOK, ReplicaIsVersion, OneEntry, AwaitsKnown,
           ReadsRecent, RepliesRight, NEW n \in Nodes, NodeStep(n) \/ Apply(n)
    PROVE  NewRepliesRight
<1> DEFINE m == Head(inbox[n])
<1>h. inbox \in [Nodes -> Seq(Message)] /\ applied[n] \in Nat
  BY DEF TypeOK, NodeTypes
<1>m. main[n].pc \in {"writing", "ensuring", "reading"} =>
        /\ main[n].msg \in Message /\ main[n].readIndex \in Nat
        /\ Known(main[n].msg.id, main[n].msg.req)
  BY DEF TypeOK, NodeTypes, Idle, Awaiting, AwaitsKnown
<1>t. ASSUME Takes(n, m) PROVE m \in Message /\ Known(m.id, m.req)
  BY <1>t, <1>h, TakesType, TakesQueue DEF OneEntry, QueuedUnused
<1>k. ASSUME NEW x \in Message, Known(x.id, x.req), call[x.client].id = x.id
      PROVE  x.client \in Clients /\ Req(x.client) = x.req
  BY <1>k DEF Message, Known, Req
<1>u. ASSUME UNCHANGED call PROVE NewRepliesRight
  BY <1>u DEF NewRepliesRight, RepliesRight, Active
<1>e. Error.tag # "Ok" /\ \A l : ForwardToLeader(l).tag # "Ok"
  BY DEF Error, ForwardToLeader
<1>o. \A r, v : Ok(r, v).body = v
  BY DEF Ok
<1>1. CASE ServeOtherNode(n)
  BY <1>1, <1>t, <1>e, DeliveredRight DEF ServeOtherNode
<1>2. CASE ServeWrite(n)
  <2>1. Takes(n, m) /\ (UNCHANGED call \/ Deliver(m, ForwardToLeader(view[n])))
    BY <1>2 DEF ServeWrite
  <2> QED
    BY <1>u, <1>t, <1>e, <2>1, DeliveredRight
<1>3. CASE ServeRead(n)
  <2>1. /\ Takes(n, m) /\ m.req \in ReadRequests
        /\ \/ UNCHANGED call \/ Deliver(m, Error)
           \/ /\ ~NeedsConfirmation(m.req.consistency)
              /\ Deliver(m, Ok(m.req, ReadResponse(sm[n], m.req)))
    BY <1>3 DEF ServeRead
  <2>2. m \in Message /\ Known(m.id, m.req)
    BY <1>t, <2>1
  <2>3. CASE UNCHANGED call \/ Deliver(m, Error)
    BY <1>u, <1>e, <2>2, <2>3, DeliveredRight
  <2>4. CASE /\ ~NeedsConfirmation(m.req.consistency)
             /\ Deliver(m, Ok(m.req, ReadResponse(sm[n], m.req)))
    <3>1. ASSUME call[m.client].id = m.id
          PROVE  ReadResponse(sm[n], m.req) \in Store!Answers(m.client)
      BY <1>k, <2>1, <2>2, <2>4, <3>1, StateMachineRight
    <3> QED
      BY <1>o, <2>2, <2>4, <3>1, DeliveredRight
  <2> QED
    BY <2>1, <2>3, <2>4
<1>4. CASE FinishEnsure(n)
  <2>1. main[n].msg \in Message /\ (UNCHANGED call \/ Deliver(main[n].msg, Error))
    BY <1>4, <1>m DEF FinishEnsure
  <2> QED
    BY <1>u, <1>e, <2>1, DeliveredRight
<1>5. CASE FinishRead(n)
  <2> DEFINE x == main[n].msg
  <2>1. /\ x \in Message /\ Known(x.id, x.req) /\ main[n].pc = "reading" /\ main[n].readIndex \in Nat
        /\ main[n].readIndex <= applied[n] /\ x.req \in ReadRequests
        /\ Deliver(x, Ok(x.req, ReadResponse(sm[n], x.req)))
    BY <1>5, <1>m DEF FinishRead, TypeOK, NodeTypes
  <2>2. ASSUME call[x.client].id = x.id
        PROVE  ReadResponse(sm[n], x.req) \in Store!Answers(x.client)
    <3>1. x.client \in Clients /\ Req(x.client) = x.req
      BY <1>k, <2>1, <2>2
    <3>2. call[x.client].start <= main[n].readIndex
      BY <2>1, <2>2 DEF ReadsRecent
    <3>3. call[x.client].start \in Nat
      BY <3>1 DEF TypeOK, CallTypes, CallRecord
    <3>4. call[x.client].start <= applied[n]
      BY <1>h, <2>1, <3>2, <3>3
    <3> QED
      BY <2>1, <3>1, <3>4, StateMachineRight
  <2> QED
    BY <1>o, <2>1, <2>2, DeliveredRight
<1>6. CASE ServeRemove(n)
  <2>1. Takes(n, m) /\ m.req \in RemoveRequests
    BY <1>6 DEF ServeRemove
  <2>2. m.req \in Requests
    BY <1>t, <2>1 DEF Message
  <2> QED
    BY <2>1, <2>2
<1>7. CASE Apply(n)
  <2> DEFINE e == log[applied[n] + 1]
             x == main[n].msg
  <2>1. CASE UNCHANGED call
    BY <1>u, <2>1
  <2>2. CASE /\ main[n].pc = "writing" /\ x.id = e.id
             /\ Deliver(x, Ok(e.req, ApplyResponse(sm[n], e.req)))
    <3>0. applied[n] + 1 \in 1..Len(log) /\ log \in Seq(Entry)
      <4>1. applied[n] < received[n]
        BY <1>7 DEF Apply
      <4> QED
        BY <4>1 DEF TypeOK, RaftTypes, NodeTypes
    <3>1. e.req \in LogRequests /\ Known(e.id, e.req)
      <4>1. e \in Entry
        BY <3>0
      <4>2. Known(e.id, e.req)
        BY <3>0 DEF OneEntry, EntriesKnown
      <4> QED
        BY <4>1, <4>2 DEF Entry
    <3>2. sm[n] = versions[applied[n] + 1] /\ x \in Message
      BY <1>m, <2>2 DEF ReplicaIsVersion
    <3>3. ASSUME call[x.client].id = x.id
          PROVE  ApplyResponse(sm[n], e.req) \in Store!Answers(x.client)
      <4>1. x.client \in Clients /\ Req(x.client) = e.req
        BY <2>2, <3>1, <3>2, <3>3 DEF Known, Req, Message
      <4> QED
        BY <2>2, <3>0, <3>1, <3>2, <3>3, <4>1, WriteAnswer
    <3> HIDE DEF e, x
    <3> QED
      BY <1>o, <2>2, <3>2, <3>3, DeliveredRight
  <2> QED
    BY <1>7, <2>1, <2>2 DEF Apply, NextEntry
<1> QED
  BY <1>1, <1>2, <1>3, <1>4, <1>5, <1>6, <1>7 DEF NodeStep

(* The inductive invariant behind linearizability. *)
LinInv ==
    /\ TypeOK /\ CommittedSurvive /\ VersionsFollow /\ ReplicaIsVersion
    /\ OneEntry /\ AwaitsKnown /\ ReadsRecent /\ RepliesRight

(* No step produces a wrong reply: clients only use replies up, openraft
   does not touch them. *)
LEMMA NewReplies ==
    ASSUME Requests \cap RemoveRequests = {}, LinInv, [Next]_vars
    PROVE  NewRepliesRight
<1>n. ASSUME \A c \in Clients : call'[c] = call[c] \/ call'[c].pc # "replied"
      PROVE  NewRepliesRight
  BY <1>n DEF LinInv, RepliesRight, NewRepliesRight, Active
<1>1. CASE UNCHANGED vars
  BY <1>1, <1>n DEF vars
<1>2. ASSUME NEW c \in Clients,
             ClientStep(c) \/ ConnectionLost(c) \/ \E r \in Requests : Call(c, r)
      PROVE  NewRepliesRight
  <2>1. call \in [Clients -> CallRecord]
    BY DEF LinInv, TypeOK, CallTypes
  <2>2. ASSUME NEW r, FirstStep(r) = "replied" PROVE FALSE
    BY <2>2 DEF FirstStep
  <2>3. \A d \in Clients : call'[d] = call[d] \/ call'[d].pc # "replied"
    BY <1>2, <2>1, <2>2 DEF ClientStep, ConnectionLost, Call, CheckIsLeader, EnsureLocally,
          ReadLocally, SendToLeader, ReceiveReply, Goto, Finish, CallRecord
  <2> QED
    BY <1>n, <2>3
<1>3. CASE \E n \in Nodes : NodeStep(n) \/ Apply(n)
  BY <1>3, MainLoopReplies DEF LinInv
<1>4. CASE RaftStep
  <2>1. \A c \in Clients : call'[c] = call[c] \/ call'[c] = NoCall
    BY <1>4 DEF RaftStep, AppendEntries, Campaign, StepDown, Replace, Elect, Commit
  <2> QED
    BY <1>n, <2>1 DEF NoCall
<1> QED
  BY <1>1, <1>2, <1>3, <1>4, NextSplit

(* The invariant holds initially and is preserved by every step. *)
LEMMA LinInvHolds ==
    ASSUME Requests \cap RemoveRequests = {}
    PROVE  Spec => []LinInv
<1>1. Init => LinInv
  <2> SUFFICES ASSUME Init PROVE LinInv
    OBVIOUS
  <2>1. VersionsFollow /\ ReplicaIsVersion
    BY DEF Init, VersionsFollow, ReplicaIsVersion
  <2>2. AwaitsKnown /\ RepliesRight
    BY DEF Init, AwaitsKnown, RepliesRight, Idle, NoCall
  <2>3. ReadsRecent
    BY DEF Init, ReadsRecent, Idle, NoCall
  <2> QED
    BY <2>1, <2>2, <2>3, InitTypes, InitOneEntry DEF LinInv
<1>2. LinInv /\ [Next]_vars => LinInv'
  <2> SUFFICES ASSUME LinInv, [Next]_vars PROVE LinInv'
    OBVIOUS
  <2>1. TypeOK' /\ CommittedSurvive' /\ VersionsFollow' /\ ReplicaIsVersion'
    BY NextTypes, VersionsNext, ReplicaNext DEF LinInv
  <2>2. OneEntry' /\ AwaitsKnown' /\ ReadsRecent'
    BY NextOneEntry, NextReads DEF LinInv
  <2>3. RepliesRight'
    BY <2>1, NewReplies, RepliesStayRight DEF LinInv
  <2> QED
    BY <2>1, <2>2, <2>3 DEF LinInv
<1> QED
  BY <1>1, <1>2, PTL DEF Spec

-----------------------------------------------------------------------------
(* Refinement *)

(* Steps that neither call, return nor commit are invisible. *)
LEMMA Invisible ==
    ASSUME UNCHANGED <<issued, log, versions>>,
           \A c \in Clients :
              \/ call'[c] = call[c]
              \/ /\ Active(c) /\ Active(c)'
                 /\ call'[c].id = call[c].id /\ call'[c].start = call[c].start
    PROVE  UNCHANGED Store!vars
<1>1. AbstractCall' = AbstractCall
  BY DEF AbstractCall, Active
<1> QED
  BY <1>1 DEF Store!vars

(* The end of a call is a return of the abstract store. *)
LEMMA CallReturns ==
    ASSUME TypeOK, NEW c \in Clients, Active(c), NEW result, Finish(c, result),
           UNCHANGED <<issued, log, versions>>,
           \/ result = Error
           \/ result.tag = "Ok" /\ result.body \in Store!Answers(c)
    PROVE  Store!Next
<1>1. call \in [Clients -> CallRecord]
  BY DEF TypeOK, CallTypes
<1>2. /\ call'[c].pc = "done" /\ call'[c].result = result
      /\ call'[c].id = call[c].id /\ call'[c].start = call[c].start
      /\ \A d \in Clients \ {c} : call'[d] = call[d]
  BY <1>1 DEF Finish, CallRecord
<1> DEFINE res == [tag |-> result.tag, body |-> result.body]
<1>3. AbstractCall' = [AbstractCall EXCEPT ![c].pc = "done", ![c].result = res]
  <2> DEFINE done == [pc |-> "done", id |-> call[c].id, start |-> call[c].start, result |-> res]
  <2>1. AbstractCall'[c] = done
    BY <1>2 DEF AbstractCall, Active
  <2>2. [AbstractCall[c] EXCEPT !.pc = "done", !.result = res] = done
    <3>1. AbstractCall[c] = [pc |-> "pending", id |-> call[c].id, start |-> call[c].start,
                             result |-> Store!Error]
      BY DEF AbstractCall, Store!Error
    <3> DEFINE y == [AbstractCall[c] EXCEPT !.pc = "done"]
    <3>2. y = [pc |-> "done", id |-> call[c].id, start |-> call[c].start, result |-> Store!Error]
      BY <3>1
    <3> HIDE DEF res
    <3>3. [AbstractCall[c] EXCEPT !.pc = "done", !.result = res] = [y EXCEPT !.result = res]
      BY <3>1
    <3> HIDE DEF y
    <3>4. [y EXCEPT !.result = res] = done
      BY <3>2
    <3> QED
      BY <3>3, <3>4
  <2>3. \A d \in Clients \ {c} : AbstractCall'[d] = AbstractCall[d]
    BY <1>2 DEF AbstractCall, Active
  <2>4. AbstractCall = [d \in Clients |-> AbstractCall[d]]
        /\ AbstractCall' = [d \in Clients |-> AbstractCall'[d]]
    BY DEF AbstractCall
  <2> HIDE DEF done, res
  <2> QED
    BY <2>1, <2>2, <2>3, <2>4
<1>4. AbstractCall[c].pc = "pending"
  BY DEF AbstractCall
<1>5. res \in {Store!Ok(v) : v \in Store!Answers(c)} \cup {Store!Error}
  BY DEF Store!Ok, Store!Error, Error
<1>6. Store!Return(c)
  BY <1>3, <1>4, <1>5 DEF Store!Return
<1> QED
  BY <1>6 DEF Store!Next

(* A call of the clients is one of the abstract store. *)
LEMMA CallCalls ==
    ASSUME TypeOK, NEW c \in Clients, NEW r \in Requests, Call(c, r)
    PROVE  Store!Next
<1> DEFINE new == [pc |-> "pending", id |-> Len(issued) + 1, start |-> Len(log),
                   result |-> Store!Error]
<1>1. /\ ~Active(c) /\ Active(c)' /\ issued' = Append(issued, r) /\ UNCHANGED <<log, versions>>
      /\ call'[c].id = Len(issued) + 1 /\ call'[c].start = Len(log)
      /\ \A d \in Clients \ {c} : call'[d] = call[d]
  BY DEF Call, Active, FirstStep, raftVars, TypeOK, CallTypes
<1>2. AbstractCall[c].pc # "pending"
  BY <1>1 DEF AbstractCall, Active
<1>3. AbstractCall' = [AbstractCall EXCEPT ![c] = new]
  <2>1. AbstractCall'[c] = new
    BY <1>1 DEF AbstractCall, Store!Error
  <2>2. \A d \in Clients \ {c} : AbstractCall'[d] = AbstractCall[d]
    BY <1>1 DEF AbstractCall, Active
  <2>3. AbstractCall = [d \in Clients |-> AbstractCall[d]]
        /\ AbstractCall' = [d \in Clients |-> AbstractCall'[d]]
    BY DEF AbstractCall
  <2> HIDE DEF new
  <2> QED
    BY <2>1, <2>2, <2>3
<1>4. Store!Call(c, r)
  BY <1>1, <1>2, <1>3 DEF Store!Call
<1> QED
  BY <1>4 DEF Store!Next

(* A committed entry is a write that takes effect. *)
LEMMA CommitTakesEffect ==
    ASSUME LinInv, NEW Q \in Quorums, NEW p \in proposed[leader], Commit(p, Q)
    PROVE  Store!Next
<1>1. /\ log' = Append(log, p)
      /\ versions' = Append(versions, ApplyRequest(versions[Len(versions)], p.req))
      /\ UNCHANGED <<call, issued>>
  BY DEF Commit
<1>2. Known(p.id, p.req) /\ \A i \in 1..Len(log) : log[i].id # p.id
  BY EntryCommitted DEF LinInv
<1>3. p \in Entry /\ log \in Seq(Entry) /\ issued \in Seq(Requests)
  BY DEF LinInv, TypeOK, RaftTypes, CallTypes
<1>4. p = [id |-> p.id, req |-> issued[p.id]] /\ issued[p.id] \in LogRequests
      /\ p.id \in DOMAIN issued
  BY <1>2, <1>3 DEF Entry, Known
<1>5. issued[p.id] \in Store!LogRequests
  BY <1>4 DEF LogRequests, Store!LogRequests
<1>6. Store!ApplyRequest(versions[Len(versions)], p.req) = ApplyRequest(versions[Len(versions)], p.req)
  BY DEF Store!ApplyRequest, ApplyRequest, Store!EmptyMap, EmptyMap
<1>7. AbstractCall' = AbstractCall
  BY <1>1 DEF AbstractCall, Active
<1>8. \A j \in DOMAIN log : log[j].id # p.id
  BY <1>2, <1>3
<1>9. p.req = issued[p.id]
  BY <1>2 DEF Known
<1>10. Store!TakeEffect(p.id)
  BY <1>1, <1>4, <1>5, <1>6, <1>7, <1>8, <1>9 DEF Store!TakeEffect
<1> QED
  BY <1>4, <1>10 DEF Store!Next

(* The calls of a process that ends vanish. *)
LEMMA ReplaceVanishes ==
    ASSUME NEW n \in Nodes, Replace(n)
    PROVE  Store!Next
<1> DEFINE S == {c \in Clients : Home[c] = n}
<1>1. call' = [c \in Clients |-> IF c \in S THEN NoCall ELSE call[c]]
      /\ UNCHANGED <<issued, log, versions>>
  BY DEF Replace, raftVars
<1>2. AbstractCall' = [c \in Clients |-> IF c \in S THEN Store!NoCall ELSE AbstractCall[c]]
  BY <1>1 DEF AbstractCall, Active, NoCall, Error, Store!NoCall, Store!Error
<1>3. Store!Vanish(S)
  BY <1>1, <1>2 DEF Store!Vanish
<1> QED
  BY <1>3 DEF Store!Next

(* The steps of clients map to steps of the abstract store. *)
LEMMA ClientRefines ==
    ASSUME LinInv, NEW c \in Clients,
           ClientStep(c) \/ ConnectionLost(c) \/ \E r \in Requests : Call(c, r)
    PROVE  Store!Next \/ UNCHANGED Store!vars
<1>h. call \in [Clients -> CallRecord] /\ TypeOK /\ Home[c] \in Nodes
  BY StoreAssumption DEF LinInv, TypeOK, CallTypes
<1>g. ASSUME UNCHANGED <<issued, log, versions>>, Active(c),
             NEW pc \in {"ensure", "local", "connect", "waiting"}, Goto(c, pc)
      PROVE  UNCHANGED Store!vars
  <2>1. /\ call'[c].id = call[c].id /\ call'[c].start = call[c].start /\ call'[c].pc = pc
        /\ \A d \in Clients \ {c} : call'[d] = call[d]
    BY <1>g, <1>h DEF Goto, CallRecord
  <2>2. Active(c)'
    BY <1>g, <2>1 DEF Active
  <2> QED
    BY <1>g, <2>1, <2>2, Invisible
<1>f. ASSUME UNCHANGED <<issued, log, versions>>, Active(c), Finish(c, Error)
      PROVE  Store!Next
  BY <1>f, <1>h, CallReturns
<1>1. CASE \E r \in Requests : Call(c, r)
  BY <1>1, <1>h, CallCalls
<1>2. CASE CheckIsLeader(c)
  <2>1. UNCHANGED <<issued, log, versions>> /\ Active(c)
        /\ \E pc \in {"ensure", "local", "connect", "waiting"} : Goto(c, pc)
    BY <1>2 DEF CheckIsLeader, Active, raftVars
  <2> QED
    BY <1>g, <2>1
<1>3. CASE EnsureLocally(c)
  <2>1. UNCHANGED <<issued, log, versions>> /\ Active(c)
    BY <1>3 DEF EnsureLocally, Active, raftVars
  <2>2. CASE call' = [call EXCEPT ![c].pc = "local", ![c].readIndex = received[Home[c]]]
    <3>1. /\ call'[c].id = call[c].id /\ call'[c].start = call[c].start /\ call'[c].pc = "local"
          /\ \A d \in Clients \ {c} : call'[d] = call[d]
      BY <1>h, <2>2 DEF CallRecord
    <3>2. Active(c)'
      BY <3>1 DEF Active
    <3> QED
      BY <2>1, <3>1, <3>2, Invisible
  <2> QED
    BY <1>3, <1>f, <1>g, <2>1, <2>2 DEF EnsureLocally
<1>4. CASE ReadLocally(c)
  <2> DEFINE v == ReadResponse(sm[Home[c]], Req(c))
  <2>1. /\ UNCHANGED <<issued, log, versions>> /\ Active(c) /\ call[c].pc = "local"
        /\ call[c].readIndex <= applied[Home[c]] /\ Finish(c, Ok(Req(c), v))
    BY <1>4 DEF ReadLocally, Active, raftVars
  <2>2. Req(c) \in ReadRequests
    BY <2>1 DEF LinInv, TypeOK, CallTypes
  <2>3. /\ call[c].start \in Nat /\ call[c].readIndex \in Nat /\ applied[Home[c]] \in Nat
    BY <1>h DEF TypeOK, NodeTypes, CallRecord
  <2>4. NeedsConfirmation(Req(c).consistency) => call[c].start <= call[c].readIndex
    BY <2>1 DEF LinInv, ReadsRecent
  <2>5. NeedsConfirmation(Req(c).consistency) => call[c].start <= applied[Home[c]]
    BY <2>1, <2>3, <2>4
  <2>6. v \in Store!Answers(c)
    BY <1>h, <2>2, <2>5, StateMachineRight DEF LinInv
  <2>7. Ok(Req(c), v).tag = "Ok" /\ Ok(Req(c), v).body = v
    BY DEF Ok
  <2> HIDE DEF v
  <2> QED
    BY <1>h, <2>1, <2>6, <2>7, CallReturns
<1>5. CASE SendToLeader(c)
  <2>1. UNCHANGED <<issued, log, versions>> /\ Active(c) /\ (Finish(c, Error) \/ Goto(c, "waiting"))
    BY <1>5 DEF SendToLeader, Active, raftVars
  <2> QED
    BY <1>f, <1>g, <2>1
<1>6. CASE ReceiveReply(c)
  <2>1. UNCHANGED <<issued, log, versions>> /\ Active(c) /\ call[c].pc = "replied"
        /\ \/ Goto(c, "waiting") \/ Finish(c, Error)
           \/ call[c].result.tag = "Ok" /\ Finish(c, call[c].result)
    BY <1>6 DEF ReceiveReply, Active, raftVars
  <2>2. CASE call[c].result.tag = "Ok" /\ Finish(c, call[c].result)
    <3>1. call[c].result.body \in Store!Answers(c)
      BY <2>1, <2>2 DEF LinInv, RepliesRight
    <3> QED
      BY <1>h, <2>1, <2>2, <3>1, CallReturns
  <2> QED
    BY <1>f, <1>g, <2>1, <2>2
<1>7. CASE ConnectionLost(c)
  BY <1>7, <1>f DEF ConnectionLost, Active, raftVars
<1> QED
  BY <1>1, <1>2, <1>3, <1>4, <1>5, <1>6, <1>7 DEF ClientStep

(* Without remove requests, the nodes behave like one linearizable store: in
   every state that can be reached a step is a step of LinearizableStore, or
   one that its callers cannot see. *)
THEOREM StoreIsLinearizable ==
    ASSUME Requests \cap RemoveRequests = {}
    PROVE  Spec => Linearizability
<1>1. Init => Store!Init
  <2> SUFFICES ASSUME Init PROVE Store!Init
    OBVIOUS
  <2>1. AbstractCall = [c \in Clients |-> Store!NoCall]
    BY DEF Init, AbstractCall, Active, NoCall, Error, Store!NoCall, Store!Error
  <2>2. Store!EmptyData = EmptyData
    BY DEF Store!EmptyData, EmptyData, Store!EmptyMap, EmptyMap
  <2> QED
    BY <2>1, <2>2 DEF Init, Store!Init
<1>2. LinInv /\ [Next]_vars => [Store!Next]_(Store!vars)
  <2> SUFFICES ASSUME LinInv, [Next]_vars PROVE Store!Next \/ UNCHANGED Store!vars
    OBVIOUS
  <2>1. CASE UNCHANGED vars
    BY <2>1, Invisible DEF vars, raftVars
  <2>2. ASSUME NEW n \in Nodes, NodeStep(n) \/ Apply(n) PROVE UNCHANGED Store!vars
    <3>1. UNCHANGED <<issued, log, versions>>
      BY <2>2 DEF NodeStep, ServeOtherNode, ServeWrite, ServeRead, FinishEnsure, FinishRead,
                  ServeRemove, Apply, raftVars
    <3>2. inbox \in [Nodes -> Seq(Message)] /\ TypeOK
          /\ (main[n].pc \in {"writing", "ensuring", "reading"} => main[n].msg \in Message)
      BY DEF LinInv, TypeOK, NodeTypes, Idle, Awaiting
    <3>3. UNCHANGED call \/ \E m \in Message : \E reply : Deliver(m, reply)
      BY <2>2, <3>2, TakesType DEF NodeStep, ServeOtherNode, ServeWrite, ServeRead, FinishEnsure,
                                   FinishRead, ServeRemove, Apply
    <3>4. ASSUME NEW m \in Message, NEW reply, Deliver(m, reply) PROVE UNCHANGED Store!vars
      <4>1. ASSUME NEW c \in Clients
            PROVE  \/ call'[c] = call[c]
                   \/ /\ Active(c) /\ Active(c)'
                      /\ call'[c].id = call[c].id /\ call'[c].start = call[c].start
        <5>1. call'[c] # call[c] => call'[c].pc = "replied"
          BY <3>2, <3>4, Delivered
        <5>2. call'[c] # call[c] => Active(c)'
          BY <5>1 DEF Active
        <5> QED
          BY <3>2, <3>4, <5>2, Delivered
      <4> QED
        BY <3>1, <4>1, Invisible
    <3> QED
      BY <3>1, <3>3, <3>4, Invisible
  <2>3. CASE RaftStep
    <3>1. CASE \E n \in Nodes : AppendEntries(n) \/ Campaign(n) \/ StepDown(n)
      BY <3>1, Invisible DEF AppendEntries, Campaign, StepDown
    <3>2. CASE \E n \in Nodes, Q \in Quorums : Elect(n, Q)
      BY <3>2, Invisible DEF Elect
    <3> QED
      BY <2>3, <3>1, <3>2, ReplaceVanishes, CommitTakesEffect DEF RaftStep
  <2> QED
    BY <2>1, <2>2, <2>3, ClientRefines, NextSplit
<1>3. Store!Init /\ [][Store!Next]_(Store!vars) => Linearizability
  BY DEF Linearizability, Store!Spec
<1> QED
  BY <1>1, <1>2, <1>3, LinInvHolds, PTL DEF Spec
=============================================================================
