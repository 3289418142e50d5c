----------------------------- MODULE ReadProofs -----------------------------
(***************************************************************************)
(* What the reads of ReplicatedStore start from: a read that the leader    *)
(* has confirmed sees at least the log as it was when it was called.       *)
(***************************************************************************)
EXTENDS RequestProofs

(* A main_loop awaits something for a request that was issued. *)
AwaitsKnown == \A n \in Nodes : main[n].pc # "idle" => Known(main[n].msg.id, main[n].msg.req)

(* Confirmed reads start from what was committed when they were called. *)
ReadsRecent ==
    /\ \A c \in Clients : call[c].start <= Len(log)
    /\ \A c \in Clients :
          call[c].pc = "local" /\ NeedsConfirmation(Req(c).consistency)
              => call[c].start <= call[c].readIndex
    /\ \A n \in Nodes :
          main[n].pc = "reading" /\ call[main[n].msg.client].id = main[n].msg.id
              => call[main[n].msg.client].start <= main[n].readIndex

(* A step that gives main_loop nothing new to await, and lets no client read
   that could not before, keeps reads recent. *)
LEMMA NoReadBegins ==
    ASSUME TypeOK, AwaitsKnown, ReadsRecent, UNCHANGED issued,
           Len(log') \in Nat, Len(log) <= Len(log'),
           \A n \in Nodes : main'[n] \in {main[n], Idle},
           \A c \in Clients :
              \/ call'[c] = NoCall
              \/ /\ call'[c].id = call[c].id /\ call'[c].start = call[c].start
                 /\ call'[c].readIndex = call[c].readIndex
                 /\ call'[c].pc # "local" \/ call[c].pc = "local"
                       \/ ~NeedsConfirmation(Req(c).consistency)
    PROVE  AwaitsKnown' /\ ReadsRecent'
<1>1. AwaitsKnown'
  BY DEF AwaitsKnown, Known, Idle
<1>2. /\ call \in [Clients -> CallRecord] /\ Len(log) \in Nat
      /\ \A n \in Nodes : main[n].pc = "reading" =>
            main[n].readIndex \in Nat /\ main[n].msg.client \in Clients
  BY DEF TypeOK, CallTypes, RaftTypes, NodeTypes, Idle, Awaiting, Message
<1>3. NoCall.start = 0 /\ NoCall.pc = "idle"
  BY DEF NoCall
<1>4. ASSUME NEW c \in Clients PROVE call'[c].start <= Len(log')
  BY <1>2, <1>3 DEF ReadsRecent, CallRecord
<1>5. ASSUME NEW c \in Clients, call'[c].pc = "local", NeedsConfirmation(Req(c).consistency)'
      PROVE  call'[c].start <= call'[c].readIndex
  BY <1>3, <1>5 DEF ReadsRecent, Req, NeedsConfirmation
<1>6. ASSUME NEW n \in Nodes, main'[n].pc = "reading",
             call'[main'[n].msg.client].id = main'[n].msg.id
      PROVE  call'[main'[n].msg.client].start <= main'[n].readIndex
  <2>1. main'[n] = main[n]
    BY <1>6 DEF Idle
  <2> QED
    BY <1>2, <1>3, <1>6, <2>1 DEF ReadsRecent
<1> QED
  BY <1>1, <1>4, <1>5, <1>6 DEF ReadsRecent

(* A reply begins no read. *)
LEMMA ReplyReads ==
    ASSUME TypeOK, AwaitsKnown, ReadsRecent, UNCHANGED <<issued, log>>,
           \A n \in Nodes : main'[n] \in {main[n], Idle},
           NEW m \in Message, NEW reply, Deliver(m, reply)
    PROVE  AwaitsKnown' /\ ReadsRecent'
<1>1. ASSUME NEW c \in Clients
      PROVE  /\ call'[c].id = call[c].id /\ call'[c].start = call[c].start
             /\ call'[c].readIndex = call[c].readIndex
             /\ call'[c].pc # "local" \/ call[c].pc = "local"
  <2>1. call'[c] # call[c] => call'[c].pc = "replied"
    BY Delivered
  <2> QED
    BY <2>1, Delivered
<1>2. Len(log) \in Nat
  BY DEF TypeOK, RaftTypes
<1> QED
  BY <1>1, <1>2, NoReadBegins

(* The steps of clients keep reads recent.  Confirmation comes from a leader,
   which has all that was committed before. *)
LEMMA ClientReads ==
    ASSUME TypeOK, CommittedSurvive, OneEntry, AwaitsKnown, ReadsRecent, NEW c \in Clients,
           ClientStep(c) \/ ConnectionLost(c) \/ \E r \in Requests : Call(c, r)
    PROVE  AwaitsKnown' /\ ReadsRecent'
<1>h. Home[c] \in Nodes /\ call \in [Clients -> CallRecord] /\ Len(log) \in Nat
  BY StoreAssumption DEF TypeOK, CallTypes, RaftTypes
<1>n. ASSUME UNCHANGED <<issued, log, main>>,
             call'[c].id = call[c].id, call'[c].start = call[c].start,
             call'[c].readIndex = call[c].readIndex,
             call'[c].pc # "local" \/ ~NeedsConfirmation(Req(c).consistency),
             \A d \in Clients \ {c} : call'[d] = call[d]
      PROVE  AwaitsKnown' /\ ReadsRecent'
  BY <1>n, <1>h, NoReadBegins
<1>f. ASSUME UNCHANGED <<issued, log, main>>, NEW result, Finish(c, result)
      PROVE  AwaitsKnown' /\ ReadsRecent'
  <2>1. /\ call'[c].id = call[c].id /\ call'[c].start = call[c].start
        /\ call'[c].readIndex = call[c].readIndex /\ call'[c].pc = "done"
        /\ \A d \in Clients \ {c} : call'[d] = call[d]
    BY <1>f, <1>h DEF Finish, CallRecord
  <2> QED
    BY <1>f, <1>n, <2>1
<1>g. ASSUME UNCHANGED <<issued, log, main>>, NEW pc, Goto(c, pc),
             pc # "local" \/ ~NeedsConfirmation(Req(c).consistency)
      PROVE  AwaitsKnown' /\ ReadsRecent'
  <2>1. /\ call'[c].id = call[c].id /\ call'[c].start = call[c].start
        /\ call'[c].readIndex = call[c].readIndex /\ call'[c].pc = pc
        /\ \A d \in Clients \ {c} : call'[d] = call[d]
    BY <1>g, <1>h DEF Goto, CallRecord
  <2> QED
    BY <1>g, <1>n, <2>1
<1>1. ASSUME NEW r \in Requests, Call(c, r) PROVE AwaitsKnown' /\ ReadsRecent'
  <2>1. /\ call'[c].start = Len(log) /\ call'[c].id = Len(issued) + 1 /\ call'[c].pc = FirstStep(r)
        /\ \A d \in Clients \ {c} : call'[d] = call[d]
        /\ issued' = Append(issued, r) /\ UNCHANGED <<log, main>>
    BY <1>1, <1>h DEF Call, raftVars, nodeVars
  <2>2. /\ Len(issued) \in Nat /\ Len(issued') = Len(issued) + 1 /\ issued'[Len(issued) + 1] = r
        /\ \A i \in 1..Len(issued) : issued'[i] = issued[i]
    BY <2>1 DEF TypeOK, CallTypes
  <2>3. AwaitsKnown'
    BY <2>1, <2>2 DEF AwaitsKnown, Known
  <2>4. ASSUME NEW d \in Clients PROVE call'[d].start <= Len(log)
    BY <1>h, <2>1 DEF ReadsRecent
  <2>5. ASSUME NEW d \in Clients, call'[d].pc = "local", NeedsConfirmation(Req(d).consistency)'
        PROVE  call'[d].start <= call'[d].readIndex
    <3>1. CASE d = c
      BY <2>1, <2>2, <2>5, <3>1 DEF FirstStep, NeedsConfirmation, Req
    <3>2. CASE d # c
      <4>1. call'[d] = call[d] /\ call[d].id \in 1..Len(issued)
        BY <2>1, <2>5, <3>2 DEF TypeOK, CallTypes, Active
      <4> QED
        BY <2>2, <2>5, <4>1 DEF ReadsRecent, NeedsConfirmation, Req
    <3> QED
      BY <3>1, <3>2
  <2>6. ASSUME NEW n \in Nodes, main[n].pc = "reading",
               call'[main[n].msg.client].id = main[n].msg.id
        PROVE  call'[main[n].msg.client].start <= main[n].readIndex
    <3>1. main[n].msg.id \in 1..Len(issued) /\ main[n].msg.client \in Clients
      BY <2>6 DEF AwaitsKnown, Known, TypeOK, NodeTypes, Idle, Awaiting, Message
    <3>2. main[n].msg.client # c
      BY <2>1, <2>2, <2>6, <3>1
    <3> QED
      BY <2>1, <2>6, <3>1, <3>2 DEF ReadsRecent
  <2> QED
    BY <2>1, <2>3, <2>4, <2>5, <2>6 DEF ReadsRecent
<1>2. CASE CheckIsLeader(c)
  <2>1. /\ UNCHANGED <<issued, log, main>>
        /\ \/ Goto(c, "connect") \/ Goto(c, "ensure")
           \/ Goto(c, "local") /\ ~NeedsConfirmation(Req(c).consistency)
    BY <1>2 DEF CheckIsLeader, raftVars, nodeVars
  <2> QED
    BY <1>g, <2>1
<1>3. CASE EnsureLocally(c)
  <2>1. UNCHANGED <<issued, log, main>>
    BY <1>3 DEF EnsureLocally, raftVars, nodeVars
  <2>2. CASE /\ LeadershipConfirmed(Home[c])
             /\ call' = [call EXCEPT ![c].pc = "local", ![c].readIndex = received[Home[c]]]
    <3>1. received[Home[c]] = Len(log)
      BY <2>2 DEF LeadershipConfirmed, CommittedSurvive
    <3>2. /\ call'[c].id = call[c].id /\ call'[c].start = call[c].start
          /\ call'[c].readIndex = Len(log)
          /\ \A d \in Clients \ {c} : call'[d] = call[d]
      BY <1>h, <2>2, <3>1 DEF CallRecord
    <3>3. \A d \in Clients : call'[d].start = call[d].start /\ call'[d].id = call[d].id
      BY <3>2
    <3>4. \A n \in Nodes : main[n].pc = "reading" => main[n].msg.client \in Clients
      BY DEF TypeOK, NodeTypes, Idle, Awaiting, Message
    <3>5. \A d \in Clients : Req(d)' = Req(d)
      BY <2>1, <3>3 DEF Req
    <3>6. ReadsRecent'
      BY <2>1, <3>2, <3>3, <3>4, <3>5 DEF ReadsRecent, NeedsConfirmation
    <3> QED
      BY <2>1, <3>6 DEF AwaitsKnown, Known
  <2>3. CASE Goto(c, "connect")
    BY <1>g, <2>1, <2>3
  <2>4. CASE Finish(c, Error)
    BY <1>f, <2>1, <2>4
  <2> QED
    BY <1>3, <2>2, <2>3, <2>4 DEF EnsureLocally
<1>4. CASE ReadLocally(c)
  BY <1>4, <1>f DEF ReadLocally, raftVars, nodeVars
<1>5. CASE SendToLeader(c)
  <2>1. UNCHANGED <<issued, log, main>> /\ (Finish(c, Error) \/ Goto(c, "waiting"))
    BY <1>5 DEF SendToLeader, raftVars
  <2> QED
    BY <1>f, <1>g, <2>1
<1>6. CASE ReceiveReply(c)
  <2>1. UNCHANGED <<issued, log, main>> /\ (Goto(c, "waiting") \/ \E res : Finish(c, res))
    BY <1>6 DEF ReceiveReply, raftVars
  <2> QED
    BY <1>f, <1>g, <2>1
<1>7. CASE ConnectionLost(c)
  BY <1>7, <1>f DEF ConnectionLost, raftVars, nodeVars
<1> QED
  BY <1>1, <1>2, <1>3, <1>4, <1>5, <1>6, <1>7 DEF ClientStep

(* So do those of main_loop and apply. *)
LEMMA MainLoopReads ==
    ASSUME TypeOK, CommittedSurvive, OneEntry, AwaitsKnown, ReadsRecent, NEW n \in Nodes,
           NodeStep(n) \/ Apply(n)
    PROVE  AwaitsKnown' /\ ReadsRecent'
<1> DEFINE m == Head(inbox[n])
<1>h. main \in [Nodes -> {Idle} \cup Awaiting] /\ Len(log) \in Nat
      /\ inbox \in [Nodes -> Seq(Message)]
  BY DEF TypeOK, NodeTypes, RaftTypes
<1>m. main[n].pc \in {"writing", "ensuring", "reading"} => main[n].msg \in Message
  BY <1>h DEF Idle, Awaiting
<1>t. ASSUME Takes(n, m) PROVE m \in Message /\ Known(m.id, m.req)
  BY <1>t, <1>h, TakesType, TakesQueue DEF OneEntry, QueuedUnused
<1>b. ASSUME Takes(n, m), NEW pc \in {"writing", "ensuring"},
             main' = [main EXCEPT ![n] = Busy(pc, m)], UNCHANGED <<issued, log, call>>
      PROVE  AwaitsKnown' /\ ReadsRecent'
  <2>1. main'[n].pc = pc /\ main'[n].msg = m /\ \A x \in Nodes \ {n} : main'[x] = main[x]
    BY <1>b, <1>h DEF Busy
  <2>2. AwaitsKnown'
    BY <1>b, <1>t, <2>1 DEF AwaitsKnown, Known
  <2>3. ReadsRecent'
    BY <1>b, <2>1 DEF ReadsRecent, Req
  <2> QED
    BY <2>2, <2>3
<1>i. ASSUME main' = [main EXCEPT ![n] = Idle] PROVE \A x \in Nodes : main'[x] \in {main[x], Idle}
  BY <1>i, <1>h
<1>1. CASE ServeOtherNode(n)
  BY <1>1, <1>t, ReplyReads DEF ServeOtherNode, raftVars
<1>2. CASE ServeWrite(n)
  <2>1. CASE view[n] = n
    BY <1>2, <1>b, <2>1 DEF ServeWrite
  <2>2. CASE view[n] # n
    BY <1>2, <1>t, <2>2, ReplyReads DEF ServeWrite
  <2> QED
    BY <2>1, <2>2
<1>3. CASE ServeRead(n)
  <2>1. Takes(n, m) /\ UNCHANGED <<issued, log>>
        /\ \/ UNCHANGED call /\ main' = [main EXCEPT ![n] = Busy("ensuring", m)]
           \/ UNCHANGED main /\ \E reply : Deliver(m, reply)
    BY <1>3 DEF ServeRead, raftVars
  <2> QED
    BY <1>b, <1>t, <2>1, ReplyReads
<1>4. CASE FinishEnsure(n)
  <2>1. UNCHANGED <<issued, log>> /\ main[n].msg \in Message /\ main[n].pc = "ensuring"
    BY <1>4, <1>m DEF FinishEnsure, raftVars
  <2>2. CASE /\ LeadershipConfirmed(n) /\ UNCHANGED call
             /\ main' = [main EXCEPT ![n].pc = "reading", ![n].readIndex = received[n]]
    <3>1. received[n] = Len(log)
      BY <2>2 DEF LeadershipConfirmed, CommittedSurvive
    <3>2. main[n] \in Awaiting
      BY <1>h, <2>1 DEF Idle
    <3>3. /\ main'[n].msg = main[n].msg /\ main'[n].readIndex = Len(log)
          /\ \A x \in Nodes \ {n} : main'[x] = main[x]
      BY <1>h, <2>2, <3>1, <3>2 DEF Awaiting
    <3>4. AwaitsKnown'
      BY <2>1, <3>3 DEF AwaitsKnown, Known
    <3>5. main[n].msg.client \in Clients
      BY <2>1 DEF Message
    <3>6. ReadsRecent'
      <4> DEFINE Recent(x) == main[x].pc = "reading" /\ call[main[x].msg.client].id = main[x].msg.id
                                => call[main[x].msg.client].start <= main[x].readIndex
      <4>1. Recent(n)'
        BY <2>2, <3>3, <3>5 DEF ReadsRecent
      <4>2. ASSUME NEW x \in Nodes \ {n} PROVE Recent(x)'
        BY <2>2, <3>3 DEF ReadsRecent
      <4>3. \A x \in Nodes : Recent(x)'
        BY <4>1, <4>2
      <4> QED
        BY <2>1, <2>2, <4>3 DEF ReadsRecent, Req
    <3> QED
      BY <3>4, <3>6
  <2>3. CASE main' = [main EXCEPT ![n] = Idle] /\ Deliver(main[n].msg, Error)
    BY <1>i, <2>1, <2>3, ReplyReads
  <2> QED
    BY <1>4, <2>2, <2>3 DEF FinishEnsure
<1>5. CASE FinishRead(n)
  BY <1>5, <1>i, <1>m, ReplyReads DEF FinishRead, raftVars
<1>6. CASE ServeRemove(n)
  BY <1>6, <1>t, ReplyReads DEF ServeRemove, raftVars
<1>7. CASE Apply(n)
  <2>1. UNCHANGED <<issued, log>>
        /\ \/ /\ main[n].msg \in Message /\ main' = [main EXCEPT ![n] = Idle]
              /\ \E reply : Deliver(main[n].msg, reply)
           \/ UNCHANGED <<call, main>>
    BY <1>7, <1>m DEF Apply, raftVars
  <2>2. CASE UNCHANGED <<call, main>>
    BY <2>1, <2>2 DEF AwaitsKnown, ReadsRecent, Known, Req
  <2> QED
    BY <1>i, <2>1, <2>2, ReplyReads
<1> QED
  BY <1>1, <1>2, <1>3, <1>4, <1>5, <1>6, <1>7 DEF NodeStep

(* And those of openraft and of processes that end. *)
LEMMA RaftReads ==
    ASSUME TypeOK, AwaitsKnown, ReadsRecent, RaftStep
    PROVE  AwaitsKnown' /\ ReadsRecent'
<1>h. Len(log) \in Nat /\ log \in Seq(Entry)
  BY DEF TypeOK, RaftTypes
<1>c. ASSUME UNCHANGED <<issued, main, call>>, Len(log') \in Nat, Len(log) <= Len(log')
      PROVE  AwaitsKnown' /\ ReadsRecent'
  BY <1>c, NoReadBegins
<1>1. CASE \E n \in Nodes : AppendEntries(n) \/ Campaign(n) \/ StepDown(n)
  BY <1>1, <1>h, <1>c DEF AppendEntries, Campaign, StepDown, nodeVars
<1>2. CASE \E n \in Nodes, Q \in Quorums : Elect(n, Q)
  BY <1>2, <1>h, <1>c DEF Elect, nodeVars
<1>3. ASSUME NEW n \in Nodes, Replace(n) PROVE AwaitsKnown' /\ ReadsRecent'
  <2>1. \A x \in Nodes : main'[x] \in {main[x], Idle}
    BY <1>3 DEF Replace, TypeOK, NodeTypes
  <2>2. \A c \in Clients : call'[c] = NoCall \/ call'[c] = call[c]
    BY <1>3 DEF Replace
  <2>3. UNCHANGED <<issued, log>>
    BY <1>3 DEF Replace, raftVars
  <2> QED
    BY <1>h, <2>1, <2>2, <2>3, NoReadBegins
<1>4. ASSUME NEW Q \in Quorums, NEW p \in proposed[leader], Commit(p, Q)
      PROVE  AwaitsKnown' /\ ReadsRecent'
  <2>1. log' = Append(log, p) /\ p \in Entry /\ UNCHANGED <<issued, main, call>>
    BY <1>4 DEF Commit, nodeVars, TypeOK, RaftTypes
  <2> QED
    BY <1>h, <1>c, <2>1
<1> QED
  BY <1>1, <1>2, <1>3, <1>4 DEF RaftStep

(* Every step does. *)
LEMMA NextReads ==
    TypeOK /\ CommittedSurvive /\ OneEntry /\ AwaitsKnown /\ ReadsRecent /\ [Next]_vars
        => AwaitsKnown' /\ ReadsRecent'
<1> SUFFICES ASSUME TypeOK, CommittedSurvive, OneEntry, AwaitsKnown, ReadsRecent, [Next]_vars
             PROVE  AwaitsKnown' /\ ReadsRecent'
  OBVIOUS
<1>1. CASE UNCHANGED vars
  BY <1>1 DEF vars, raftVars, nodeVars, AwaitsKnown, ReadsRecent, Known, Req
<1>2. CASE Next
  BY <1>2, NextSplit, ClientReads, MainLoopReads, RaftReads
<1> QED
  BY <1>1, <1>2
=============================================================================
