--------------------------- MODULE RequestProofs ---------------------------
(***************************************************************************)
(* Where the requests of ReplicatedStore are: every one is at its client,  *)
(* in one queue, or proposed, so that a write becomes at most one entry.   *)
(***************************************************************************)
EXTENDS ReplicatedStoreProofs

-----------------------------------------------------------------------------
(* A request is in one place at a time *)

(* A request with this id was issued, and it is r. *)
Known(id, r) == id \in 1..Len(issued) /\ r = issued[id]

(* A write with this id is in the log or on its way there. *)
Used(id) ==
    \/ \E i \in 1..Len(log) : log[i].id = id
    \/ \E n \in Nodes : \E p \in proposed[n] : p.id = id

(* Message m waits for a main_loop. *)
Queued(m) == \E n \in Nodes : \E i \in 1..Len(inbox[n]) : inbox[n][i] = m

(* Client c has not sent its request, or is about to send it again. *)
WillSend(c) ==
    \/ call[c].pc \in {"route", "ensure", "local", "connect"}
    \/ call[c].pc = "replied" /\ call[c].result.tag = "ForwardToLeader"

(* Entries are requests of calls, and what a node has proposed is not among
   the entries it has received. *)
EntriesKnown ==
    /\ \A i \in 1..Len(log) : Known(log[i].id, log[i].req)
    /\ \A n \in Nodes : \A p \in proposed[n] :
          /\ Known(p.id, p.req)
          /\ \A i \in 1..received[n] : log[i].id # p.id

(* A request that waits in a queue has not been proposed. *)
QueuedUnused == \A m : Queued(m) => Known(m.id, m.req) /\ ~Used(m.id)

(* No request waits twice. *)
QueuedOnce ==
    \A x, y \in Nodes : \A i \in 1..Len(inbox[x]), j \in 1..Len(inbox[y]) :
        inbox[x][i].id = inbox[y][j].id => x = y /\ i = j

(* A request that will be sent has not been proposed and waits nowhere. *)
SendsUnused ==
    \A c \in Clients : WillSend(c) =>
        /\ ~Used(call[c].id)
        /\ \A m : Queued(m) => m.id # call[c].id

(* Two clients do not share a call. *)
CallsApart ==
    \A c, d \in Clients : Active(c) /\ Active(d) /\ c # d => call[c].id # call[d].id

(* Every request is in one place, so that a write becomes one entry. *)
OneEntry == EntriesKnown /\ QueuedUnused /\ QueuedOnce /\ SendsUnused /\ CallsApart

-----------------------------------------------------------------------------
(* What happens to the queues *)

(* A message taken off its queue waits nowhere any more. *)
LEMMA TakesQueue ==
    ASSUME TypeOK, QueuedOnce, NEW n \in Nodes, NEW m, Takes(n, m)
    PROVE  /\ Queued(m)
           /\ \A x : Queued(x)' => Queued(x) /\ x.id # m.id
           /\ QueuedOnce'
<1>1. inbox \in [Nodes -> Seq(Message)] /\ inbox[n] # <<>>
      /\ m = inbox[n][1] /\ 1 \in 1..Len(inbox[n])
  BY DEF TypeOK, NodeTypes, Takes
<1>2. inbox' = [inbox EXCEPT ![n] = Tail(inbox[n])]
  BY DEF Takes
<1>3. ASSUME NEW x \in Nodes, NEW i \in 1..Len(inbox'[x])
      PROVE  IF x = n THEN i + 1 \in 2..Len(inbox[x]) /\ inbox'[x][i] = inbox[x][i + 1]
                      ELSE i \in 1..Len(inbox[x]) /\ inbox'[x][i] = inbox[x][i]
  BY <1>1, <1>2
<1>4. Queued(m)
  BY <1>1 DEF Queued
<1>5. ASSUME NEW x, Queued(x)' PROVE Queued(x) /\ x.id # m.id
  <2>1. PICK y \in Nodes : \E i \in 1..Len(inbox'[y]) : inbox'[y][i] = x
    BY <1>5 DEF Queued
  <2>2. PICK j \in 1..Len(inbox[y]) : inbox[y][j] = x /\ ~(y = n /\ j = 1)
    BY <2>1, <1>3
  <2> QED
    BY <1>1, <2>2 DEF Queued, QueuedOnce
<1>6. QueuedOnce'
  <2> SUFFICES ASSUME NEW x \in Nodes, NEW y \in Nodes,
                      NEW i \in 1..Len(inbox'[x]), NEW j \in 1..Len(inbox'[y]),
                      inbox'[x][i].id = inbox'[y][j].id
               PROVE  x = y /\ i = j
    BY DEF QueuedOnce
  <2> DEFINE k == IF x = n THEN i + 1 ELSE i
             l == IF y = n THEN j + 1 ELSE j
  <2>1. /\ k \in 1..Len(inbox[x]) /\ inbox[x][k] = inbox'[x][i]
        /\ l \in 1..Len(inbox[y]) /\ inbox[y][l] = inbox'[y][j]
    BY <1>3
  <2>2. ASSUME x = y, k = l PROVE i = j
    BY <2>2
  <2> HIDE DEF k, l
  <2>3. inbox[x][k].id = inbox[y][l].id
    BY <2>1
  <2>4. \A o \in 1..Len(inbox[x]), p \in 1..Len(inbox[y]) :
            inbox[x][o].id = inbox[y][p].id => x = y /\ o = p
    BY Zenon DEF QueuedOnce
  <2>5. x = y /\ k = l
    BY <2>1, <2>3, <2>4, Zenon
  <2> QED
    BY <2>2, <2>5
<1> QED
  BY <1>4, <1>5, <1>6

(* A message that is sent is the only new one. *)
LEMMA SendQueue ==
    ASSUME TypeOK, QueuedOnce, NEW c \in Clients, NEW n \in Nodes, SendTo(c, n),
           \A m : Queued(m) => m.id # call[c].id
    PROVE  /\ \A x : Queued(x)' => Queued(x) \/ (x.id = call[c].id /\ x.req = Req(c))
           /\ QueuedOnce'
<1> DEFINE m == [client |-> c, id |-> call[c].id, req |-> Req(c), target |-> n]
<1>1. inbox \in [Nodes -> Seq(Message)] /\ inbox' = [inbox EXCEPT ![n] = Append(inbox[n], m)]
  BY DEF TypeOK, NodeTypes, SendTo
<1>2. m.id = call[c].id /\ m.req = Req(c)
  OBVIOUS
<1> HIDE DEF m
<1>3. ASSUME NEW x \in Nodes, NEW i \in 1..Len(inbox'[x])
      PROVE  IF x = n /\ i = Len(inbox[n]) + 1
             THEN inbox'[x][i] = m
             ELSE i \in 1..Len(inbox[x]) /\ inbox'[x][i] = inbox[x][i]
  BY <1>1
<1>4. ASSUME NEW x, Queued(x)' PROVE Queued(x) \/ (x.id = call[c].id /\ x.req = Req(c))
  <2>1. PICK y \in Nodes : \E i \in 1..Len(inbox'[y]) : inbox'[y][i] = x
    BY <1>4 DEF Queued
  <2>2. PICK i \in 1..Len(inbox'[y]) : inbox'[y][i] = x
    BY <2>1
  <2>3. x = m \/ (i \in 1..Len(inbox[y]) /\ inbox[y][i] = x)
    BY <1>3, <2>2
  <2> QED
    BY <1>2, <2>3 DEF Queued
<1>5. QueuedOnce'
  <2> SUFFICES ASSUME NEW x \in Nodes, NEW y \in Nodes,
                      NEW i \in 1..Len(inbox'[x]), NEW j \in 1..Len(inbox'[y]),
                      inbox'[x][i].id = inbox'[y][j].id
               PROVE  x = y /\ i = j
    BY DEF QueuedOnce
  <2>1. ASSUME NEW z \in Nodes, NEW k \in 1..Len(inbox[z]) PROVE inbox[z][k].id # m.id
    BY <1>2 DEF Queued
  <2> DEFINE New(z, k) == z = n /\ k = Len(inbox[n]) + 1
  <2>2. CASE ~New(x, i) /\ ~New(y, j)
    <3>1. i \in 1..Len(inbox[x]) /\ inbox'[x][i] = inbox[x][i]
      BY <1>3, <2>2
    <3>2. j \in 1..Len(inbox[y]) /\ inbox'[y][j] = inbox[y][j]
      BY <1>3, <2>2
    <3> QED
      BY <3>1, <3>2 DEF QueuedOnce
  <2>3. CASE New(x, i) # New(y, j)
    BY <1>1, <1>3, <2>1, <2>3
  <2>4. CASE New(x, i) /\ New(y, j)
    BY <2>4
  <2> QED
    BY <2>2, <2>3, <2>4
<1> QED
  BY <1>4, <1>5

-----------------------------------------------------------------------------
(* A write becomes one entry *)

(* A step that proposes nothing, sends nothing and lets no client send again
   keeps requests in one place. *)
LEMMA NothingSent ==
    ASSUME TypeOK, OneEntry, UNCHANGED <<issued, log, received, proposed>>, QueuedOnce',
           \A m : Queued(m)' => Queued(m),
           \A c \in Clients : Active(c)' => Active(c) /\ call'[c].id = call[c].id,
           \A c \in Clients : WillSend(c)' => WillSend(c)
    PROVE  OneEntry'
<1>1. EntriesKnown'
  BY DEF OneEntry, EntriesKnown, Known
<1>2. \A id : Used(id)' <=> Used(id)
  BY DEF Used
<1>3. \A id, r : Known(id, r)' <=> Known(id, r)
  BY DEF Known
<1>4. QueuedUnused'
  BY <1>2, <1>3 DEF OneEntry, QueuedUnused
<1>5. \A c \in Clients : WillSend(c)' => Active(c)'
  BY DEF WillSend, Active
<1>6. SendsUnused'
  BY <1>2, <1>5 DEF OneEntry, SendsUnused
<1>7. CallsApart'
  BY DEF OneEntry, CallsApart
<1> QED
  BY <1>1, <1>4, <1>6, <1>7 DEF OneEntry

(* A client sends its request, for the first time or again. *)
LEMMA ClientSends ==
    ASSUME TypeOK, OneEntry, NEW c \in Clients, WillSend(c), NEW n \in Nodes, SendTo(c, n),
           Goto(c, "waiting"), UNCHANGED <<issued, log, received, proposed>>
    PROVE  OneEntry'
<1>1. Active(c) /\ call[c].id \in 1..Len(issued)
  BY DEF WillSend, Active, TypeOK, CallTypes
<1>2. ~Used(call[c].id) /\ \A m : Queued(m) => m.id # call[c].id
  BY DEF OneEntry, SendsUnused
<1>3. (\A x : Queued(x)' => Queued(x) \/ (x.id = call[c].id /\ x.req = Req(c))) /\ QueuedOnce'
  BY <1>2, SendQueue DEF OneEntry
<1>4. /\ call'[c].pc = "waiting" /\ call'[c].id = call[c].id
      /\ \A d \in Clients \ {c} : call'[d] = call[d]
  BY DEF Goto, TypeOK, CallTypes, CallRecord
<1>5. EntriesKnown'
  BY DEF OneEntry, EntriesKnown, Known
<1>6. \A id : Used(id)' <=> Used(id)
  BY DEF Used
<1>7. \A id, r : Known(id, r)' <=> Known(id, r)
  BY DEF Known
<1>8. QueuedUnused'
  <2> SUFFICES ASSUME NEW m, Queued(m)' PROVE Known(m.id, m.req) /\ ~Used(m.id)
    BY <1>6, <1>7 DEF QueuedUnused
  <2>1. CASE Queued(m)
    BY <2>1 DEF OneEntry, QueuedUnused
  <2>2. CASE m.id = call[c].id /\ m.req = Req(c)
    BY <1>1, <1>2, <2>2 DEF Known, Req
  <2> QED
    BY <1>3, <2>1, <2>2
<1>9. SendsUnused'
  <2> SUFFICES ASSUME NEW d \in Clients, WillSend(d)'
               PROVE  ~Used(call'[d].id) /\ \A m : Queued(m)' => m.id # call'[d].id
    BY <1>6 DEF SendsUnused
  <2>1. d # c /\ call'[d] = call[d] /\ WillSend(d) /\ Active(d)
    BY <1>4 DEF WillSend, Active
  <2>2. call[d].id # call[c].id
    BY <1>1, <2>1 DEF OneEntry, CallsApart
  <2> QED
    BY <1>3, <2>1, <2>2 DEF OneEntry, SendsUnused
<1>10. CallsApart'
  <2>1. \A d \in Clients : call'[d].id = call[d].id /\ (Active(d)' => Active(d))
    BY <1>1, <1>4 DEF Active
  <2> QED
    BY <2>1 DEF OneEntry, CallsApart
<1> QED
  BY <1>3, <1>5, <1>8, <1>9, <1>10 DEF OneEntry

(* A client calls: its request has a new id. *)
LEMMA ClientCalls ==
    ASSUME TypeOK, OneEntry, NEW c \in Clients, NEW r \in Requests, Call(c, r)
    PROVE  OneEntry'
<1> DEFINE id == Len(issued) + 1
<1>1. /\ Len(issued) \in Nat /\ Len(issued') = id
      /\ \A i \in 1..Len(issued) : issued'[i] = issued[i]
      /\ id \notin 1..Len(issued)
  BY DEF TypeOK, CallTypes, Call
<1>2. call'[c].id = id /\ \A d \in Clients \ {c} : call'[d] = call[d]
  BY DEF Call, TypeOK, CallTypes
<1>3. UNCHANGED <<log, received, proposed, inbox>>
  BY DEF Call, raftVars, nodeVars
<1>4. \A i, q : Known(i, q) => Known(i, q)' /\ i # id
  BY <1>1 DEF Known
<1>5. \A i : Used(i)' <=> Used(i)
  BY <1>3 DEF Used
<1>6. \A m : Queued(m)' <=> Queued(m)
  BY <1>3 DEF Queued
<1> HIDE DEF id
<1>7. EntriesKnown'
  BY <1>3, <1>4 DEF OneEntry, EntriesKnown
<1>8. QueuedUnused' /\ QueuedOnce'
  BY <1>3, <1>4, <1>5, <1>6 DEF OneEntry, QueuedUnused, QueuedOnce
<1>9. ~Used(id) /\ \A m : Queued(m) => m.id # id
  BY <1>4 DEF OneEntry, EntriesKnown, QueuedUnused, Used
<1>10. SendsUnused'
  <2> SUFFICES ASSUME NEW d \in Clients, WillSend(d)'
               PROVE  ~Used(call'[d].id) /\ \A m : Queued(m) => m.id # call'[d].id
    BY <1>5, <1>6 DEF SendsUnused
  <2>1. CASE d = c
    BY <1>2, <1>9, <2>1
  <2>2. CASE d # c
    BY <1>2, <2>2 DEF WillSend, OneEntry, SendsUnused
  <2> QED
    BY <2>1, <2>2
<1>11. CallsApart'
  <2>1. \A d \in Clients \ {c} : Active(d)' => Active(d) /\ call'[d].id = call[d].id /\ call[d].id # id
    BY <1>1, <1>2 DEF Active, TypeOK, CallTypes, id
  <2> QED
    BY <1>2, <2>1 DEF OneEntry, CallsApart
<1> QED
  BY <1>7, <1>8, <1>10, <1>11 DEF OneEntry

(* A reply does not change whose calls are active, and lets the client send
   again only when it is a redirect. *)
LEMMA Delivered ==
    ASSUME TypeOK, NEW m \in Message, NEW reply, Deliver(m, reply)
    PROVE  /\ \A c \in Clients : /\ call'[c].id = call[c].id /\ call'[c].start = call[c].start
                                 /\ call'[c].readIndex = call[c].readIndex
                                 /\ Active(c)' <=> Active(c)
           /\ \A c \in Clients :
                 call'[c] # call[c] => /\ c = m.client /\ call[c].pc = "waiting"
                                       /\ call[c].id = m.id
                                       /\ call'[c].pc = "replied" /\ call'[c].result = reply
<1>1. call \in [Clients -> CallRecord] /\ m.client \in Clients
  BY DEF TypeOK, CallTypes, Message
<1>2. CASE call[m.client].pc = "waiting" /\ call[m.client].id = m.id
  <2>1. call' = [call EXCEPT ![m.client].pc = "replied", ![m.client].result = reply]
    BY <1>2 DEF Deliver
  <2> QED
    BY <1>1, <1>2, <2>1 DEF CallRecord, Active
<1>3. CASE ~(call[m.client].pc = "waiting" /\ call[m.client].id = m.id)
  <2>1. call' = call
    BY <1>3 DEF Deliver
  <2> QED
    BY <2>1 DEF Active
<1> QED
  BY <1>2, <1>3

(* A request that is answered or redirected goes back to its client. *)
LEMMA RequestAnswered ==
    ASSUME TypeOK, OneEntry, NEW n \in Nodes, NEW m, Takes(n, m), NEW reply, Deliver(m, reply),
           UNCHANGED <<issued, log, received, proposed>>
    PROVE  OneEntry'
<1>1. /\ Queued(m) /\ QueuedOnce'
      /\ \A x : Queued(x)' => Queued(x) /\ x.id # m.id
  BY TakesQueue DEF OneEntry
<1>2. m \in Message
  BY TakesType DEF TypeOK, NodeTypes
<1>3. /\ \A c \in Clients : call'[c].id = call[c].id /\ (Active(c)' <=> Active(c))
      /\ \A c \in Clients : call'[c] # call[c] => call[c].id = m.id
  BY <1>2, Delivered
<1>4. EntriesKnown'
  BY DEF OneEntry, EntriesKnown, Known
<1>5. \A id : Used(id)' <=> Used(id)
  BY DEF Used
<1>6. \A id, r : Known(id, r)' <=> Known(id, r)
  BY DEF Known
<1>7. QueuedUnused'
  BY <1>1, <1>5, <1>6 DEF OneEntry, QueuedUnused
<1>8. SendsUnused'
  <2> SUFFICES ASSUME NEW c \in Clients, WillSend(c)'
               PROVE  ~Used(call[c].id) /\ \A x : Queued(x)' => x.id # call[c].id
    BY <1>3, <1>5 DEF SendsUnused
  <2>1. CASE call[c].id = m.id
    BY <1>1, <2>1 DEF OneEntry, QueuedUnused
  <2>2. CASE call'[c] = call[c]
    BY <1>1, <2>2 DEF WillSend, OneEntry, SendsUnused
  <2> QED
    BY <1>3, <2>1, <2>2
<1>9. CallsApart'
  BY <1>3 DEF OneEntry, CallsApart
<1> QED
  BY <1>1, <1>4, <1>7, <1>8, <1>9 DEF OneEntry

(* A leader proposes a write: it leaves the queue and becomes an entry. *)
LEMMA WriteProposed ==
    ASSUME TypeOK, OneEntry, NEW n \in Nodes, NEW m, Takes(n, m), m.req \in LogRequests,
           proposed' = [proposed EXCEPT ![n] = @ \cup {[id |-> m.id, req |-> m.req]}],
           UNCHANGED <<issued, log, received, call>>
    PROVE  OneEntry'
<1>1. /\ Queued(m) /\ QueuedOnce'
      /\ \A x : Queued(x)' => Queued(x) /\ x.id # m.id
  BY TakesQueue DEF OneEntry
<1>2. Known(m.id, m.req) /\ ~Used(m.id)
  BY <1>1 DEF OneEntry, QueuedUnused
<1>3. \A id : Used(id)' => Used(id) \/ id = m.id
  BY DEF Used, TypeOK, RaftTypes
<1>4. \A id, r : Known(id, r)' <=> Known(id, r)
  BY DEF Known
<1>5. EntriesKnown'
  <2>1. \A i \in 1..Len(log) : Known(log[i].id, log[i].req)'
    BY <1>4 DEF OneEntry, EntriesKnown
  <2>2. ASSUME NEW x \in Nodes, NEW p \in proposed'[x]
        PROVE  Known(p.id, p.req)' /\ \A i \in 1..received[x] : log[i].id # p.id
    <3>1. CASE p \in proposed[x]
      BY <1>4, <3>1 DEF OneEntry, EntriesKnown
    <3>2. CASE p = [id |-> m.id, req |-> m.req]
      <4>1. \A i \in 1..received[x] : i \in 1..Len(log)
        BY DEF TypeOK, RaftTypes
      <4> QED
        BY <1>2, <1>4, <3>2, <4>1 DEF Used
    <3>3. p \in proposed[x] \/ p = [id |-> m.id, req |-> m.req]
      BY DEF TypeOK, RaftTypes
    <3> QED
      BY <3>1, <3>2, <3>3
  <2> QED
    BY <2>1, <2>2 DEF EntriesKnown
<1>6. QueuedUnused'
  BY <1>1, <1>3, <1>4 DEF OneEntry, QueuedUnused
<1>7. SendsUnused'
  <2>1. \A c \in Clients : WillSend(c)' <=> WillSend(c)
    BY DEF WillSend
  <2> QED
    BY <1>1, <1>3, <2>1 DEF OneEntry, SendsUnused
<1>8. CallsApart'
  BY DEF OneEntry, CallsApart, Active
<1> QED
  BY <1>1, <1>5, <1>6, <1>7, <1>8 DEF OneEntry

(* Replication moves proposed entries, but to no node that has received them. *)
LEMMA EntriesReplicated ==
    ASSUME TypeOK, CommittedSurvive, OneEntry, NEW n \in Nodes, AppendEntries(n)
    PROVE  OneEntry'
<1>1. /\ received' = [received EXCEPT ![n] = received[leader]]
      /\ proposed' = [proposed EXCEPT ![n] = proposed[leader]]
      /\ UNCHANGED <<log, issued, inbox, call>>
  BY DEF AppendEntries, nodeVars
<1>2. leader \in Nodes /\ received \in [Nodes -> 0..Len(log)] /\ proposed \in [Nodes -> SUBSET Entry]
  BY DEF TypeOK, RaftTypes
<1>3. EntriesKnown'
  BY <1>1, <1>2 DEF OneEntry, EntriesKnown, Known
<1>4. \A id : Used(id)' => Used(id)
  BY <1>1, <1>2 DEF Used
<1>5. QueuedUnused' /\ QueuedOnce' /\ SendsUnused' /\ CallsApart'
  BY <1>1, <1>4 DEF OneEntry, QueuedUnused, QueuedOnce, SendsUnused, CallsApart,
                    Queued, Known, WillSend, Active
<1> QED
  BY <1>3, <1>5 DEF OneEntry

(* The leader commits an entry that the log does not have yet. *)
LEMMA EntryCommitted ==
    ASSUME TypeOK, CommittedSurvive, OneEntry, NEW Q \in Quorums, NEW p \in proposed[leader],
           Commit(p, Q)
    PROVE  /\ OneEntry'
           /\ Known(p.id, p.req)
           /\ \A i \in 1..Len(log) : log[i].id # p.id
<1>1. /\ log' = Append(log, p)
      /\ received' = [x \in Nodes |-> IF x \in Q THEN Len(log) + 1 ELSE received[x]]
      /\ proposed' = [x \in Nodes |-> IF x \in Q THEN proposed[leader] \ {p} ELSE proposed[x]]
      /\ UNCHANGED <<issued, inbox, call>>
  BY DEF Commit, nodeVars
<1>2. /\ leader \in Nodes /\ received \in [Nodes -> 0..Len(log)]
      /\ proposed \in [Nodes -> SUBSET Entry] /\ log \in Seq(Entry) /\ p \in Entry
  BY DEF TypeOK, RaftTypes
<1>3. received[leader] = Len(log)
  BY DEF CommittedSurvive
<1>4. Known(p.id, p.req) /\ \A i \in 1..Len(log) : log[i].id # p.id
  BY <1>2, <1>3 DEF OneEntry, EntriesKnown
<1>5. /\ Len(log') = Len(log) + 1 /\ log'[Len(log) + 1] = p
      /\ \A i \in 1..Len(log) : log'[i] = log[i]
  BY <1>1, <1>2
<1>6. \A id, r : Known(id, r)' <=> Known(id, r)
  BY <1>1 DEF Known
<1>7. (\A i \in 1..Len(log) : Known(log[i].id, log[i].req))'
  BY <1>1, <1>2, <1>4, <1>5 DEF OneEntry, EntriesKnown, Known
<1>8. ASSUME NEW x \in Nodes, NEW q \in proposed'[x]
      PROVE  Known(q.id, q.req)' /\ \A i \in 1..received'[x] : log'[i].id # q.id
  <2>1. CASE x \in Q
    <3>1. q \in proposed[leader] /\ q # p
      BY <1>1, <2>1
    <3>2. Known(q.id, q.req) /\ \A i \in 1..Len(log) : log[i].id # q.id
      BY <1>2, <1>3, <3>1 DEF OneEntry, EntriesKnown
    <3>3. q.id # p.id
      BY <1>2, <1>4, <3>1, <3>2 DEF Known, Entry
    <3> QED
      BY <1>1, <1>2, <1>5, <1>6, <2>1, <3>2, <3>3
  <2>2. CASE x \notin Q
    <3>1. q \in proposed[x] /\ received'[x] = received[x] /\ received[x] \in 0..Len(log)
      BY <1>1, <1>2, <2>2
    <3>2. Known(q.id, q.req) /\ \A i \in 1..received[x] : log[i].id # q.id
      BY <3>1 DEF OneEntry, EntriesKnown
    <3> QED
      BY <1>2, <1>5, <1>6, <3>1, <3>2
  <2> QED
    BY <2>1, <2>2
<1>9. EntriesKnown'
  BY <1>7, <1>8 DEF EntriesKnown
<1>10. \A id : Used(id)' => Used(id)
  BY <1>1, <1>2, <1>5 DEF Used
<1>11. QueuedUnused' /\ QueuedOnce' /\ SendsUnused' /\ CallsApart'
  BY <1>1, <1>10 DEF OneEntry, QueuedUnused, QueuedOnce, SendsUnused, CallsApart,
                     Queued, Known, WillSend, Active
<1> QED
  BY <1>4, <1>9, <1>11 DEF OneEntry

(* The first state has nothing in any place. *)
LEMMA InitOneEntry == Init => OneEntry
BY DEF Init, OneEntry, EntriesKnown, QueuedUnused, QueuedOnce, SendsUnused, CallsApart,
       Queued, WillSend, Active, NoCall, Error

(* Steps of the clients keep requests in one place. *)
LEMMA ClientOneEntry ==
    ASSUME TypeOK, OneEntry, NEW c \in Clients,
           ClientStep(c) \/ ConnectionLost(c) \/ \E r \in Requests : Call(c, r)
    PROVE  OneEntry'
<1>h. Home[c] \in Nodes /\ call \in [Clients -> CallRecord]
  BY StoreAssumption DEF TypeOK, CallTypes
<1>q. ASSUME UNCHANGED inbox PROVE QueuedOnce' /\ \A m : Queued(m)' => Queued(m)
  BY <1>q DEF OneEntry, QueuedOnce, Queued
<1>n. ASSUME UNCHANGED <<issued, log, received, proposed, inbox>>, Active(c), WillSend(c) \/ ~WillSend(c)',
             call'[c].id = call[c].id, \A d \in Clients \ {c} : call'[d] = call[d]
      PROVE  OneEntry'
  <2>1. \A d \in Clients : Active(d)' => Active(d) /\ call'[d].id = call[d].id
    BY <1>n DEF Active
  <2>2. \A d \in Clients : WillSend(d)' => WillSend(d)
    BY <1>n DEF WillSend
  <2> QED
    BY <1>n, <1>q, <2>1, <2>2, NothingSent
<1>f. ASSUME NEW result, Finish(c, result)
      PROVE  /\ ~WillSend(c)' /\ call'[c].id = call[c].id
             /\ \A d \in Clients \ {c} : call'[d] = call[d]
  BY <1>f, <1>h DEF Finish, CallRecord, WillSend
<1>g. ASSUME NEW pc, Goto(c, pc)
      PROVE  call'[c].id = call[c].id /\ \A d \in Clients \ {c} : call'[d] = call[d]
  BY <1>g, <1>h DEF Goto, CallRecord
<1>1. CASE \E r \in Requests : Call(c, r)
  BY <1>1, ClientCalls
<1>2. CASE CheckIsLeader(c)
  <2>1. Active(c) /\ WillSend(c) /\ UNCHANGED <<issued, log, received, proposed, inbox>>
        /\ \E pc : Goto(c, pc)
    BY <1>2 DEF CheckIsLeader, Active, WillSend, raftVars, nodeVars
  <2> QED
    BY <1>n, <1>g, <2>1
<1>3. CASE EnsureLocally(c)
  <2>1. Active(c) /\ WillSend(c) /\ UNCHANGED <<issued, log, received, proposed, inbox>>
    BY <1>3 DEF EnsureLocally, Active, WillSend, raftVars, nodeVars
  <2>2. call'[c].id = call[c].id /\ \A d \in Clients \ {c} : call'[d] = call[d]
    BY <1>3, <1>h DEF EnsureLocally, Goto, Finish, CallRecord
  <2> QED
    BY <1>n, <2>1, <2>2
<1>4. CASE ReadLocally(c)
  <2>1. Active(c) /\ WillSend(c) /\ UNCHANGED <<issued, log, received, proposed, inbox>>
        /\ \E result : Finish(c, result)
    BY <1>4 DEF ReadLocally, Active, WillSend, raftVars, nodeVars
  <2> QED
    BY <1>n, <1>f, <2>1
<1>5. CASE SendToLeader(c)
  <2>1. Active(c) /\ WillSend(c) /\ UNCHANGED <<issued, log, received, proposed>>
        /\ GetLeader(Home[c]) \in Nodes \cup {None}
    BY <1>5, <1>h DEF SendToLeader, Active, WillSend, raftVars, GetLeader, TypeOK, RaftTypes
  <2>2. CASE GetLeader(Home[c]) = None
    <3>1. UNCHANGED inbox /\ Finish(c, Error)
      BY <1>5, <2>2 DEF SendToLeader
    <3> QED
      BY <1>n, <1>f, <2>1, <3>1
  <2>3. CASE GetLeader(Home[c]) # None
    BY <1>5, <2>1, <2>3, ClientSends DEF SendToLeader
  <2> QED
    BY <2>2, <2>3
<1>6. CASE ReceiveReply(c)
  <2> DEFINE reply == call[c].result
             redirect == reply.tag = "ForwardToLeader" /\ reply.body # None
  <2>1. Active(c) /\ UNCHANGED <<issued, log, received, proposed>>
        /\ call[c].pc = "replied" /\ reply \in Reply
    BY <1>6, <1>h DEF ReceiveReply, Active, raftVars, CallRecord
  <2>2. CASE redirect
    <3>1. WillSend(c) /\ reply.body \in Nodes
      BY <2>1, <2>2 DEF WillSend, Reply
    <3>2. SendTo(c, reply.body) /\ Goto(c, "waiting")
      BY <1>6, <2>2 DEF ReceiveReply
    <3> QED
      BY <2>1, <3>1, <3>2, ClientSends
  <2>3. CASE ~redirect
    <3>1. UNCHANGED inbox /\ \E res : Finish(c, res)
      BY <1>6, <2>3 DEF ReceiveReply
    <3> QED
      BY <1>n, <1>f, <2>1, <3>1
  <2> QED
    BY <2>2, <2>3
<1>7. CASE ConnectionLost(c)
  <2>1. Active(c) /\ UNCHANGED <<issued, log, received, proposed, inbox>> /\ Finish(c, Error)
    BY <1>7 DEF ConnectionLost, Active, raftVars, nodeVars
  <2> QED
    BY <1>n, <1>f, <2>1
<1> QED
  BY <1>1, <1>2, <1>3, <1>4, <1>5, <1>6, <1>7 DEF ClientStep

(* So do those of main_loop and apply. *)
LEMMA MainLoopOneEntry ==
    ASSUME TypeOK, OneEntry, NEW n \in Nodes, NodeStep(n) \/ Apply(n)
    PROVE  OneEntry'
<1> DEFINE m == Head(inbox[n])
<1>q. ASSUME UNCHANGED inbox PROVE QueuedOnce' /\ \A x : Queued(x)' => Queued(x)
  BY <1>q DEF OneEntry, QueuedOnce, Queued
<1>d. ASSUME UNCHANGED <<issued, log, received, proposed, inbox>>, NEW x \in Message,
             NEW reply, reply.tag # "ForwardToLeader", Deliver(x, reply)
      PROVE  OneEntry'
  <2>1. \A c \in Clients : call'[c].id = call[c].id /\ (Active(c)' <=> Active(c))
    BY <1>d, Delivered
  <2>2. \A c \in Clients : WillSend(c)' => WillSend(c)
    <3>1. \A c \in Clients : call'[c] # call[c] => call'[c].pc = "replied" /\ call'[c].result = reply
      BY <1>d, Delivered
    <3> QED
      BY <1>d, <3>1 DEF WillSend
  <2> QED
    BY <1>d, <1>q, <2>1, <2>2, NothingSent
<1>c. ASSUME UNCHANGED <<issued, log, received, proposed, call>>, QueuedOnce',
             \A x : Queued(x)' => Queued(x)
      PROVE  OneEntry'
  <2>1. \A c \in Clients : /\ Active(c)' => Active(c) /\ call'[c].id = call[c].id
                           /\ WillSend(c)' => WillSend(c)
    BY <1>c DEF Active, WillSend
  <2> QED
    BY <1>c, <2>1, NothingSent
<1>m. main[n].pc \in {"writing", "ensuring", "reading"} => main[n].msg \in Message
  BY DEF TypeOK, NodeTypes, Idle, Awaiting
<1>e. Error.tag # "ForwardToLeader" /\ \A r, v : Ok(r, v).tag # "ForwardToLeader"
  BY DEF Error, Ok
<1>1. CASE ServeOtherNode(n)
  BY <1>1, RequestAnswered DEF ServeOtherNode, raftVars
<1>2. CASE ServeWrite(n)
  <2>1. CASE view[n] = n
    BY <1>2, <2>1, WriteProposed DEF ServeWrite
  <2>2. CASE view[n] # n
    BY <1>2, <2>2, RequestAnswered DEF ServeWrite
  <2> QED
    BY <2>1, <2>2, Zenon
<1>3. CASE ServeRead(n)
  <2>1. Takes(n, m) /\ UNCHANGED <<issued, log, received, proposed>>
    BY <1>3 DEF ServeRead, raftVars
  <2>2. UNCHANGED call \/ \E reply : Deliver(m, reply)
    BY <1>3 DEF ServeRead
  <2>3. CASE UNCHANGED call
    BY <1>c, <2>1, <2>3, TakesQueue DEF OneEntry
  <2>4. CASE \E reply : Deliver(m, reply)
    BY <2>1, <2>4, RequestAnswered
  <2> QED
    BY <2>2, <2>3, <2>4
<1>4. CASE FinishEnsure(n)
  <2>1. UNCHANGED <<issued, log, received, proposed, inbox>> /\ main[n].msg \in Message
        /\ (UNCHANGED call \/ Deliver(main[n].msg, Error))
    BY <1>4, <1>m DEF FinishEnsure, raftVars
  <2> QED
    BY <1>c, <1>d, <1>e, <1>q, <2>1
<1>5. CASE FinishRead(n)
  <2>1. UNCHANGED <<issued, log, received, proposed, inbox>> /\ main[n].msg \in Message
        /\ \E v : Deliver(main[n].msg, Ok(main[n].msg.req, v))
    BY <1>5, <1>m DEF FinishRead, raftVars
  <2> QED
    BY <1>d, <1>e, <2>1
<1>6. CASE ServeRemove(n)
  BY <1>6, RequestAnswered DEF ServeRemove, raftVars
<1>7. CASE Apply(n)
  <2>1. UNCHANGED <<issued, log, received, proposed, inbox>>
        /\ \/ main[n].msg \in Message /\ \E r, v : Deliver(main[n].msg, Ok(r, v))
           \/ UNCHANGED call
    BY <1>7, <1>m DEF Apply, raftVars
  <2> QED
    BY <1>c, <1>d, <1>e, <1>q, <2>1
<1> QED
  BY <1>1, <1>2, <1>3, <1>4, <1>5, <1>6, <1>7 DEF NodeStep

(* And those of openraft and of processes that end. *)
LEMMA RaftOneEntry ==
    ASSUME TypeOK, CommittedSurvive, OneEntry, RaftStep
    PROVE  OneEntry'
<1>c. ASSUME UNCHANGED <<issued, log, received, proposed, inbox, call>> PROVE OneEntry'
  BY <1>c DEF OneEntry, EntriesKnown, QueuedUnused, QueuedOnce, SendsUnused, CallsApart,
              Used, Queued, Known, WillSend, Active
<1>1. CASE \E n \in Nodes : Campaign(n) \/ StepDown(n)
  BY <1>1, <1>c DEF Campaign, StepDown, nodeVars
<1>2. CASE \E n \in Nodes, Q \in Quorums : Elect(n, Q)
  BY <1>2, <1>c DEF Elect, nodeVars
<1>3. ASSUME NEW n \in Nodes, Replace(n) PROVE OneEntry'
  <2>1. UNCHANGED <<issued, log, received, proposed>> /\ inbox' = [inbox EXCEPT ![n] = <<>>]
    BY <1>3 DEF Replace, raftVars
  <2>2. \A x \in Nodes : x # n => inbox'[x] = inbox[x]
    BY <2>1 DEF TypeOK, NodeTypes
  <2>3. 1..Len(inbox'[n]) = {}
    BY <2>1 DEF TypeOK, NodeTypes
  <2>4. QueuedOnce'
    BY <2>2, <2>3 DEF OneEntry, QueuedOnce
  <2>5. \A m : Queued(m)' => Queued(m)
    BY <2>2, <2>3 DEF Queued
  <2>6. \A c \in Clients : call'[c] = call[c] \/ call'[c].pc = "idle"
    BY <1>3 DEF Replace, NoCall
  <2>7. \A c \in Clients : Active(c)' => Active(c) /\ call'[c].id = call[c].id
    BY <2>6 DEF Active
  <2>8. \A c \in Clients : WillSend(c)' => WillSend(c)
    BY <2>6 DEF WillSend
  <2> QED
    BY <2>1, <2>4, <2>5, <2>7, <2>8, NothingSent
<1> QED
  BY <1>1, <1>2, <1>3, EntriesReplicated, EntryCommitted DEF RaftStep

(* Every step does. *)
LEMMA NextOneEntry == TypeOK /\ CommittedSurvive /\ OneEntry /\ [Next]_vars => OneEntry'
<1> SUFFICES ASSUME TypeOK, CommittedSurvive, OneEntry, [Next]_vars PROVE OneEntry'
  OBVIOUS
<1>1. CASE UNCHANGED vars
  BY <1>1 DEF vars, raftVars, nodeVars, OneEntry, EntriesKnown, QueuedUnused, QueuedOnce,
              SendsUnused, CallsApart, Used, Queued, Known, WillSend, Active
<1>2. CASE Next
  BY <1>2, NextSplit, ClientOneEntry, MainLoopOneEntry, RaftOneEntry
<1> QED
  BY <1>1, <1>2

-----------------------------------------------------------------------------
(* Only Commit extends the log, by an entry that its leader has proposed and
   not received; the leader has received the whole log. *)
LEMMA NextWrittenOnce ==
    TypeOK /\ CommittedSurvive /\ OneEntry /\ WrittenOnce /\ [Next]_vars => WrittenOnce'
<1> SUFFICES ASSUME TypeOK, CommittedSurvive, OneEntry, WrittenOnce, [Next]_vars
             PROVE  WrittenOnce'
  OBVIOUS
<1>1. CASE UNCHANGED log
  BY <1>1 DEF WrittenOnce
<1>2. ASSUME NEW Q \in Quorums, NEW p \in proposed[leader], Commit(p, Q) PROVE WrittenOnce'
  <2>1. log \in Seq(Entry) /\ p \in Entry /\ log' = Append(log, p)
    BY <1>2 DEF TypeOK, RaftTypes, Commit
  <2>2. \A i \in 1..Len(log) : log[i].id # p.id
    BY <1>2 DEF OneEntry, EntriesKnown, CommittedSurvive, TypeOK, RaftTypes
  <2>3. /\ Len(log') = Len(log) + 1 /\ log'[Len(log) + 1] = p
        /\ \A i \in 1..Len(log) : log'[i] = log[i]
    BY <2>1
  <2> QED
    BY <2>1, <2>2, <2>3 DEF WrittenOnce
<1> QED
  BY <1>1, <1>2, NextSplit, LogUntouched
     DEF RaftStep, AppendEntries, Campaign, StepDown, Replace, Elect, raftVars, vars

(* However a write travels, the log holds it at most once. *)
THEOREM WritesHappenOnce == Spec => []WrittenOnce
<1>1. Init => OneEntry /\ WrittenOnce
  BY InitOneEntry DEF Init, WrittenOnce
<1> QED
  BY <1>1, NextOneEntry, NextWrittenOnce, TypeCorrect, Survival, PTL DEF Spec
=============================================================================
