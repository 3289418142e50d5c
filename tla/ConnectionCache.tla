-------------------------- MODULE ConnectionCache --------------------------
(***************************************************************************)
(* The cache of QUIC connections of one node, shared by all its tasks: the *)
(* check-then-connect of ConnectionCache::connect, the watcher task it     *)
(* spawns for every new connection, the force_remove of a Raft request     *)
(* that timed out, and Client::close.  Tasks run on several threads, so    *)
(* other tasks may run between any two operations on the map.              *)
(***************************************************************************)
EXTENDS Naturals, FiniteSets

CONSTANTS
    Hosts,   \* socket addresses
    Tasks,   \* tasks that connect
    Conns,   \* connections, each used once: a bound on how many are made
    None     \* no connection, no host

ASSUME CacheAssumption == None \notin Conns \cup Hosts

VARIABLES
    connections,  \* connections[h]: the entry of the map for address h
    status,       \* status[x]: of connection x
    peer,         \* peer[x]: the address x connects to
    watcher,      \* watcher[x]: the task that waits for x to close
    task          \* task[t]: what task t does, with which connection

vars == <<connections, status, peer, watcher, task>>

Idle == [pc |-> "idle", host |-> None, conn |-> None]

Init ==
    /\ connections = [h \in Hosts |-> None]
    /\ status = [x \in Conns |-> "unused"]
    /\ peer = [x \in Conns |-> None]
    /\ watcher = [x \in Conns |-> "none"]
    /\ task = [t \in Tasks |-> Idle]

(* Mutant: an absent entry counts as open. *)
OpenOrAbsent(x) == x = None \/ status[x] = "open"

Open(x) == x # None /\ status[x] = "open"

(* connect looks h up: the cached connection unless it is known to be closed. *)
Lookup(t, h) ==
    /\ task[t].pc = "idle"
    /\ task' = [task EXCEPT ![t] =
          IF Open(connections[h])
          THEN [pc |-> "using", host |-> h, conn |-> connections[h]]
          ELSE [pc |-> "connecting", host |-> h, conn |-> None]]
    /\ UNCHANGED <<connections, status, peer, watcher>>

(* The handshake succeeds with a new connection, or fails. *)
Established(t, x) ==
    /\ task[t].pc = "connecting" /\ status[x] = "unused"
    /\ status' = [status EXCEPT ![x] = "open"]
    /\ peer' = [peer EXCEPT ![x] = task[t].host]
    /\ task' = [task EXCEPT ![t].pc = "inserting", ![t].conn = x]
    /\ UNCHANGED <<connections, watcher>>

ConnectFails(t) ==
    /\ task[t].pc = "connecting"
    /\ task' = [task EXCEPT ![t] = Idle]
    /\ UNCHANGED <<connections, status, peer, watcher>>

(* connect puts the new connection in the map, over whatever is there. *)
Insert(t) ==
    /\ task[t].pc = "inserting"
    /\ connections' = [connections EXCEPT ![task[t].host] = task[t].conn]
    /\ task' = [task EXCEPT ![t].pc = "spawning"]
    /\ UNCHANGED <<status, peer, watcher>>

(* Mutant: no watcher for a connection that has closed in the meantime. *)
SpawnIfOpen(t) ==
    /\ task[t].pc = "spawning"
    /\ watcher' = IF Open(task[t].conn) THEN [watcher EXCEPT ![task[t].conn] = "waiting"]
                  ELSE watcher
    /\ task' = [task EXCEPT ![t].pc = "using"]
    /\ UNCHANGED <<connections, status, peer>>

Spawn(t) ==
    /\ task[t].pc = "spawning"
    /\ watcher' = [watcher EXCEPT ![task[t].conn] = "waiting"]
    /\ task' = [task EXCEPT ![t].pc = "using"]
    /\ UNCHANGED <<connections, status, peer>>

(* The request on the connection ends. *)
Finish(t) ==
    /\ task[t].pc = "using"
    /\ task' = [task EXCEPT ![t] = Idle]
    /\ UNCHANGED <<connections, status, peer, watcher>>

(* perform_raft_action times out: force_remove drops the entry for the
   host, whichever connection it is now, without closing it. *)
TimeOut(t) ==
    /\ task[t].pc = "using"
    /\ connections' = [connections EXCEPT ![task[t].host] = None]
    /\ task' = [task EXCEPT ![t] = Idle]
    /\ UNCHANGED <<status, peer, watcher>>

(* Client::close, after a node has joined, closes the connection for all. *)
CloseClient(t) ==
    /\ task[t].pc = "using"
    /\ status' = [status EXCEPT ![task[t].conn] = "closed"]
    /\ task' = [task EXCEPT ![t] = Idle]
    /\ UNCHANGED <<connections, peer, watcher>>

(* The peer closes the connection, or it is idle for too long. *)
Break(x) ==
    /\ status[x] = "open"
    /\ status' = [status EXCEPT ![x] = "closed"]
    /\ UNCHANGED <<connections, peer, watcher, task>>

(* Mutant: remove, whatever the entry. *)
RemoveAlways(entry) == None

(* remove_if keeps an entry that is not closed. *)
RemoveIf(entry) == IF Open(entry) THEN entry ELSE None

(* The watcher of x wakes and runs remove_if on the entry for its host. *)
Watch(x) ==
    /\ watcher[x] = "waiting" /\ status[x] = "closed"
    /\ connections' = [connections EXCEPT ![peer[x]] = RemoveIf(@)]
    /\ watcher' = [watcher EXCEPT ![x] = "done"]
    /\ UNCHANGED <<status, peer, task>>

TaskStep(t) ==
    \/ \E x \in Conns : Established(t, x)
    \/ ConnectFails(t) \/ Insert(t) \/ Spawn(t)
    \/ Finish(t) \/ TimeOut(t) \/ CloseClient(t)

Next ==
    \/ \E t \in Tasks : TaskStep(t) \/ \E h \in Hosts : Lookup(t, h)
    \/ \E x \in Conns : Break(x) \/ Watch(x)

Spec == Init /\ [][Next]_vars

(* Tasks that connect and watchers keep running; connections need not break. *)
FairSpec ==
    /\ Spec
    /\ \A t \in Tasks : WF_vars(Insert(t)) /\ WF_vars(Spawn(t))
    /\ \A x \in Conns : WF_vars(Watch(x))

-----------------------------------------------------------------------------
(* Properties *)

(* The types of the variables; a task past the handshake has a connection. *)
TypeOK ==
    /\ connections \in [Hosts -> Conns \cup {None}]
    /\ status \in [Conns -> {"unused", "open", "closed"}]
    /\ peer \in [Conns -> Hosts \cup {None}]
    /\ watcher \in [Conns -> {"none", "waiting", "done"}]
    /\ task \in [Tasks -> {Idle}
          \cup [pc : {"connecting"}, host : Hosts, conn : {None}]
          \cup [pc : {"inserting", "spawning", "using"}, host : Hosts, conn : Conns]]

Spawning(t, x) == task[t].pc = "spawning" /\ task[t].conn = x

(* Every connection in the map is there under its own address and has a
   watcher that has yet to run, or a task about to spawn one: however tasks
   that connect to the same node overtake each other, connect never leaves
   an entry that nobody would remove. *)
CachedIsWatched ==
    \A h \in Hosts : connections[h] # None =>
        LET x == connections[h] IN
        /\ peer[x] = h
        /\ watcher[x] = "waiting" \/ \E t \in Tasks : Spawning(t, x)

(* A connection that is open stays in the map until a request to that host
   times out or a newer connection to it is put in its place.  The late
   watcher of an older connection does not remove it, as the comment in
   connect says. *)
OpenStaysCached ==
    [][\A h \in Hosts :
        Open(connections[h]) /\ connections'[h] # connections[h] =>
            \E t \in Tasks : /\ task[t].pc \in {"inserting", "using"} /\ task[t].host = h
                             /\ task'[t] # task[t]]_vars

(* A connection that has closed, for whatever reason and whenever, is
   removed from the map in the end, even when nobody connects again. *)
ClosedIsEvicted ==
    \A h \in Hosts, x \in Conns :
        connections[h] = x /\ status[x] = "closed" ~> connections[h] # x
=============================================================================
