--------------------------- MODULE NetworkProofs ---------------------------
(***************************************************************************)
(* Theorems about how a node reaches the others: its cache of connections, *)
(* for any number of hosts, tasks and connections, and the entries that a  *)
(* leader sends to a follower through them.                                *)
(***************************************************************************)
EXTENDS ConnectionCache, Replication, TLAPS

(* A task that has made a connection is the only one that has, and nobody
   has watched that connection yet. *)
CreatorsApart ==
    /\ \A t \in Tasks : task[t].pc \in {"inserting", "spawning"} =>
          /\ status[task[t].conn] # "unused"
          /\ peer[task[t].conn] = task[t].host
          /\ watcher[task[t].conn] = "none"
    /\ \A s, t \in Tasks :
          /\ task[s].pc \in {"inserting", "spawning"} /\ task[t].pc \in {"inserting", "spawning"}
          /\ task[s].conn = task[t].conn
          => s = t

(* Only connections that were made are watched, and they have a peer. *)
WatchedHavePeer ==
    \A x \in Conns : watcher[x] # "none" => status[x] # "unused" /\ peer[x] \in Hosts

(* Only connections that were made are in the map. *)
CachedWereMade ==
    \A h \in Hosts : connections[h] # None => status[connections[h]] # "unused"

IInv == TypeOK /\ CreatorsApart /\ WatchedHavePeer /\ CachedWereMade /\ CachedIsWatched

(* The invariant holds initially: nothing is cached and no task has begun. *)
LEMMA InitInvariant == Init => IInv
BY DEF Init, IInv, TypeOK, CreatorsApart, WatchedHavePeer, CachedWereMade, CachedIsWatched, Idle

(* Every operation on the map and every watcher preserves the invariant. *)
LEMMA NextInvariant == IInv /\ [Next]_vars => IInv'
<1> SUFFICES ASSUME IInv, [Next]_vars PROVE IInv'
  OBVIOUS
<1> USE CacheAssumption DEF IInv, TypeOK, CreatorsApart, WatchedHavePeer, CachedWereMade,
                           CachedIsWatched, Spawning, Idle, Open
<1>1. ASSUME NEW t \in Tasks, NEW h \in Hosts, Lookup(t, h) PROVE IInv'
  BY <1>1 DEF Lookup
<1>2. ASSUME NEW t \in Tasks, NEW x \in Conns, Established(t, x) PROVE IInv'
  BY <1>2 DEF Established
<1>3. ASSUME NEW t \in Tasks, ConnectFails(t) PROVE IInv'
  BY <1>3 DEF ConnectFails
<1>4. ASSUME NEW t \in Tasks, Insert(t) PROVE IInv'
  BY <1>4 DEF Insert
<1>5. ASSUME NEW t \in Tasks, Spawn(t) PROVE IInv'
  BY <1>5 DEF Spawn
<1>6. ASSUME NEW t \in Tasks, Finish(t) PROVE IInv'
  BY <1>6 DEF Finish
<1>7. ASSUME NEW t \in Tasks, TimeOut(t) PROVE IInv'
  BY <1>7 DEF TimeOut
<1>8. ASSUME NEW t \in Tasks, CloseClient(t) PROVE IInv'
  BY <1>8 DEF CloseClient
<1>9. ASSUME NEW x \in Conns, Break(x) PROVE IInv'
  BY <1>9 DEF Break
<1>10. ASSUME NEW x \in Conns, Watch(x) PROVE IInv'
  BY <1>10 DEF Watch, RemoveIf
<1>11. CASE UNCHANGED vars
  BY <1>11 DEF vars
<1> QED
  BY <1>1, <1>2, <1>3, <1>4, <1>5, <1>6, <1>7, <1>8, <1>9, <1>10, <1>11 DEF Next, TaskStep

(* connect leaves no entry in the map without a watcher that will remove it
   once its connection closes. *)
THEOREM AllWatched == Spec => []CachedIsWatched
<1>1. IInv => CachedIsWatched
  BY DEF IInv
<1> QED
  BY <1>1, InitInvariant, NextInvariant, PTL DEF Spec

(* A watcher never removes a newer connection that is open. *)
THEOREM OpenKept == Spec => OpenStaysCached
<1> DEFINE A == \A h \in Hosts :
        Open(connections[h]) /\ connections'[h] # connections[h] =>
            \E t \in Tasks : /\ task[t].pc \in {"inserting", "using"} /\ task[t].host = h
                             /\ task'[t] # task[t]
<1>1. IInv /\ [Next]_vars => [A]_vars
  <2> SUFFICES ASSUME IInv, Next, NEW h \in Hosts,
                      Open(connections[h]), connections'[h] # connections[h]
               PROVE  \E t \in Tasks : /\ task[t].pc \in {"inserting", "using"}
                                       /\ task[t].host = h
                                       /\ task'[t] # task[t]
    OBVIOUS
  <2> USE DEF IInv, TypeOK, Idle
  <2>1. ASSUME NEW t \in Tasks, Insert(t) \/ TimeOut(t)
        PROVE  task[t].pc \in {"inserting", "using"} /\ task[t].host = h /\ task'[t] # task[t]
    BY <2>1 DEF Insert, TimeOut
  <2>2. ASSUME NEW x \in Conns, Watch(x) PROVE FALSE
    BY <2>2 DEF Watch, RemoveIf
  <2>3. ASSUME NEW t \in Tasks, TaskStep(t) \/ (\E g \in Hosts : Lookup(t, g)),
               ~(Insert(t) \/ TimeOut(t))
        PROVE  FALSE
    BY <2>3 DEF TaskStep, Lookup, Established, ConnectFails, Spawn, Finish, CloseClient
  <2>4. ASSUME NEW x \in Conns, Break(x) PROVE FALSE
    BY <2>4 DEF Break
  <2> QED
    BY <2>1, <2>2, <2>3, <2>4 DEF Next
<1> QED
  BY <1>1, InitInvariant, NextInvariant, PTL DEF Spec, OpenStaysCached

(* Every step of connect, its watchers, the Raft requests and Client::close
   keeps the types: a connection is cached for a host only as one of the
   connections. *)
THEOREM TypeCorrect == Spec => []TypeOK
<1>1. IInv => TypeOK
  BY DEF IInv
<1> QED
  BY <1>1, InitInvariant, NextInvariant, PTL DEF Spec

-----------------------------------------------------------------------------
(* The entries that a leader sends through its connections: Replication, for
   entries of any size, any length of the log and any number of losses. *)

(* Request r holds entries of the log that follow some that the follower has. *)
FromLog(r) ==
    /\ r.prev \in 0..Len(follower) /\ r.entries \in Seq(Sizes)
    /\ r.prev + Len(r.entries) <= Len(log)
    /\ \A i \in 1..Len(r.entries) : r.entries[i] = log[r.prev + i]

(* The follower's entries are the leader's, and matched counts some of them. *)
Prefix ==
    /\ Len(follower) <= Len(log) /\ matched <= Len(follower)
    /\ \A i \in 1..Len(follower) : follower[i] = log[i]

(* What is under way, or late, is from the log, and a good answer counts
   entries that the follower has. *)
UnderWay ==
    /\ request # Nothing => FromLog(request)
    /\ \A r \in late : FromLog(r)
    /\ reply # Nothing /\ reply.ok => reply.end <= Len(follower)

ReplicationInv == RepTypeOK /\ Prefix /\ UnderWay

(* The logs are empty at first. *)
LEMMA ReplicationInit == RepInit => ReplicationInv
BY ReplicationAssumption DEF RepInit, ReplicationInv, RepTypeOK, Prefix, UnderWay

(* A new request holds the entries after the matched ones. *)
LEMMA NextRequestFromLog ==
    ASSUME ReplicationInv, matched < Len(log)
    PROVE  FromLog(NextRequest) /\ NextRequest.prev = matched
<1> DEFINE last == IF matched + MaxBatch < Len(log) THEN matched + MaxBatch ELSE Len(log)
           entries == SubSeq(log, matched + 1, last)
<1>1. log \in Seq(Sizes) /\ matched \in 0..Len(log) /\ MaxBatch \in Nat \ {0} /\ Len(log) \in Nat
  BY ReplicationAssumption DEF ReplicationInv, RepTypeOK
<1>2. last \in Nat /\ matched < last /\ last <= Len(log)
  BY <1>1
<1> HIDE DEF last
<1>3. entries \in Seq(Sizes) /\ Len(entries) = last - matched
  BY <1>1, <1>2
<1>4. \A i \in 1..Len(entries) : entries[i] = log[matched + i]
  BY <1>1, <1>2, <1>3
<1> HIDE DEF entries
<1>5. NextRequest = [prev |-> matched, entries |-> entries]
  BY DEF NextRequest, entries, last
<1>6. matched \in 0..Len(follower)
  BY <1>1 DEF ReplicationInv, Prefix, RepTypeOK
<1> QED
  BY <1>1, <1>2, <1>3, <1>4, <1>5, <1>6 DEF FromLog

(* A step that lets the leader's log and the follower's only grow at their
   ends leaves requests what they are. *)
LEMMA FromLogKept ==
    ASSUME log \in Seq(Sizes), follower \in Seq(Sizes),
           log' \in Seq(Sizes), follower' \in Seq(Sizes),
           Len(log) <= Len(log'), \A i \in 1..Len(log) : log'[i] = log[i],
           Len(follower) <= Len(follower'), NEW r, FromLog(r)
    PROVE  /\ r.prev \in 0..Len(follower') /\ r.entries \in Seq(Sizes)
           /\ r.prev + Len(r.entries) <= Len(log')
           /\ \A i \in 1..Len(r.entries) : r.entries[i] = log'[r.prev + i]
<1>1. /\ r.prev \in 0..Len(follower) /\ r.entries \in Seq(Sizes)
      /\ r.prev + Len(r.entries) <= Len(log)
      /\ \A i \in 1..Len(r.entries) : r.entries[i] = log[r.prev + i]
  BY DEF FromLog
<1>2. ASSUME NEW i \in 1..Len(r.entries) PROVE r.entries[i] = log'[r.prev + i]
  <2>1. /\ r.prev \in Nat /\ Len(r.entries) \in Nat /\ Len(log) \in Nat
        /\ r.prev + Len(r.entries) <= Len(log)
    BY <1>1
  <2>2. r.prev + i \in 1..Len(log)
    BY <2>1
  <2>3. r.entries[i] = log[r.prev + i]
    BY <1>1
  <2> QED
    BY <2>2, <2>3
<1> QED
  BY <1>1, <1>2

(* Concatenation puts the second sequence behind the first. *)
LEMMA Concatenated ==
    ASSUME NEW S, NEW g \in Seq(S), NEW e \in Seq(S)
    PROVE  /\ g \o e \in Seq(S) /\ Len(g \o e) = Len(g) + Len(e)
           /\ \A i \in 1..(Len(g) + Len(e)) :
                 IF i <= Len(g) THEN (g \o e)[i] = g[i]
                 ELSE i - Len(g) \in 1..Len(e) /\ (g \o e)[i] = e[i - Len(g)]
OBVIOUS

(* The follower that handles a request has the leader's entries up to the
   end of the request, if not more. *)
LEMMA AppendedPrefix ==
    ASSUME ReplicationInv, NEW r, FromLog(r)
    PROVE  LET f == Appended(r) IN
           /\ f \in Seq(Sizes) /\ Len(follower) <= Len(f) /\ Len(f) <= Len(log)
           /\ r.prev + Len(r.entries) <= Len(f)
           /\ \A i \in 1..Len(f) : f[i] = log[i]
<1> DEFINE f == Appended(r)
<1>1. /\ log \in Seq(Sizes) /\ follower \in Seq(Sizes) /\ Len(follower) <= Len(log)
      /\ \A i \in 1..Len(follower) : follower[i] = log[i]
  BY DEF ReplicationInv, RepTypeOK, Prefix
<1>2. /\ r.prev \in 0..Len(follower) /\ r.entries \in Seq(Sizes)
      /\ r.prev + Len(r.entries) <= Len(log)
      /\ \A i \in 1..Len(r.entries) : r.entries[i] = log[r.prev + i]
  BY DEF FromLog
<1>3. CASE Len(follower) >= r.prev + Len(r.entries)
  BY <1>1, <1>2, <1>3 DEF Appended
<1>4. CASE ~(Len(follower) >= r.prev + Len(r.entries))
  <2> DEFINE g == SubSeq(follower, 1, r.prev)
  <2>1. /\ g \in Seq(Sizes) /\ Len(g) = r.prev
        /\ \A i \in 1..Len(g) : g[i] = follower[i]
    BY <1>1, <1>2
  <2>2. /\ \A i \in 1..Len(g) : g[i] = log[i]
        /\ \A i \in 1..Len(r.entries) : r.entries[i] = log[Len(g) + i]
    BY <1>1, <1>2, <2>1
  <2>3. f = g \o r.entries
    BY <1>4 DEF Appended
  <2> HIDE DEF f, g
  <2>4. /\ f \in Seq(Sizes) /\ Len(f) = Len(g) + Len(r.entries)
        /\ \A i \in 1..Len(f) : f[i] = log[i]
    <3> DEFINE e == r.entries
    <3>1. g \in Seq(Sizes) /\ e \in Seq(Sizes) /\ f = g \o e
      BY <1>2, <2>1, <2>3
    <3>2. /\ \A i \in 1..Len(g) : g[i] = log[i]
          /\ \A i \in 1..Len(e) : e[i] = log[Len(g) + i]
      BY <2>2
    <3> HIDE DEF e
    <3>3. /\ f \in Seq(Sizes) /\ Len(f) = Len(g) + Len(e)
          /\ \A i \in 1..(Len(g) + Len(e)) :
                IF i <= Len(g) THEN f[i] = g[i]
                ELSE i - Len(g) \in 1..Len(e) /\ f[i] = e[i - Len(g)]
      BY <3>1, Concatenated
    <3>4. ASSUME NEW i \in 1..(Len(g) + Len(e)) PROVE f[i] = log[i]
      <4>1. CASE i <= Len(g)
        BY <3>1, <3>2, <3>3, <4>1
      <4>2. CASE ~(i <= Len(g))
        <5>1. /\ i - Len(g) \in 1..Len(e) /\ f[i] = e[i - Len(g)]
              /\ Len(g) + (i - Len(g)) = i
          BY <3>1, <3>3, <4>2
        <5> QED
          BY <3>2, <5>1
      <4> QED
        BY <4>1, <4>2
    <3> QED
      BY <3>3, <3>4 DEF e
  <2>5. r.prev \in Nat /\ Len(r.entries) \in Nat /\ Len(follower) \in Nat /\ Len(log) \in Nat
    BY <1>1, <1>2
  <2>6. Len(follower) <= Len(f) /\ Len(f) <= Len(log) /\ r.prev + Len(r.entries) <= Len(f)
    BY <1>2, <1>4, <2>1, <2>4, <2>5
  <2> QED
    BY <2>4, <2>6 DEF f
<1> QED
  BY <1>3, <1>4
(* The leader's own steps only add to its log. *)
LEMMA LeaderInv ==
    ASSUME ReplicationInv,
           (\E size \in Sizes : Write(size)) \/ BuildSnapshot
    PROVE  ReplicationInv'
<1>0. log \in Seq(Sizes) /\ follower \in Seq(Sizes) /\ Len(log) \in Nat
  BY DEF ReplicationInv, RepTypeOK
<1>1. ASSUME NEW size \in Sizes, Write(size) PROVE ReplicationInv'
  <2>1. /\ log' = Append(log, size) /\ follower' = follower
        /\ UNCHANGED <<purged, snapshot, matched, stream, request, reply, late, lost>>
    BY <1>1 DEF Write
  <2>2. /\ log' \in Seq(Sizes) /\ Len(log') = Len(log) + 1 /\ Len(log') <= MaxLog
        /\ \A i \in 1..Len(log) : log'[i] = log[i]
    BY <1>0, <1>1, <2>1, ReplicationAssumption DEF Write
  <2>3. RepTypeOK'
    BY <1>0, <2>1, <2>2 DEF ReplicationInv, RepTypeOK
  <2>4. Prefix'
    BY <1>0, <2>1, <2>2 DEF ReplicationInv, Prefix
  <2>5. \A r : FromLog(r) => FromLog(r)'
    BY <1>0, <2>1, <2>2, FromLogKept DEF FromLog
  <2> QED
    BY <2>1, <2>3, <2>4, <2>5 DEF ReplicationInv, UnderWay
<1>2. CASE BuildSnapshot
  <2>1. UNCHANGED <<log, matched, stream, request, reply, late, follower, lost>>
    BY <1>2 DEF BuildSnapshot
  <2>2. snapshot' \in 0..Len(log) /\ purged' \in 0..Len(log)
    <3>1. purged \in 0..Len(log) /\ Keep \in Nat
      BY ReplicationAssumption DEF ReplicationInv, RepTypeOK
    <3>2. /\ snapshot' = Len(log)
          /\ purged' = IF Len(log) > Keep + purged THEN Len(log) - Keep ELSE purged
      BY <1>2 DEF BuildSnapshot
    <3> QED
      BY <1>0, <3>1, <3>2
  <2> QED
    BY <2>1, <2>2 DEF ReplicationInv, RepTypeOK, Prefix, UnderWay, FromLog
<1> QED
  BY <1>1, <1>2

(* The replication task sends what the follower lacks, and believes an answer
   only when it is good. *)
LEMMA NetworkInv ==
    ASSUME ReplicationInv, Network
    PROVE  ReplicationInv'
<1>0. UNCHANGED <<log, purged, snapshot, follower>>
  BY DEF Network, AppendEntries, InstallSnapshot, Succeeds,
         Fails, TimesOut, leaderVars
<1>1. CASE AppendEntries
  <2>1. request' = NextRequest /\ stream' = "calling" /\ UNCHANGED <<matched, reply, late, lost>>
    BY <1>1 DEF AppendEntries
  <2>2. FromLog(NextRequest) /\ NextRequest.prev = matched
    BY <1>1, NextRequestFromLog DEF AppendEntries
  <2>3. FromLog(request)' /\ request'.prev \in 0..Len(log') /\ request'.entries \in Seq(Sizes)
    BY <1>0, <2>1, <2>2 DEF FromLog, ReplicationInv, RepTypeOK
  <2> QED
    BY <1>0, <2>1, <2>3 DEF ReplicationInv, RepTypeOK, Prefix, UnderWay, FromLog
<1>2. CASE InstallSnapshot
  BY <1>0, <1>2 DEF InstallSnapshot, ReplicationInv, RepTypeOK, Prefix, UnderWay, FromLog
<1>3. CASE Succeeds
  <2>1. /\ matched' \in 0..Len(log) /\ matched' <= Len(follower) /\ stream' = "ready"
        /\ reply' = Nothing /\ UNCHANGED <<request, late, lost>>
    BY <1>3 DEF Succeeds, ReplicationInv, RepTypeOK, UnderWay
  <2> QED
    BY <1>0, <2>1 DEF ReplicationInv, RepTypeOK, Prefix, UnderWay, FromLog
<1>4. CASE Fails
  BY <1>0, <1>4 DEF Fails, ReplicationInv, RepTypeOK, Prefix, UnderWay, FromLog
<1>5. CASE TimesOut
  <2>1. /\ matched' = matched /\ stream' = "ready" /\ request' = Nothing /\ reply' = Nothing
        /\ lost' \in 0..MaxLost
    <3>1. lost \in 0..MaxLost /\ MaxLost \in Nat
      BY ReplicationAssumption DEF ReplicationInv, RepTypeOK
    <3> QED
      BY <1>5, <3>1 DEF TimesOut
  <2>2. \A r \in late' : FromLog(r)
    BY <1>5 DEF TimesOut, ReplicationInv, UnderWay
  <2> QED
    BY <1>0, <2>1, <2>2 DEF ReplicationInv, RepTypeOK, Prefix, UnderWay, FromLog
<1> QED
  BY <1>1, <1>2, <1>3, <1>4, <1>5 DEF Network

(* The follower's log stays a prefix of the leader's, whichever request it
   handles. *)
LEMMA FollowerAppends ==
    ASSUME ReplicationInv, NEW r, FromLog(r), follower' = Appended(r),
           UNCHANGED <<log, purged, snapshot, matched>>
    PROVE  /\ follower' \in Seq(Sizes) /\ Prefix' /\ r.prev + Len(r.entries) <= Len(follower')
           /\ Len(follower) <= Len(follower')
           /\ \A q : FromLog(q) => FromLog(q)'
<1>1. /\ follower' \in Seq(Sizes) /\ Len(follower) <= Len(follower') /\ Len(follower') <= Len(log)
      /\ r.prev + Len(r.entries) <= Len(follower')
      /\ \A i \in 1..Len(follower') : follower'[i] = log[i]
  BY AppendedPrefix
<1>2. /\ log \in Seq(Sizes) /\ follower \in Seq(Sizes) /\ matched \in Nat /\ Len(follower) \in Nat
      /\ Len(follower') \in Nat /\ matched <= Len(follower)
  BY <1>1 DEF ReplicationInv, RepTypeOK, Prefix
<1>3. Prefix'
  BY <1>1, <1>2 DEF Prefix
<1>4. \A q : FromLog(q) => FromLog(q)'
  BY <1>1, <1>2, FromLogKept DEF FromLog
<1> QED
  BY <1>1, <1>3, <1>4

(* The server answers a request once, and handles it even when nobody waits. *)
LEMMA ServerInv ==
    ASSUME ReplicationInv, Server
    PROVE  ReplicationInv'
<1>0. UNCHANGED <<log, purged, snapshot, matched, stream, lost>>
  BY DEF Server, TooLarge, HandleAppend, HandleLate, leaderVars
<1>1. CASE TooLarge
  <2>1. /\ reply' = [ok |-> FALSE, end |-> request.prev] /\ request' = Nothing
        /\ UNCHANGED <<late, follower>>
    BY <1>1 DEF TooLarge
  <2>2. request.prev \in 0..Len(log)
    BY <1>1 DEF TooLarge, ReplicationInv, RepTypeOK
  <2> QED
    BY <1>0, <2>1, <2>2 DEF ReplicationInv, RepTypeOK, Prefix, UnderWay, FromLog
<1>2. CASE HandleAppend
  <2>1. /\ reply' = [ok |-> TRUE, end |-> request.prev + Len(request.entries)] /\ request' = Nothing
        /\ follower' = Appended(request) /\ UNCHANGED late
    BY <1>2 DEF HandleAppend
  <2>2. FromLog(request)
    BY <1>2 DEF HandleAppend, ReplicationInv, UnderWay
  <2>3. /\ follower' \in Seq(Sizes) /\ Prefix'
        /\ request.prev + Len(request.entries) <= Len(follower')
        /\ \A q : FromLog(q) => FromLog(q)'
    BY <1>0, <2>1, <2>2, FollowerAppends
  <2>4. request.prev + Len(request.entries) \in 0..Len(log)
    BY <2>2 DEF FromLog, ReplicationInv, RepTypeOK
  <2>5. RepTypeOK'
    BY <1>0, <2>1, <2>3, <2>4 DEF ReplicationInv, RepTypeOK
  <2>6. UnderWay'
    BY <2>1, <2>3 DEF ReplicationInv, UnderWay
  <2> QED
    BY <2>3, <2>5, <2>6 DEF ReplicationInv
<1>3. CASE HandleLate
  <2>1. PICK r \in late :
            /\ late' = late \ {r}
            /\ follower' = IF Fits(r) THEN Appended(r) ELSE follower
            /\ UNCHANGED <<request, reply>>
    BY <1>3 DEF HandleLate
  <2>2. CASE ~Fits(r)
    <3>1. follower' = follower
      BY <2>1, <2>2
    <3> QED
      BY <1>0, <2>1, <3>1 DEF ReplicationInv, RepTypeOK, Prefix, UnderWay, FromLog
  <2>3. CASE Fits(r)
    <3>1. follower' = Appended(r) /\ FromLog(r)
      BY <2>1, <2>3 DEF ReplicationInv, UnderWay
    <3>2. /\ follower' \in Seq(Sizes) /\ Prefix' /\ Len(follower) <= Len(follower')
          /\ \A q : FromLog(q) => FromLog(q)'
      BY <1>0, <3>1, FollowerAppends
    <3>3. RepTypeOK'
      BY <1>0, <2>1, <3>2 DEF ReplicationInv, RepTypeOK
    <3>4. reply # Nothing /\ reply.ok => reply.end <= Len(follower')
      BY <3>2 DEF ReplicationInv, RepTypeOK, UnderWay
    <3>5. UnderWay'
      BY <2>1, <3>2, <3>4 DEF ReplicationInv, UnderWay
    <3> QED
      BY <3>2, <3>3, <3>5 DEF ReplicationInv
  <2> QED
    BY <2>2, <2>3
<1> QED
  BY <1>1, <1>2, <1>3 DEF Server

(* Every step keeps the invariant; losses only take things away. *)
LEMMA ReplicationNext ==
    ReplicationInv /\ [RepNext]_repVars => ReplicationInv'
<1> SUFFICES ASSUME ReplicationInv, [RepNext]_repVars PROVE ReplicationInv'
  OBVIOUS
<1> USE DEF ReplicationInv, RepTypeOK, Prefix, UnderWay, FromLog, leaderVars
<1>1. CASE Lose
  <2>1. lost' \in 0..MaxLost
    <3>1. lost \in 0..MaxLost /\ MaxLost \in Nat
      BY ReplicationAssumption
    <3> QED
      BY <1>1, <3>1 DEF Lose
  <2> QED
    BY <1>1, <2>1 DEF Lose
<1>2. CASE UNCHANGED repVars
  BY <1>2 DEF repVars
<1> QED
  BY <1>1, <1>2, LeaderInv, NetworkInv, ServerInv DEF RepNext

(* The entries of the follower are the first of the leader's, whatever the
   network loses, delays or repeats, and those the leader counts as matched
   are among them. *)
THEOREM FollowersHavePrefix == RepSpec => []FollowerHasPrefix
<1>1. ReplicationInv => FollowerHasPrefix
  <2> SUFFICES ASSUME ReplicationInv PROVE follower = SubSeq(log, 1, Len(follower))
    BY DEF ReplicationInv, Prefix, FollowerHasPrefix
  <2>1. /\ log \in Seq(Sizes) /\ follower \in Seq(Sizes) /\ Len(follower) <= Len(log)
        /\ \A i \in 1..Len(follower) : follower[i] = log[i]
    BY DEF ReplicationInv, Prefix, RepTypeOK
  <2>2. /\ SubSeq(log, 1, Len(follower)) \in Seq(Sizes)
        /\ Len(SubSeq(log, 1, Len(follower))) = Len(follower)
        /\ \A i \in 1..Len(follower) : SubSeq(log, 1, Len(follower))[i] = log[i]
    BY <2>1
  <2> QED
    BY <2>1, <2>2
<1> QED
  BY <1>1, ReplicationInit, ReplicationNext, PTL DEF RepSpec

(* The variables of Replication keep their types: the leader never counts
   more entries as purged, snapshot or matched than it has. *)
THEOREM ReplicationTypes == RepSpec => []RepTypeOK
<1>1. ReplicationInv => RepTypeOK
  BY DEF ReplicationInv
<1> QED
  BY <1>1, ReplicationInit, ReplicationNext, PTL DEF RepSpec
=============================================================================
