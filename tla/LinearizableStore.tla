------------------------- MODULE LinearizableStore -------------------------
(***************************************************************************)
(* What the collections promise their callers, without nodes or messages:  *)
(* "Linearizable via quorum confirmation on every read"                    *)
(* (src/src/collections/mod.rs, ReadConsistency) over one store that the   *)
(* writes change one after the other.                                      *)
(*                                                                         *)
(* A write takes effect at most once, after it was called, and answers     *)
(* from the version it found.  A linearizable read answers from a version  *)
(* that was current at some moment between its call and its return; the    *)
(* stale consistencies may answer from any earlier version, but never from *)
(* a state that was no version.  A call may fail at any time; a failed     *)
(* write may still take effect.                                            *)
(***************************************************************************)
EXTENDS Collections, Sequences

CONSTANTS Clients, Requests

VARIABLES
    issued,    \* the requests of all calls so far; a call's id is its position
    log,       \* the writes that took effect, in order
    versions,  \* versions[i] is the store before the i-th write
    call       \* the current or last call of every client

vars == <<issued, log, versions, call>>

Error == [tag |-> "Err", body |-> None]
Ok(v) == [tag |-> "Ok", body |-> v]

NoCall == [pc |-> "idle", id |-> 0, start |-> 0, result |-> Error]

Init ==
    /\ issued = <<>>
    /\ log = <<>>
    /\ versions = <<EmptyData>>
    /\ call = [c \in Clients |-> NoCall]

Call(c, r) ==
    /\ call[c].pc # "pending"
    /\ issued' = Append(issued, r)
    /\ call' = [call EXCEPT ![c] = [pc |-> "pending", id |-> Len(issued) + 1,
                                    start |-> Len(log), result |-> Error]]
    /\ UNCHANGED <<log, versions>>

TakeEffect(i) ==
    /\ issued[i] \in LogRequests
    /\ \A j \in DOMAIN log : log[j].id # i
    /\ log' = Append(log, [id |-> i, req |-> issued[i]])
    /\ versions' = Append(versions, ApplyRequest(versions[Len(versions)], issued[i]))
    /\ UNCHANGED <<issued, call>>

(* The versions a read called at log length start may answer from. *)
Readable(r, start) ==
    IF r.consistency \in {"LeaseRead", "ReadIndex"} THEN start .. Len(log) ELSE 0 .. Len(log)

Answers(c) ==
    LET r == issued[call[c].id] IN
    IF r \in ReadRequests
    THEN {ReadResponse(versions[i + 1], r) : i \in Readable(r, call[c].start)}
    ELSE {ApplyResponse(versions[i], r) : i \in {j \in DOMAIN log : log[j].id = call[c].id}}

Return(c) ==
    /\ call[c].pc = "pending"
    /\ \E res \in {Ok(v) : v \in Answers(c)} \cup {Error} :
          call' = [call EXCEPT ![c].pc = "done", ![c].result = res]
    /\ UNCHANGED <<issued, log, versions>>

(* The process of the caller ends. *)
Vanish(S) ==
    /\ call' = [c \in Clients |-> IF c \in S THEN NoCall ELSE call[c]]
    /\ UNCHANGED <<issued, log, versions>>

Next ==
    \/ \E c \in Clients, r \in Requests : Call(c, r)
    \/ \E i \in DOMAIN issued : TakeEffect(i)
    \/ \E c \in Clients : Return(c)
    \/ \E S \in SUBSET Clients : Vanish(S)

Spec == Init /\ [][Next]_vars
=============================================================================
