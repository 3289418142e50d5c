-------------------------- MODULE StoreRefinement --------------------------
(***************************************************************************)
(* The nodes of ReplicatedStore together are one LinearizableStore.  A     *)
(* call is pending there from the call of the method to its return; the    *)
(* log, the requests and the versions are the same.                        *)
(***************************************************************************)
EXTENDS ReplicatedStore

AbstractCall ==
    [c \in Clients |->
        [pc     |-> IF Active(c) THEN "pending" ELSE call[c].pc,
         id     |-> call[c].id,
         start  |-> call[c].start,
         result |-> IF Active(c) THEN [tag |-> "Err", body |-> None]
                    ELSE [tag |-> call[c].result.tag, body |-> call[c].result.body]]]

Store == INSTANCE LinearizableStore WITH call <- AbstractCall

(* Without remove requests, every answer of every node is one that a single
   store could have given: a ReadIndex read sees all writes that returned
   before it was called, across leader changes and replaced nodes, and a
   retried or redirected write happens at most once. *)
Linearizability == Store!Spec
=============================================================================
