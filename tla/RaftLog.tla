------------------------------ MODULE RaftLog ------------------------------
(***************************************************************************)
(* What openraft relies on in a log storage: a sequence of entries that    *)
(* follows the last purged log id without a gap.  Appending extends it,    *)
(* truncating shortens it at the end, purging at the beginning; reading a  *)
(* range returns exactly the entries of that range that are there.         *)
(***************************************************************************)
EXTENDS Naturals, Sequences

CONSTANTS
    Terms,      \* terms of leaders
    MaxIndex,   \* bound on log indices
    NoLogId     \* Rust's None

VARIABLES
    purged,     \* the last purged log id
    entries,    \* terms of the entries after it
    committed,  \* the last committed log id saved
    vote,       \* the last vote saved
    answer      \* what the last read returned

vars == <<purged, entries, committed, vote, answer>>

LogId == [term : Terms, index : 0..MaxIndex]
NextIndex(id) == IF id = NoLogId THEN 0 ELSE id.index + 1

Begin == NextIndex(purged)
End == Begin + Len(entries)
EntryAt(i) == entries[i - Begin + 1]
LastLogId == IF entries = <<>> THEN purged
             ELSE [term |-> entries[Len(entries)], index |-> End - 1]

Init ==
    /\ purged = NoLogId
    /\ entries = <<>>
    /\ committed = NoLogId
    /\ vote = 0
    /\ answer = [entries |-> <<>>]

SaveVote == vote' \in Terms /\ UNCHANGED <<purged, entries, committed, answer>>

SaveCommitted ==
    /\ committed' \in {[term |-> EntryAt(i), index |-> i] : i \in Begin..End - 1}
    /\ UNCHANGED <<purged, entries, vote, answer>>

AppendLog ==
    /\ entries' \in Seq(Terms) /\ Len(entries') > Len(entries)
    /\ SubSeq(entries', 1, Len(entries)) = entries
    /\ UNCHANGED <<purged, committed, vote, answer>>

Truncate ==
    /\ \E i \in Begin..End - 1 : entries' = SubSeq(entries, 1, i - Begin)
    /\ UNCHANGED <<purged, committed, vote, answer>>

Purge ==
    /\ \E id \in LogId :
          /\ id.index >= Begin
          /\ purged' = id
          /\ entries' = IF id.index < End THEN SubSeq(entries, id.index - Begin + 2, Len(entries))
                        ELSE <<>>
    /\ UNCHANGED <<committed, vote, answer>>

GetLogState ==
    /\ answer' = [last_purged_log_id |-> purged, last_log_id |-> LastLogId]
    /\ UNCHANGED <<purged, entries, committed, vote>>

TryGetLogEntries ==
    /\ \E a, b \in 0..MaxIndex + 1 :
          answer' = [entries |-> [i \in (a..b - 1) \cap (Begin..End - 1) |-> EntryAt(i)]]
    /\ UNCHANGED <<purged, entries, committed, vote>>

Next ==
    \/ SaveVote \/ SaveCommitted
    \/ AppendLog \/ Truncate \/ Purge
    \/ GetLogState \/ TryGetLogEntries

Spec == Init /\ [][Next]_vars
=============================================================================
