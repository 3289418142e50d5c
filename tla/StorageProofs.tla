--------------------------- MODULE StorageProofs ---------------------------
(***************************************************************************)
(* Theorems about LogStorage, for any terms and logs of any length: the    *)
(* map implements the gapless log of RaftLog; and about Snapshots, for     *)
(* logs of any length, any membership entries and any number of snapshots. *)
(***************************************************************************)
EXTENDS LogStorage, Snapshots, FiniteSetTheorems, TLAPS

First == NextIndex(last_purged_log_id)
Size == Cardinality(Indices)

(* The map holds Size entries from index First on. *)
Shape ==
    /\ First \in 0..MaxIndex + 1 /\ Size \in Nat
    /\ First + Size <= MaxIndex + 1
    /\ Indices = First..First + Size - 1

IInv == TypeOK /\ Contiguous

(* The number of indices from a to b. *)
LEMMA IntervalSize ==
    ASSUME NEW a \in Int, NEW b \in Int
    PROVE  Cardinality(a..b) = IF a > b THEN 0 ELSE b - a + 1
BY FS_Interval

(* A gapless map has the shape above. *)
LEMMA ShapeOf == IInv => Shape
<1> SUFFICES ASSUME IInv PROVE Shape
  OBVIOUS
<1>1. First \in 0..MaxIndex + 1
  BY LogAssumption DEF IInv, TypeOK, First, NextIndex, LogId
<1>2. PICK e \in 0..MaxIndex + 1 : Indices = First..e - 1
  BY DEF IInv, Contiguous, First
<1>3. First \in Int /\ e - 1 \in Int /\ MaxIndex \in Nat
  BY <1>1, <1>2, LogAssumption
<1>4. Size = IF First > e - 1 THEN 0 ELSE e - 1 - First + 1
  BY <1>2, <1>3, FS_Interval DEF Size
<1> QED BY <1>1, <1>2, <1>3, <1>4 DEF Shape

(* The same after a step. *)
LEMMA ShapeOfNext == IInv' => Shape'
BY ShapeOf, PTL

(* The last log id is the one before First + Size. *)
LEMMA LastOf ==
    ASSUME IInv
    PROVE  /\ Size = 0 => LastLogId = last_purged_log_id
           /\ Size > 0 => LastLogId = [term |-> log[First + Size - 1], index |-> First + Size - 1]
           /\ NextIndex(LastLogId) = First + Size
<1>1. Shape
  BY ShapeOf
<1>2. CASE Size = 0
  BY <1>1, <1>2 DEF Shape, LastLogId, First
<1>3. CASE Size > 0
  <2> DEFINE m == First + Size - 1
  <2>1. m \in Indices /\ \A j \in Indices : j \in Nat /\ j <= m
    BY <1>1, <1>3 DEF Shape
  <2> HIDE DEF m
  <2>2. \A i \in Indices : (\A j \in Indices : j <= i) => i = m
    BY <2>1
  <2>3. LastIndex = m
    BY <2>1, <2>2 DEF LastIndex
  <2>4. LastLogId = [term |-> log[m], index |-> m]
    BY <2>1, <2>3 DEF LastLogId
  <2>5. m \in 0..MaxIndex /\ log[m] \in Terms
    BY <1>1, <1>3, <2>1 DEF IInv, TypeOK
  <2>6. LastLogId # NoLogId
    BY <2>4, <2>5, LogAssumption DEF LogId
  <2>7. NextIndex(LastLogId) = m + 1
    BY <2>4, <2>6 DEF NextIndex
  <2> QED BY <1>1, <1>3, <2>4, <2>7 DEF m, Shape
<1> QED BY <1>1, <1>2, <1>3 DEF Shape

(* What each operation that writes does to the map. *)
LEMMA AppendShape ==
    ASSUME IInv, NEW ts \in Batches, AppendLog(ts)
    PROVE  /\ IInv'
           /\ Len(ts) \in 1..2 /\ \A k \in 1..Len(ts) : ts[k] \in Terms
           /\ First' = First /\ Size' = Size + Len(ts)
           /\ \A i \in First..First + Size - 1 : log'[i] = log[i]
           /\ \A k \in 1..Len(ts) : log'[First + Size + k - 1] = ts[k]
<1>1. Shape /\ NextIndex(LastLogId) = First + Size
  BY ShapeOf, LastOf
<1>2. Len(ts) \in 1..2 /\ \A k \in 1..Len(ts) : ts[k] \in Terms
  BY DEF Batches
<1> DEFINE f == First + Size
           n == Len(ts)
<1>3. /\ f \in Nat /\ f + n <= MaxIndex + 1 /\ MaxIndex \in Nat
      /\ log' = [i \in Indices \cup (f .. f + n - 1) |-> IF i < f THEN log[i] ELSE ts[i - f + 1]]
      /\ UNCHANGED <<last_purged_log_id, committed, vote, answer>>
  BY <1>1, LogAssumption DEF AppendLog, Shape
<1>4. Indices = First..f - 1 /\ First \in 0..MaxIndex + 1 /\ First <= f
  BY <1>1 DEF Shape
<1> HIDE DEF f, n
<1>5. n \in 1..2
  BY <1>2 DEF n
<1>6. Indices' = First..f + n - 1
  <2>1. Indices \cup (f .. f + n - 1) = First .. f + n - 1
    BY <1>3, <1>4, <1>5
  <2> QED BY <1>3, <2>1 DEF Indices
<1>7. First' = First
  BY <1>3 DEF First
<1>8. Size' = f + n - First
  <2> DEFINE last == f + n - 1
  <2>1. First \in Int /\ last \in Int /\ ~(First > last)
    BY <1>3, <1>4, <1>5
  <2>2. Indices' = First..last
    BY <1>6
  <2> HIDE DEF last
  <2>3. Size' = last - First + 1
    BY <2>1, <2>2, IntervalSize DEF Size
  <2> QED BY <2>3, <1>3, <1>4, <1>5 DEF last
<1>9. /\ \A i \in First..f - 1 : log'[i] = log[i]
      /\ \A k \in 1..n : log'[f + k - 1] = ts[k]
  BY <1>3, <1>4, <1>5
<1>10. log' \in [Indices' -> Terms]
  <2>1. \A i \in Indices' : log'[i] \in Terms
    <3> SUFFICES ASSUME NEW i \in Indices' PROVE log'[i] \in Terms
      OBVIOUS
    <3>1. CASE i < f
      BY <1>3, <1>4, <1>6, <1>9, <3>1 DEF IInv, TypeOK
    <3>2. CASE i >= f
      <4>1. i \in Int /\ i <= f + n - 1 /\ f \in Int /\ n \in Int
        BY <1>3, <1>4, <1>5, <1>6
      <4>2. i - f + 1 \in 1..n /\ f + (i - f + 1) - 1 = i
        BY <4>1, <3>2
      <4> QED BY <4>2, <1>9, <1>2 DEF n
    <3> QED BY <1>3, <1>4, <1>6, <3>1, <3>2
  <2> QED BY <2>1, <1>3 DEF Indices
<1>11. TypeOK'
  BY <1>3, <1>4, <1>5, <1>6, <1>10 DEF IInv, TypeOK
<1>12. Contiguous'
  <2>1. f + n \in 0..MaxIndex + 1
    BY <1>3, <1>5
  <2>2. \E e \in 0..MaxIndex + 1 : Indices' = First'..e - 1
    <3>1. (f + n) - 1 = f + n - 1
      BY <1>3, <1>5
    <3>2. Indices' = First'..(f + n) - 1
      BY <1>6, <1>7, <3>1, Zenon
    <3> QED BY <2>1, <3>2, Zenon
  <2> QED BY <2>2 DEF Contiguous, First
<1> QED BY <1>1, <1>2, <1>3, <1>4, <1>7, <1>8, <1>9, <1>11, <1>12 DEF IInv, f, n, Shape

(* Truncating keeps the entries below the given index. *)
LEMMA TruncateShape ==
    ASSUME IInv, NEW i \in 0..MaxIndex, Truncate(i)
    PROVE  /\ IInv'
           /\ i \in First..First + Size - 1
           /\ First' = First /\ Size' = i - First
           /\ \A j \in First..i - 1 : log'[j] = log[j]
<1>1. Shape
  BY ShapeOf
<1>2. /\ i \in Indices
      /\ log' = [j \in Indices \cap {k \in Indices : k < i} |-> log[j]]
      /\ UNCHANGED <<last_purged_log_id, committed, vote, answer>>
  BY DEF Truncate, Within, Indices
<1>3. i \in First..First + Size - 1 /\ First \in Nat /\ Size \in Nat /\ MaxIndex \in Nat
  BY <1>1, <1>2, LogAssumption DEF Shape
<1>4. Indices \cap {k \in Indices : k < i} = First..i - 1
  BY <1>1, <1>3 DEF Shape
<1>5. Indices' = First..i - 1
  BY <1>2, <1>4 DEF Indices
<1>6. First' = First
  BY <1>2 DEF First
<1>7. Size' = i - First
  <2>1. First \in Int /\ i - 1 \in Int
    BY <1>3
  <2>2. Size' = IF First > i - 1 THEN 0 ELSE i - 1 - First + 1
    BY <2>1, <1>5, IntervalSize DEF Size
  <2> QED BY <2>2, <1>3
<1>8. \A j \in First..i - 1 : log'[j] = log[j]
  BY <1>2, <1>4
<1>9. log' \in [Indices' -> Terms]
  <2>1. First..i - 1 \subseteq Indices
    BY <1>1, <1>3 DEF Shape
  <2>2. \A j \in Indices' : log'[j] \in Terms
    BY <2>1, <1>5, <1>8 DEF IInv, TypeOK
  <2> QED BY <2>2, <1>2 DEF Indices
<1>10. TypeOK'
  BY <1>2, <1>3, <1>5, <1>9 DEF IInv, TypeOK
<1>11. Contiguous'
  BY <1>3, <1>5, <1>6 DEF Contiguous, First
<1> QED BY <1>3, <1>6, <1>7, <1>8, <1>10, <1>11 DEF IInv

(* Purging keeps the entries behind the purged id. *)
LEMMA PurgeShape ==
    ASSUME IInv, NEW id \in LogId, Purge(id)
    PROVE  /\ IInv'
           /\ last_purged_log_id' = id
           /\ id.index \in First..MaxIndex
           /\ First' = id.index + 1
           /\ Size' = IF id.index < First + Size THEN First + Size - id.index - 1 ELSE 0
           /\ \A j \in First'..First + Size - 1 : log'[j] = log[j]
<1> DEFINE x == id.index
<1>1. Shape /\ x \in 0..MaxIndex /\ MaxIndex \in Nat
  BY ShapeOf, LogAssumption DEF LogId
<1>2. /\ x >= First
      /\ last_purged_log_id' = id
      /\ log' = [j \in Indices \cap {k \in Indices : k > x} |-> log[j]]
      /\ UNCHANGED <<committed, vote, answer>>
  BY DEF Purge, Within, Indices, First
<1>3. First' = x + 1
  BY <1>2, LogAssumption DEF First, NextIndex
<1> HIDE DEF x
<1>4. First \in Nat /\ Size \in Nat /\ First + Size <= MaxIndex + 1
  BY <1>1 DEF Shape
<1>5. Indices \cap {k \in Indices : k > x} = x + 1..First + Size - 1
  BY <1>1, <1>2, <1>4 DEF Shape
<1>6. Indices' = x + 1..First + Size - 1
  BY <1>2, <1>5 DEF Indices
<1>7. Size' = IF x < First + Size THEN First + Size - x - 1 ELSE 0
  <2> DEFINE a == x + 1
             b == First + Size - 1
  <2>1. a \in Int /\ b \in Int /\ Indices' = a..b
    BY <1>1, <1>4, <1>6
  <2> HIDE DEF a, b
  <2>2. Size' = IF a > b THEN 0 ELSE b - a + 1
    BY <2>1, IntervalSize DEF Size
  <2> QED BY <2>2, <1>1, <1>4 DEF a, b
<1>8. \A j \in x + 1..First + Size - 1 : log'[j] = log[j]
  BY <1>2, <1>5
<1>9. log' \in [Indices' -> Terms]
  <2>1. x + 1..First + Size - 1 \subseteq Indices
    BY <1>1, <1>2, <1>4 DEF Shape
  <2>2. \A j \in Indices' : log'[j] \in Terms
    BY <2>1, <1>6, <1>8 DEF IInv, TypeOK
  <2> QED BY <2>2, <1>2 DEF Indices
<1>10. TypeOK'
  BY <1>1, <1>2, <1>4, <1>6, <1>9 DEF IInv, TypeOK
<1>11. Contiguous'
  BY <1>1, <1>3, <1>4, <1>6 DEF Contiguous, First
<1> QED BY <1>1, <1>2, <1>3, <1>7, <1>8, <1>10, <1>11 DEF IInv, x

(* The storage starts empty. *)
LEMMA InitInvariant == Init => IInv
<1> SUFFICES ASSUME Init PROVE IInv
  OBVIOUS
<1>1. Indices = {}
  BY DEF Init, Indices
<1>2. TypeOK
  BY <1>1, LogAssumption DEF Init, TypeOK, Indices
<1>3. NextIndex(last_purged_log_id)..0 - 1 = {}
  BY DEF Init, NextIndex
<1> QED BY <1>1, <1>2, <1>3, LogAssumption DEF IInv, Contiguous

(* An operation that reads, or saves the vote or the committed id, leaves the
   log alone. *)
LEMMA Untouched ==
    ASSUME IInv, UNCHANGED <<last_purged_log_id, log>>,
           committed' \in LogId \cup {NoLogId}, vote' \in Terms \cup {0}
    PROVE  IInv'
BY DEF IInv, TypeOK, Contiguous, Indices

(* What is saved as committed is the id of an entry. *)
LEMMA CommittedType ==
    ASSUME IInv, NEW i \in 0..MaxIndex, SaveCommitted(i)
    PROVE  committed' \in LogId
BY DEF IInv, TypeOK, SaveCommitted, LogId

(* Every operation preserves the invariant. *)
LEMMA NextInvariant == IInv /\ [Next]_vars => IInv'
<1> SUFFICES ASSUME IInv, [Next]_vars PROVE IInv'
  OBVIOUS
<1>1. ASSUME NEW v \in Terms, SaveVote(v) PROVE IInv'
  BY <1>1, Untouched DEF SaveVote, IInv, TypeOK
<1>2. ASSUME NEW i \in 0..MaxIndex, SaveCommitted(i) PROVE IInv'
  BY <1>2, Untouched, CommittedType DEF SaveCommitted, IInv, TypeOK
<1>3. ASSUME NEW i \in 0..MaxIndex, Truncate(i) PROVE IInv'
  BY <1>3, TruncateShape
<1>4. ASSUME NEW ts \in Batches, AppendLog(ts) PROVE IInv'
  BY <1>4, AppendShape
<1>5. ASSUME NEW id \in LogId, Purge(id) PROVE IInv'
  BY <1>5, PurgeShape
<1>6. CASE GetLogState
  BY <1>6, Untouched DEF GetLogState, IInv, TypeOK
<1>7. ASSUME NEW a \in 0..MaxIndex + 1, NEW b \in 0..MaxIndex + 1, TryGetLogEntries(a, b)
      PROVE  IInv'
  BY <1>7, Untouched DEF TryGetLogEntries, IInv, TypeOK
<1>8. CASE UNCHANGED vars
  BY <1>8, Untouched DEF vars, IInv, TypeOK
<1> QED BY <1>1, <1>2, <1>3, <1>4, <1>5, <1>6, <1>7, <1>8 DEF Next

(* The variables keep their types. *)
THEOREM TypeCorrect == Spec => []TypeOK
<1>1. IInv => TypeOK
  BY DEF IInv
<1> QED BY <1>1, InitInvariant, NextInvariant, PTL DEF Spec

(* The map of entries never has a hole. *)
THEOREM NoHoles == Spec => []Contiguous
<1>1. IInv => Contiguous
  BY DEF IInv
<1> QED BY <1>1, InitInvariant, NextInvariant, PTL DEF Spec

(* A committed entry stays as it is until a purge covers it. *)
THEOREM KeepsCommitted == Spec => CommittedKept
<1> DEFINE Kept == \A i \in Indices : i < NextIndex(committed) =>
                      \/ i \in Indices' /\ log'[i] = log[i]
                      \/ i < NextIndex(last_purged_log_id')
<1>1. IInv /\ [Next]_vars => [Kept]_vars
  <2> SUFFICES ASSUME IInv, Next, NEW i \in Indices, i < NextIndex(committed)
               PROVE  \/ i \in Indices' /\ log'[i] = log[i]
                      \/ i < NextIndex(last_purged_log_id')
    OBVIOUS
  <2>1. Shape /\ i \in First..First + Size - 1 /\ First \in Nat /\ Size \in Nat
    BY ShapeOf DEF Shape
  <2>2. CASE UNCHANGED log
    BY <2>2 DEF Indices
  <2>3. ASSUME NEW k \in 0..MaxIndex, Truncate(k) PROVE i \in Indices' /\ log'[i] = log[i]
    <3>1. k >= NextIndex(committed)
      BY <2>3 DEF Truncate
    <3>2. NextIndex(committed) \in Nat
      BY LogAssumption DEF IInv, TypeOK, NextIndex, LogId
    <3>3. i < k
      BY <2>1, <3>1, <3>2
    <3>4. First' = First /\ Size' = k - First /\ \A j \in First..k - 1 : log'[j] = log[j]
      BY <2>3, TruncateShape
    <3>5. Shape'
      BY <2>3, TruncateShape, ShapeOfNext
    <3> QED BY <2>1, <3>3, <3>4, <3>5 DEF Shape
  <2>4. ASSUME NEW ts \in Batches, AppendLog(ts) PROVE i \in Indices' /\ log'[i] = log[i]
    <3>1. /\ First' = First /\ Size' = Size + Len(ts) /\ Len(ts) \in 1..2
          /\ \A j \in First..First + Size - 1 : log'[j] = log[j]
      BY <2>4, AppendShape
    <3>2. Shape'
      BY <2>4, AppendShape, ShapeOfNext
    <3> QED BY <2>1, <3>1, <3>2 DEF Shape
  <2>5. ASSUME NEW id \in LogId, Purge(id)
        PROVE  (i \in Indices' /\ log'[i] = log[i]) \/ i < NextIndex(last_purged_log_id')
    <3>1. /\ First' = id.index + 1 /\ id.index \in First..MaxIndex
          /\ Size' = IF id.index < First + Size THEN First + Size - id.index - 1 ELSE 0
          /\ \A j \in First'..First + Size - 1 : log'[j] = log[j]
      BY <2>5, PurgeShape
    <3>2. Shape'
      BY <2>5, PurgeShape, ShapeOfNext
    <3>3. CASE i < First'
      BY <3>3 DEF First
    <3>4. CASE i >= First'
      <4>1. i \in First'..First + Size - 1
        BY <2>1, <3>1, <3>4
      <4>2. log'[i] = log[i]
        BY <3>1, <4>1
      <4>3. i \in First'..First' + Size' - 1
        BY <2>1, <3>1, <4>1
      <4> QED BY <3>2, <4>2, <4>3 DEF Shape
    <3> QED BY <2>1, <3>1, <3>3, <3>4
  <2> QED BY <2>2, <2>3, <2>4, <2>5
      DEF Next, SaveVote, SaveCommitted, GetLogState, TryGetLogEntries
<1> QED BY <1>1, InitInvariant, NextInvariant, PTL DEF Spec, CommittedKept

-----------------------------------------------------------------------------

(* The sequence of the entries is that of the map, by index. *)
Sequenced ==
    /\ Entries \in Seq(Terms) /\ Len(Entries) = Size /\ Size \in Nat
    /\ \A k \in 1..Size : Entries[k] = log[First + k - 1]

(* Entries is the sequence of the entries of a gapless map. *)
LEMMA EntriesType == IInv => Sequenced
<1> SUFFICES ASSUME IInv PROVE Sequenced
  OBVIOUS
<1>1. Shape
  BY ShapeOf
<1>2. \A k \in 1..Size : log[First + k - 1] \in Terms
  <2> SUFFICES ASSUME NEW k \in 1..Size PROVE log[First + k - 1] \in Terms
    OBVIOUS
  <2>1. First + k - 1 \in Indices
    BY <1>1 DEF Shape
  <2> QED BY <2>1 DEF IInv, TypeOK
<1>3. Size \in Nat /\ Entries = [k \in 1..Size |-> log[First + k - 1]]
  BY <1>1 DEF Shape, Entries, Size, First
<1> QED BY <1>2, <1>3 DEF Sequenced

(* The abstract log begins and ends where the map does. *)
LEMMA AbstractEnds ==
    ASSUME IInv
    PROVE  /\ First \in Nat /\ Size \in Nat
           /\ RL!Begin = First /\ RL!End = First + Size
           /\ \A i \in First..First + Size - 1 : RL!EntryAt(i) = log[i]
           /\ RL!LastLogId = LastLogId
<1>1. /\ Shape /\ Sequenced /\ RL!Begin = First
      /\ First \in Nat /\ Size \in Nat
  BY ShapeOf, EntriesType DEF RL!Begin, RL!NextIndex, First, NextIndex, Shape
<1>2. RL!End = First + Size
  BY <1>1 DEF RL!End, Sequenced
<1>3. \A i \in First..First + Size - 1 : RL!EntryAt(i) = log[i]
  <2> SUFFICES ASSUME NEW i \in First..First + Size - 1 PROVE Entries[i - First + 1] = log[i]
    BY <1>1 DEF RL!EntryAt
  <2>1. i - First + 1 \in 1..Size /\ First + (i - First + 1) - 1 = i
    BY <1>1
  <2> QED BY <1>1, <2>1 DEF Sequenced
<1>4. RL!LastLogId = LastLogId
  <2>1. CASE Size = 0
    <3>1. Entries = <<>>
      BY <1>1, <2>1 DEF Sequenced
    <3> QED BY <2>1, <3>1, LastOf DEF RL!LastLogId
  <2>2. CASE Size > 0
    <3>1. Entries # <<>> /\ Entries[Len(Entries)] = log[First + Size - 1]
      BY <1>1, <2>2 DEF Sequenced
    <3>2. LastLogId = [term |-> log[First + Size - 1], index |-> First + Size - 1]
      BY <2>2, LastOf
    <3>3. RL!LastLogId = [term |-> Entries[Len(Entries)], index |-> RL!End - 1]
      BY <3>1, Zenon DEF RL!LastLogId
    <3>4. RL!End - 1 = First + Size - 1
      BY <1>1, <1>2
    <3> QED BY <3>1, <3>2, <3>3, <3>4, Zenon
  <2> QED BY <1>1, <2>1, <2>2
<1> QED BY <1>1, <1>2, <1>3, <1>4

(* The same after a step. *)
LEMMA EntriesTypeNext == IInv' => Sequenced'
BY EntriesType, PTL

(* Two sequences of terms of the same length and entries are the same. *)
LEMMA SameSequence ==
    ASSUME NEW s \in Seq(Terms), NEW t \in Seq(Terms), Len(s) = Len(t),
           \A k \in 1..Len(s) : s[k] = t[k]
    PROVE  s = t
OBVIOUS

(* Appending to the map appends to the sequence. *)
LEMMA AppendRefines ==
    ASSUME IInv, NEW ts \in Batches, AppendLog(ts)
    PROVE  RL!AppendLog
<1> DEFINE old == Entries
           new == Entries'
<1>1. /\ old \in Seq(Terms) /\ Len(old) = Size /\ Size \in Nat /\ First \in Nat
      /\ \A k \in 1..Size : old[k] = log[First + k - 1]
  BY EntriesType, ShapeOf DEF Shape, Sequenced
<1>2. /\ First' = First /\ Size' = Size + Len(ts) /\ Len(ts) \in 1..2
      /\ \A i \in First..First + Size - 1 : log'[i] = log[i]
  BY AppendShape
<1>3. /\ new \in Seq(Terms) /\ Len(new) = Size'
      /\ \A k \in 1..Size' : new[k] = log'[First' + k - 1]
  BY AppendShape, EntriesTypeNext DEF Sequenced
<1>4. UNCHANGED <<last_purged_log_id, committed, vote, answer>>
  BY DEF AppendLog
<1>5. \A k \in 1..Size : new[k] = old[k]
  <2> SUFFICES ASSUME NEW k \in 1..Size PROVE new[k] = old[k]
    OBVIOUS
  <2>1. k \in 1..Size' /\ First + k - 1 \in First..First + Size - 1
    BY <1>1, <1>2
  <2> QED BY <2>1, <1>1, <1>2, <1>3
<1> HIDE DEF old, new
<1>6. Len(new) > Len(old) /\ Len(old) \in Nat
  BY <1>1, <1>2, <1>3
<1>7. SubSeq(new, 1, Len(old)) = old
  <2>1. SubSeq(new, 1, Len(old)) \in Seq(Terms) /\ Len(SubSeq(new, 1, Len(old))) = Len(old)
        /\ \A k \in 1..Len(old) : SubSeq(new, 1, Len(old))[k] = new[k]
    BY <1>1, <1>3, <1>6
  <2> QED BY <2>1, <1>1, <1>5, SameSequence
<1> QED BY <1>3, <1>4, <1>6, <1>7 DEF RL!AppendLog, old, new

(* Truncating the map shortens the sequence. *)
LEMMA TruncateRefines ==
    ASSUME IInv, NEW i \in 0..MaxIndex, Truncate(i)
    PROVE  RL!Truncate
<1> DEFINE old == Entries
           new == Entries'
           n == i - First
<1>1. /\ old \in Seq(Terms) /\ Len(old) = Size /\ Size \in Nat /\ First \in Nat
      /\ \A k \in 1..Size : old[k] = log[First + k - 1]
  BY EntriesType, ShapeOf DEF Shape, Sequenced
<1>2. /\ i \in First..First + Size - 1 /\ First' = First /\ Size' = n
      /\ \A j \in First..i - 1 : log'[j] = log[j]
  BY TruncateShape
<1>3. /\ new \in Seq(Terms) /\ Len(new) = Size'
      /\ \A k \in 1..Size' : new[k] = log'[First' + k - 1]
  BY TruncateShape, EntriesTypeNext DEF Sequenced
<1>4. \A k \in 1..n : new[k] = old[k]
  <2> SUFFICES ASSUME NEW k \in 1..n PROVE new[k] = old[k]
    OBVIOUS
  <2>1. k \in 1..Size /\ First + k - 1 \in First..i - 1
    BY <1>1, <1>2
  <2> QED BY <2>1, <1>1, <1>2, <1>3
<1>5. n \in 0..Size
  BY <1>1, <1>2
<1> HIDE DEF old, new
<1>6. new = SubSeq(old, 1, n)
  <2>1. SubSeq(old, 1, n) \in Seq(Terms) /\ Len(SubSeq(old, 1, n)) = n
        /\ \A k \in 1..n : SubSeq(old, 1, n)[k] = old[k]
    <3> HIDE DEF n
    <3> QED BY <1>1, <1>5
  <2> QED BY <2>1, <1>2, <1>3, <1>4, SameSequence
<1>7. RL!Begin = First /\ i \in RL!Begin..RL!End - 1
  BY <1>1, <1>2, AbstractEnds
<1>8. UNCHANGED <<last_purged_log_id, committed, vote, answer>>
  BY DEF Truncate
<1>9. Entries' = SubSeq(Entries, 1, i - RL!Begin)
  BY <1>6, <1>7 DEF old, new
<1> QED BY <1>7, <1>8, <1>9, Zenon DEF RL!Truncate

(* Purging the map shortens the sequence at its beginning. *)
LEMMA PurgeRefines ==
    ASSUME IInv, NEW id \in LogId, Purge(id)
    PROVE  RL!Purge
<1> DEFINE old == Entries
           new == Entries'
           x == id.index
           d == x - First + 1
<1>1. /\ old \in Seq(Terms) /\ Len(old) = Size /\ Size \in Nat /\ First \in Nat
      /\ \A k \in 1..Size : old[k] = log[First + k - 1]
  BY EntriesType, ShapeOf DEF Shape, Sequenced
<1>2. /\ last_purged_log_id' = id /\ x \in First..MaxIndex /\ First' = x + 1
      /\ Size' = IF x < First + Size THEN First + Size - x - 1 ELSE 0
      /\ \A j \in First'..First + Size - 1 : log'[j] = log[j]
  BY PurgeShape
<1>3. /\ new \in Seq(Terms) /\ Len(new) = Size'
      /\ \A k \in 1..Size' : new[k] = log'[First' + k - 1]
  BY PurgeShape, EntriesTypeNext DEF Sequenced
<1>4. RL!Begin = First /\ RL!End = First + Size
  BY AbstractEnds
<1> HIDE DEF old, new, x
<1>5. MaxIndex \in Nat /\ x \in Nat /\ d \in Nat \ {0} /\ First' = First + d
  BY <1>1, <1>2, LogAssumption
<1>8. x >= RL!Begin /\ UNCHANGED <<committed, vote, answer>>
  BY <1>1, <1>2, <1>4, <1>5 DEF Purge
<1>6. CASE x < First + Size
  <2>1. d \in 1..Size /\ Size' = Size - d
    BY <1>1, <1>2, <1>5, <1>6
  <2> HIDE DEF d
  <2>2. \A k \in 1..Size - d : new[k] = old[k + d]
    <3> SUFFICES ASSUME NEW k \in 1..Size - d PROVE new[k] = old[k + d]
      OBVIOUS
    <3>1. k + d \in 1..Size /\ First' + k - 1 = First + (k + d) - 1
          /\ First' + k - 1 \in First'..First + Size - 1
      BY <1>1, <1>5, <2>1
    <3>2. new[k] = log'[First' + k - 1]
      BY <1>3, <2>1
    <3>3. log'[First' + k - 1] = log[First + (k + d) - 1]
      BY <1>2, <3>1
    <3> QED BY <1>1, <3>1, <3>2, <3>3
  <2>3. /\ SubSeq(old, d + 1, Len(old)) \in Seq(Terms)
        /\ Len(SubSeq(old, d + 1, Len(old))) = Size - d
        /\ \A k \in 1..Size - d : SubSeq(old, d + 1, Len(old))[k] = old[k + d]
    <3>1. d + 1 \in 1..Len(old) + 1 /\ Len(old) \in d + 1 - 1..Len(old) /\ d \in Int
      BY <1>1, <2>1
    <3>2. SubSeq(old, d + 1, Len(old)) \in Seq(Terms)
      BY <1>1, <3>1
    <3>3. Len(SubSeq(old, d + 1, Len(old))) = Len(old) - (d + 1) + 1
          /\ \A k \in 1..Len(old) - (d + 1) + 1 :
                SubSeq(old, d + 1, Len(old))[k] = old[d + 1 + k - 1]
      BY <1>1, <3>1
    <3>4. Len(old) - (d + 1) + 1 = Size - d /\ \A k \in 1..Size - d : d + 1 + k - 1 = k + d
      BY <1>1, <3>1
    <3> QED BY <3>2, <3>3, <3>4
  <2>4. new = SubSeq(old, d + 1, Len(old))
    BY <1>3, <2>1, <2>2, <2>3, SameSequence
  <2>5. d + 1 = x - First + 2 /\ x < RL!End
    BY <1>1, <1>4, <1>5, <1>6 DEF d
  <2>6. Entries' = IF x < RL!End THEN SubSeq(Entries, x - RL!Begin + 2, Len(Entries)) ELSE <<>>
    BY <1>4, <2>4, <2>5 DEF old, new
  <2> QED BY <1>2, <1>4, <1>8, <2>6, Zenon DEF RL!Purge, RL!LogId, LogId, x
<1>7. CASE x >= First + Size
  <2>1. Len(new) = 0
    BY <1>1, <1>2, <1>3, <1>5, <1>7
  <2>2. new = <<>>
    BY <1>3, <2>1
  <2>3. ~(x < RL!End)
    BY <1>1, <1>4, <1>5, <1>7
  <2>4. Entries' = IF x < RL!End THEN SubSeq(Entries, x - RL!Begin + 2, Len(Entries)) ELSE <<>>
    BY <2>2, <2>3, Zenon DEF new
  <2> QED BY <1>2, <1>4, <1>8, <2>4, Zenon DEF RL!Purge, RL!LogId, LogId, x
<1> QED BY <1>1, <1>5, <1>6, <1>7

(* Reading a range of the map reads that range of the sequence. *)
LEMMA ReadRefines ==
    ASSUME IInv, NEW a \in 0..MaxIndex + 1, NEW b \in 0..MaxIndex + 1, TryGetLogEntries(a, b)
    PROVE  RL!TryGetLogEntries
<1>1. Shape /\ RL!Begin = First /\ RL!End = First + Size
      /\ \A i \in First..First + Size - 1 : RL!EntryAt(i) = log[i]
  BY ShapeOf, AbstractEnds
<1>2. UNCHANGED <<last_purged_log_id, log, committed, vote>>
      /\ answer' = [entries |-> [i \in Indices \cap (a..b - 1) |-> log[i]]]
  BY DEF TryGetLogEntries, Within, Indices
<1>3. Indices \cap (a..b - 1) = (a..b - 1) \cap (RL!Begin..RL!End - 1)
  <2>1. RL!Begin..RL!End - 1 = First..First + Size - 1
    BY <1>1 DEF Shape
  <2> QED BY <1>1, <2>1 DEF Shape
<1>4. \A i \in (a..b - 1) \cap (RL!Begin..RL!End - 1) : RL!EntryAt(i) = log[i]
  BY <1>1 DEF Shape
<1>5. [i \in Indices \cap (a..b - 1) |-> log[i]]
      = [i \in (a..b - 1) \cap (RL!Begin..RL!End - 1) |-> RL!EntryAt(i)]
  BY <1>3, <1>4, Zenon
<1>6. Entries' = Entries
  BY <1>2, Zenon DEF Entries, Indices
<1> QED BY <1>2, <1>5, <1>6, Zenon DEF RL!TryGetLogEntries

(* The storage implements the log that openraft relies on. *)
THEOREM Implements == Spec => ImplementsRaftLog
<1>1. Init => RL!Init
  <2> SUFFICES ASSUME Init PROVE RL!Init
    OBVIOUS
  <2>1. IInv /\ Size = 0
    BY InitInvariant, FS_EmptySet DEF Init, Size, Indices
  <2>2. Entries = <<>>
    BY <2>1, EntriesType DEF Sequenced
  <2> QED BY <2>2 DEF Init, RL!Init
<1>2. IInv /\ [Next]_vars => [RL!Next]_(RL!vars)
  <2> SUFFICES ASSUME IInv, [Next]_vars PROVE [RL!Next]_(RL!vars)
    OBVIOUS
  <2> USE DEF RL!Next
  <2>1. ASSUME UNCHANGED <<last_purged_log_id, log>> PROVE Entries' = Entries
    BY <2>1, Zenon DEF Entries, Indices
  <2>2. ASSUME NEW v \in Terms, SaveVote(v) PROVE RL!SaveVote
    BY <2>1, <2>2 DEF SaveVote, RL!SaveVote
  <2>3. ASSUME NEW i \in 0..MaxIndex, SaveCommitted(i) PROVE RL!SaveCommitted
    <3>1. i \in First..First + Size - 1 /\ committed' = [term |-> log[i], index |-> i]
          /\ UNCHANGED <<last_purged_log_id, log, vote, answer>>
      BY <2>3, ShapeOf DEF SaveCommitted, Shape
    <3>2. i \in RL!Begin..RL!End - 1
      BY <3>1, AbstractEnds
    <3>3. committed' = [term |-> RL!EntryAt(i), index |-> i]
      BY <3>1, AbstractEnds
    <3> QED BY <2>1, <3>1, <3>2, <3>3, Zenon DEF RL!SaveCommitted
  <2>4. ASSUME NEW i \in 0..MaxIndex, Truncate(i) PROVE RL!Truncate
    BY <2>4, TruncateRefines
  <2>5. ASSUME NEW ts \in Batches, AppendLog(ts) PROVE RL!AppendLog
    BY <2>5, AppendRefines
  <2>6. ASSUME NEW id \in LogId, Purge(id) PROVE RL!Purge
    BY <2>6, PurgeRefines
  <2>7. CASE GetLogState
    <3>1. RL!LastLogId = LastLogId
      BY AbstractEnds
    <3> QED BY <2>1, <2>7, <3>1 DEF GetLogState, RL!GetLogState
  <2>8. ASSUME NEW a \in 0..MaxIndex + 1, NEW b \in 0..MaxIndex + 1, TryGetLogEntries(a, b)
        PROVE  RL!TryGetLogEntries
    BY <2>8, ReadRefines
  <2>9. CASE UNCHANGED vars
    BY <2>1, <2>9 DEF vars, RL!vars
  <2> QED BY <2>2, <2>3, <2>4, <2>5, <2>6, <2>7, <2>8, <2>9 DEF Next
<1> QED BY <1>1, <1>2, InitInvariant, NextInvariant, PTL DEF Spec, ImplementsRaftLog, RL!Spec

-----------------------------------------------------------------------------
(* Snapshots of the state machine *)

(* A state machine or snapshot that stands for the first p entries. *)
StandsFor(p, membership, data) == membership = MembershipAt(p) /\ data \subseteq DataAt(p)

Reading == builder.pc \in {"read", "storing"}
Installing == installer.pc \in {"installed", "storing"}

(* A task that has read or written the state machine holds a snapshot of it;
   while it holds the lock, no entry is applied.  What a task is about to
   store is never older than what is stored. *)
TasksInOrder ==
    /\ Reading =>
        /\ StandsFor(builder.snap.last_log_id, builder.snap.last_membership, builder.snap.data)
        /\ builder.snap.last_log_id <= sm.last_applied_log
        /\ current_snapshot # NoSnapshot /\ (builder.pc = "storing" \/ installer.pc # "storing") =>
              current_snapshot.last_log_id <= builder.snap.last_log_id
    /\ Installing =>
        /\ StandsFor(installer.snap.last_log_id, installer.snap.last_membership,
                     installer.snap.data)
        /\ installer.snap.last_log_id = sm.last_applied_log
        /\ current_snapshot # NoSnapshot =>
              current_snapshot.last_log_id <= installer.snap.last_log_id
    /\ builder.pc = "read" => builder.snap.last_log_id = sm.last_applied_log
    /\ ~(builder.pc = "storing" /\ installer.pc = "storing")

(* What is numbered was numbered by the counter. *)
Numbered ==
    /\ \A s \in built : s.snapshot_idx \in Nat /\ s.snapshot_idx <= snapshot_idx
    /\ \A s, t \in built : s.snapshot_idx = t.snapshot_idx => s = t

SnapshotsInv ==
    /\ SnapTypeOK
    /\ StandsFor(sm.last_applied_log, sm.last_membership, sm.data)
    /\ SnapshotCovered
    /\ TasksInOrder
    /\ Numbered

(* The empty log sets no membership. *)
LEMMA MembershipZero == MembershipAt(0) = 0
<1>1. \A m \in Memberships : ~(m <= 0)
  BY SnapshotsAssumption
<1>2. MembershipsUpTo(0) = {}
  BY <1>1, Zenon DEF MembershipsUpTo
<1> QED BY <1>2, Zenon DEF MembershipAt, Newest

(* The membership after p + 1 entries is entry p + 1 or that of p entries. *)
LEMMA MembershipStep ==
    ASSUME NEW p \in Nat, p + 1 <= MaxLog
    PROVE  /\ p + 1 \in Memberships => MembershipAt(p + 1) = p + 1
           /\ p + 1 \notin Memberships => MembershipAt(p + 1) = MembershipAt(p)
<1> USE SnapshotsAssumption
<1>1. \A m \in Memberships : m \in Nat /\ m >= 1
  OBVIOUS
<1>3. ASSUME p + 1 \in Memberships PROVE MembershipAt(p + 1) = p + 1
  <2> DEFINE S == MembershipsUpTo(p + 1)
  <2>1. p + 1 \in S /\ \A m \in S : m \in Nat /\ m <= p + 1
    BY <1>1, <1>3 DEF MembershipsUpTo
  <2> HIDE DEF S
  <2>2. \A m \in S : (\A o \in S : o <= m) => m = p + 1
    BY <2>1
  <2>3. Newest(S) = p + 1
    BY <2>1, <2>2 DEF Newest
  <2> QED BY <2>3 DEF MembershipAt, S
<1>4. ASSUME p + 1 \notin Memberships PROVE MembershipAt(p + 1) = MembershipAt(p)
  <2>1. MembershipsUpTo(p + 1) = MembershipsUpTo(p)
    <3>1. \A m \in Memberships : m <= p + 1 <=> m <= p
      BY <1>1, <1>4
    <3> QED BY <3>1, Zenon DEF MembershipsUpTo
  <2> QED BY <2>1, Zenon DEF MembershipAt
<1> QED BY <1>3, <1>4

(* The membership after p entries is 0 or an entry; the data are entries. *)
LEMMA StandsForType ==
    ASSUME NEW p \in 0..MaxLog
    PROVE  /\ MembershipAt(p) \in {0} \cup Memberships
           /\ DataAt(p) \subseteq 1..MaxLog
<1> USE SnapshotsAssumption
<1>1. DataAt(p) \subseteq 1..MaxLog
  BY DEF DataAt
<1> DEFINE S == MembershipsUpTo(p)
<1>2. S \subseteq Memberships /\ \A m \in S : m \in Nat /\ m <= p
  BY DEF MembershipsUpTo
<1> HIDE DEF S
<1>3. CASE S = {}
  BY <1>1, <1>3 DEF MembershipAt, Newest, S
<1>4. CASE S # {}
  <2> DEFINE T == {q \in Nat : p - q \in S}
  <2>1. T \subseteq Nat /\ \A m \in S : p - m \in T /\ m = p - (p - m)
    BY <1>2
  <2>2. \A q \in T : p - q \in S
    OBVIOUS
  <2> HIDE DEF T
  <2>3. T # {}
    BY <1>4, <2>1
  <2>4. PICK q \in T : \A r \in T : ~(<<r, q>> \in OpToRel(<, Nat))
    BY <2>1, <2>3, NatLessThanWellFounded, WFMin
  <2>5. \A r \in T : q <= r
    <3> SUFFICES ASSUME NEW r \in T, ~(q <= r) PROVE FALSE
      OBVIOUS
    <3>1. q \in Nat /\ r \in Nat /\ r < q
      BY <2>1
    <3>2. <<r, q>> \in OpToRel(<, Nat)
      BY <3>1, Zenon DEF OpToRel
    <3> QED BY <2>4, <3>2
  <2>6. \A o \in S : o <= p - q
    BY <1>2, <2>1, <2>5
  <2>7. Newest(S) \in S
    BY <1>4, <2>2, <2>6 DEF Newest
  <2> QED BY <1>1, <1>2, <2>7 DEF MembershipAt, S
<1> QED BY <1>3, <1>4

(* Nothing has been applied, read or stored. *)
LEMMA SnapshotsInit ==
    SnapInit => SnapshotsInv
<1> SUFFICES ASSUME SnapInit PROVE SnapshotsInv
  OBVIOUS
<1>1. MembershipAt(0) = 0
  BY MembershipZero
<1>2. SnapTypeOK
  BY SnapshotsAssumption, NoSnapshotAssumption DEF SnapInit, SnapTypeOK, Empty, Idle, NoRead,
         StateMachineInner, StoredSnapshot
<1> QED BY <1>1, <1>2
    DEF SnapInit, SnapshotsInv, StandsFor, SnapshotCovered, TasksInOrder, Numbered,
        Empty, Idle, Reading, Installing

(* Applying, removing, building and installing preserve the invariant. *)
LEMMA SnapshotsNext ==
    SnapshotsInv /\ [SnapNext]_snapVars => SnapshotsInv'
<1> SUFFICES ASSUME SnapshotsInv, [SnapNext]_snapVars PROVE SnapshotsInv'
  OBVIOUS
<1> USE SnapshotsAssumption, NoSnapshotAssumption
<1>1. CASE Apply
  <2>1. sm.last_applied_log \in Nat /\ sm.last_applied_log + 1 <= MaxLog
    BY <1>1 DEF Apply, SnapshotsInv, SnapTypeOK, StateMachineInner
  <2>2. /\ StandsFor(sm'.last_applied_log, sm'.last_membership, sm'.data)
        /\ sm' \in StateMachineInner
    <3> DEFINE q == sm.last_applied_log + 1
    <3>1. q \in 1..MaxLog /\ sm \in StateMachineInner
      BY <2>1 DEF SnapshotsInv, SnapTypeOK
    <3>2. /\ sm'.last_applied_log = q
          /\ sm'.last_membership = IF q \in Memberships THEN q ELSE sm.last_membership
          /\ sm'.data = sm.data \cup ({q} \ Memberships)
      BY <1>1, Zenon DEF Apply
    <3>3. sm' \in StateMachineInner
      BY <1>1, <3>1 DEF Apply, StateMachineInner
    <3>4. MembershipAt(q) = IF q \in Memberships THEN q
                                 ELSE MembershipAt(sm.last_applied_log)
      BY <2>1, MembershipStep
    <3>5. sm'.data \subseteq DataAt(q)
      BY <2>1, <3>2 DEF SnapshotsInv, StandsFor, DataAt
    <3> QED BY <3>2, <3>3, <3>4, <3>5, Zenon DEF SnapshotsInv, StandsFor
  <2>3. sm'.last_applied_log = sm.last_applied_log + 1
    BY <1>1 DEF Apply, SnapshotsInv, SnapTypeOK, StateMachineInner
  <2>4. SnapTypeOK' /\ Numbered'
    BY <1>1, <2>2 DEF Apply, SnapshotsInv, SnapTypeOK, Numbered
  <2>5. SnapshotCovered'
    BY <1>1, <2>1, <2>3 DEF Apply, SnapshotsInv, SnapTypeOK, SnapshotCovered,
                            StoredSnapshot
  <2>6. TasksInOrder'
    BY <1>1, <2>1, <2>3
       DEF Apply, SnapshotsInv, SnapTypeOK, TasksInOrder, StoredSnapshot,
           SmReadLocked, Reading, Installing
  <2> QED BY <2>2, <2>4, <2>5, <2>6 DEF SnapshotsInv
<1>2. ASSUME NEW k \in 1..MaxLog, Remove(k) PROVE SnapshotsInv'
  <2>1. sm'.last_applied_log = sm.last_applied_log /\ sm'.last_membership = sm.last_membership
        /\ sm'.data = sm.data \ {k} /\ sm' \in StateMachineInner
    BY <1>2 DEF Remove, SnapshotsInv, SnapTypeOK, StateMachineInner
  <2> QED BY <1>2, <2>1
      DEF Remove, SnapshotsInv, SnapTypeOK, StandsFor, SnapshotCovered,
          TasksInOrder, Numbered, Reading, Installing
<1>3. CASE ReadStateMachine
  <2>1. builder' \in [pc : {"idle", "read", "storing"}, snap : StoredSnapshot]
    BY <1>3 DEF ReadStateMachine, SnapshotsInv, SnapTypeOK, StateMachineInner,
                StoredSnapshot
  <2> QED BY <1>3, <2>1
      DEF ReadStateMachine, SnapshotsInv, SnapTypeOK, StandsFor, SnapshotCovered,
          TasksInOrder, Numbered, Reading, Installing, StateMachineInner,
          StoredSnapshot, SmWriteLocked
<1>4. CASE LockForBuilt
  BY <1>4
     DEF LockForBuilt, SnapshotsInv, SnapTypeOK, StandsFor, SnapshotCovered,
         TasksInOrder, Numbered, Reading, Installing, SnapshotLocked,
         StateMachineInner, StoredSnapshot
<1>5. CASE StoreBuilt
  <2> DEFINE snap == [builder.snap EXCEPT !.snapshot_idx = snapshot_idx + 1]
  <2>1. snap \in StoredSnapshot /\ snap.last_log_id = builder.snap.last_log_id
        /\ snap.last_membership = builder.snap.last_membership /\ snap.data = builder.snap.data
        /\ snap.snapshot_idx = snapshot_idx + 1
    BY DEF SnapshotsInv, SnapTypeOK, StoredSnapshot
  <2> HIDE DEF snap
  <2>2. /\ builder.pc = "storing" /\ builder' = Idle /\ current_snapshot' = snap
        /\ snapshot_idx' = snapshot_idx + 1 /\ built' = built \cup {snap}
        /\ UNCHANGED <<sm, installer>>
    BY <1>5 DEF StoreBuilt, snap
  <2>3. SnapTypeOK'
    BY <2>1, <2>2 DEF SnapshotsInv, SnapTypeOK, Idle, NoRead, StoredSnapshot
  <2>4. SnapshotCovered'
    BY <2>1, <2>2 DEF SnapshotsInv, SnapshotCovered, TasksInOrder, StandsFor, Reading
  <2>5. TasksInOrder'
    BY <2>1, <2>2
       DEF SnapshotsInv, SnapTypeOK, TasksInOrder, StandsFor, Reading, Installing, Idle,
           NoRead, StoredSnapshot, StateMachineInner
  <2>6. Numbered'
    BY <2>1, <2>2 DEF SnapshotsInv, SnapTypeOK, Numbered, StoredSnapshot
  <2> QED BY <2>2, <2>3, <2>4, <2>5, <2>6 DEF SnapshotsInv
<1>6. ASSUME NEW p \in 1..MaxLog, NEW d \in SUBSET DataAt(p), InstallStateMachine(p, d)
      PROVE  SnapshotsInv'
  <2>1. MembershipAt(p) \in {0} \cup Memberships /\ d \subseteq 1..MaxLog
    BY StandsForType
  <2>2. p > sm.last_applied_log
    BY <1>6 DEF InstallStateMachine, SnapshotsInv, SnapTypeOK, StateMachineInner
  <2>3. SnapTypeOK'
    BY <1>6, <2>1 DEF InstallStateMachine, SnapshotsInv, SnapTypeOK,
                      StateMachineInner, StoredSnapshot
  <2>4. SnapshotCovered'
    BY <1>6, <2>2
       DEF InstallStateMachine, SnapshotsInv, SnapTypeOK, SnapshotCovered,
           StateMachineInner, StoredSnapshot
  <2>5. TasksInOrder'
    BY <1>6, <2>2
       DEF InstallStateMachine, SnapshotsInv, SnapTypeOK, SnapshotCovered,
           TasksInOrder, StandsFor, Reading, Installing, SmReadLocked,
           StateMachineInner, StoredSnapshot
  <2> QED BY <1>6, <2>3, <2>4, <2>5 DEF InstallStateMachine, SnapshotsInv, StandsFor,
                                        Numbered
<1>7. CASE LockForInstalled
  BY <1>7
     DEF LockForInstalled, SnapshotsInv, SnapTypeOK, StandsFor, SnapshotCovered,
         TasksInOrder, Numbered, Reading, Installing, SnapshotLocked,
         StateMachineInner, StoredSnapshot
<1>8. CASE StoreInstalled
  <2>1. SnapTypeOK'
    BY <1>8 DEF StoreInstalled, SnapshotsInv, SnapTypeOK, Idle, NoRead,
                StoredSnapshot
  <2>2. SnapshotCovered'
    BY <1>8 DEF StoreInstalled, SnapshotsInv, SnapTypeOK, SnapshotCovered,
                TasksInOrder, StandsFor, Installing, StoredSnapshot,
                StateMachineInner
  <2>3. TasksInOrder'
    BY <1>8 DEF StoreInstalled, SnapshotsInv, SnapTypeOK, TasksInOrder, StandsFor,
                Reading, Installing, Idle, NoRead, StoredSnapshot,
                StateMachineInner
  <2> QED BY <1>8, <2>1, <2>2, <2>3 DEF StoreInstalled, SnapshotsInv, StandsFor, Numbered
<1>9. CASE UNCHANGED snapVars
  BY <1>9 DEF snapVars, SnapshotsInv, SnapTypeOK, StandsFor, SnapshotCovered,
              TasksInOrder, Numbered, Reading, Installing
<1> QED BY <1>1, <1>2, <1>3, <1>4, <1>5, <1>6, <1>7, <1>8, <1>9
    DEF SnapNext, BuilderStep, InstallerStep

(* The variables keep their types. *)
THEOREM SnapshotTypes ==
    SnapSpec => []SnapTypeOK
<1>1. SnapshotsInv => SnapTypeOK
  BY DEF SnapshotsInv
<1> QED BY <1>1, SnapshotsInit, SnapshotsNext, PTL DEF SnapSpec

(* The snapshot up to which openraft purges the log is always covered by the
   state machine, and a faithful image of that part of the log. *)
THEOREM Covered ==
    SnapSpec => []SnapshotCovered
<1>1. SnapshotsInv => SnapshotCovered
  BY DEF SnapshotsInv
<1> QED BY <1>1, SnapshotsInit, SnapshotsNext, PTL DEF SnapSpec

(* Two snapshots this node has built never share an id. *)
THEOREM IdsDiffer ==
    SnapSpec => []SnapshotIdsDiffer
<1>1. SnapshotsInv => SnapshotIdsDiffer
  BY DEF SnapshotsInv, Numbered, SnapshotIdsDiffer
<1> QED BY <1>1, SnapshotsInit, SnapshotsNext, PTL DEF SnapSpec

(* However building and installing interleave, the stored snapshot is only
   replaced by one that is at least as new. *)
THEOREM NeverOlder ==
    SnapSpec => SnapshotNeverOlder
<1> DEFINE Kept == current_snapshot # NoSnapshot =>
                     /\ current_snapshot' # NoSnapshot
                     /\ current_snapshot'.last_log_id >= current_snapshot.last_log_id
<1>1. SnapshotsInv /\ [SnapNext]_snapVars => [Kept]_snapVars
  <2> SUFFICES ASSUME SnapshotsInv, SnapNext, current_snapshot # NoSnapshot PROVE Kept
    OBVIOUS
  <2> USE SnapshotsAssumption, NoSnapshotAssumption
      DEF SnapshotsInv, SnapTypeOK, StoredSnapshot, TasksInOrder
  <2>1. CASE StoreBuilt
    <3> DEFINE snap == [builder.snap EXCEPT !.snapshot_idx = snapshot_idx + 1]
    <3>1. current_snapshot' = snap /\ snap.last_log_id = builder.snap.last_log_id
          /\ snap \in StoredSnapshot /\ builder.pc = "storing"
      BY <2>1 DEF StoreBuilt
    <3> HIDE DEF snap
    <3> QED BY <3>1 DEF Reading
  <2>2. CASE StoreInstalled
    BY <2>2 DEF StoreInstalled, Installing
  <2>3. CASE UNCHANGED current_snapshot
    BY <2>3
  <2> QED BY <2>1, <2>2, <2>3
      DEF SnapNext, BuilderStep, InstallerStep, Apply, Remove,
          ReadStateMachine, LockForBuilt, InstallStateMachine,
          LockForInstalled
<1> QED BY <1>1, SnapshotsInit, SnapshotsNext, PTL DEF SnapSpec, SnapshotNeverOlder
=============================================================================
