----------------------------- MODULE Snapshots -----------------------------
(***************************************************************************)
(* The state machine of one node with its snapshots (StateMachine in       *)
(* src/src/raft/state.rs) and the tasks that share it: openraft's state    *)
(* machine worker, which applies entries and installs snapshots one after  *)
(* the other, the task openraft spawns to build a snapshot, and main_loop, *)
(* which removes keys.  Two RwLocks guard the data and the last snapshot.  *)
(* Other tasks run whenever a task waits for a lock or has released one.   *)
(*                                                                         *)
(* The i-th log entry inserts the element i or sets the membership i; that *)
(* tells all states apart that applying, removing and installing can       *)
(* reach.  Position 0 is Rust's None.                                      *)
(***************************************************************************)
EXTENDS Naturals, FiniteSets

CONSTANTS
    MaxLog,        \* bound on the length of the log
    Memberships,   \* positions of membership entries
    MaxBuilt,      \* bound on the number of snapshots built
    NoSnapshot     \* current_snapshot is None

ASSUME SnapshotsAssumption ==
    /\ {MaxLog, MaxBuilt} \subseteq Nat
    /\ Memberships \subseteq 1..MaxLog

VARIABLES
    sm,                \* StateMachineInner
    snapshot_idx,      \* number of snapshots built
    current_snapshot,  \* the last snapshot built or installed
    builder,           \* build_snapshot: where it is, what it has read
    installer,         \* install_snapshot: where it is, what it installs
    built              \* history: every snapshot this node has built

snapVars == <<sm, snapshot_idx, current_snapshot, builder, installer, built>>

(* The data and the membership after the first p log entries. *)
DataAt(p) == (1..p) \ Memberships
MembershipsUpTo(p) == {m \in Memberships : m <= p}
Newest(S) == IF S = {} THEN 0 ELSE CHOOSE m \in S : \A o \in S : o <= m
MembershipAt(p) == Newest(MembershipsUpTo(p))

StateMachineInner ==
    [last_applied_log : 0..MaxLog, last_membership : {0} \cup Memberships,
     data : SUBSET (1..MaxLog)]

(* snapshot_id is made of the log id and the number of the snapshot. *)
StoredSnapshot ==
    [last_log_id : 0..MaxLog, last_membership : {0} \cup Memberships,
     snapshot_idx : Nat, data : SUBSET (1..MaxLog)]

ASSUME NoSnapshotAssumption == NoSnapshot \notin StoredSnapshot

Empty == [last_applied_log |-> 0, last_membership |-> 0, data |-> {}]
NoRead == [last_log_id |-> 0, last_membership |-> 0, snapshot_idx |-> 0, data |-> {}]
Idle == [pc |-> "idle", snap |-> NoRead]

SnapInit ==
    /\ sm = Empty
    /\ snapshot_idx = 0
    /\ current_snapshot = NoSnapshot
    /\ builder = Idle
    /\ installer = Idle
    /\ built = {}

-----------------------------------------------------------------------------
(* The locks are held by the tasks in these states. *)

(* Mutant: build_snapshot releases the state machine before it locks the
   snapshot. *)
ReadGuardDropped == FALSE

(* Mutant: both tasks hold the lock of the snapshot from the start and take
   it again. *)
LockedTwice == builder.pc # "idle" \/ installer.pc # "idle"

SmReadLocked == builder.pc = "read"
SmWriteLocked == installer.pc = "installed"
SnapshotLocked == builder.pc = "storing" \/ installer.pc = "storing"

(* Mutant: every entry is recorded as a membership. *)
ApplyAsMembership ==
    LET p == sm.last_applied_log + 1 IN
    /\ installer.pc = "idle"
    /\ ~SmReadLocked /\ ~SmWriteLocked
    /\ p <= MaxLog
    /\ sm' = [sm EXCEPT !.last_applied_log = p, !.last_membership = p, !.data = @ \cup {p}]
    /\ UNCHANGED <<snapshot_idx, current_snapshot, builder, installer, built>>

(* RaftStateMachine::apply of the next entry; the worker that applies is the
   one that installs. *)
Apply ==
    LET p == sm.last_applied_log + 1 IN
    /\ installer.pc = "idle"
    /\ ~SmReadLocked /\ ~SmWriteLocked
    /\ p <= MaxLog
    /\ sm' = [last_applied_log |-> p,
              last_membership |-> IF p \in Memberships THEN p ELSE sm.last_membership,
              data |-> sm.data \cup ({p} \ Memberships)]
    /\ UNCHANGED <<snapshot_idx, current_snapshot, builder, installer, built>>

(* remove, on behalf of main_loop. *)
Remove(k) ==
    /\ ~SmReadLocked /\ ~SmWriteLocked
    /\ k \in sm.data
    /\ sm' = [sm EXCEPT !.data = @ \ {k}]
    /\ UNCHANGED <<snapshot_idx, current_snapshot, builder, installer, built>>

(* build_snapshot takes the read lock and serializes the data. *)
ReadStateMachine ==
    /\ builder.pc = "idle"
    /\ snapshot_idx < MaxBuilt
    /\ ~SmWriteLocked
    /\ builder' = [pc |-> "read",
                   snap |-> [last_log_id |-> sm.last_applied_log,
                             last_membership |-> sm.last_membership,
                             snapshot_idx |-> 0, data |-> sm.data]]
    /\ UNCHANGED <<sm, snapshot_idx, current_snapshot, installer, built>>

(* It locks the last snapshot, then releases the state machine. *)
LockForBuilt ==
    /\ builder.pc = "read"
    /\ ~SnapshotLocked
    /\ builder' = [builder EXCEPT !.pc = "storing"]
    /\ UNCHANGED <<sm, snapshot_idx, current_snapshot, installer, built>>

(* Mutant: the counter is read, not incremented. *)
StoreUnnumbered ==
    LET snap == [builder.snap EXCEPT !.snapshot_idx = snapshot_idx + 1] IN
    /\ builder.pc = "storing"
    /\ current_snapshot' = snap
    /\ built' = built \cup {snap}
    /\ builder' = Idle
    /\ UNCHANGED <<sm, snapshot_idx, installer>>

(* It numbers and stores the new snapshot. *)
StoreBuilt ==
    LET snap == [builder.snap EXCEPT !.snapshot_idx = snapshot_idx + 1] IN
    /\ builder.pc = "storing"
    /\ snapshot_idx' = snapshot_idx + 1
    /\ current_snapshot' = snap
    /\ built' = built \cup {snap}
    /\ builder' = Idle
    /\ UNCHANGED <<sm, installer>>

(* Mutant: the data is installed, last_applied_log stays. *)
InstallDataOnly(p, d) ==
    /\ installer.pc = "idle"
    /\ ~SmReadLocked /\ ~SmWriteLocked
    /\ p \in sm.last_applied_log + 1 .. MaxLog /\ d \subseteq DataAt(p)
    /\ sm' = [sm EXCEPT !.data = d]
    /\ installer' = [pc |-> "installed",
                     snap |-> [last_log_id |-> p, last_membership |-> MembershipAt(p),
                               snapshot_idx |-> 1, data |-> d]]
    /\ UNCHANGED <<snapshot_idx, current_snapshot, builder, built>>

(* install_snapshot overwrites the state machine with a snapshot of another
   node.  openraft passes on only snapshots newer than what it has committed;
   their data may lack what the other node has removed. *)
InstallStateMachine(p, d) ==
    /\ installer.pc = "idle"
    /\ ~SmReadLocked /\ ~SmWriteLocked
    /\ p \in sm.last_applied_log + 1 .. MaxLog /\ d \subseteq DataAt(p)
    /\ sm' = [last_applied_log |-> p, last_membership |-> MembershipAt(p), data |-> d]
    /\ installer' = [pc |-> "installed",
                     snap |-> [last_log_id |-> p, last_membership |-> MembershipAt(p),
                               snapshot_idx |-> 1, data |-> d]]
    /\ UNCHANGED <<snapshot_idx, current_snapshot, builder, built>>

LockForInstalled ==
    /\ installer.pc = "installed"
    /\ ~SnapshotLocked
    /\ installer' = [installer EXCEPT !.pc = "storing"]
    /\ UNCHANGED <<sm, snapshot_idx, current_snapshot, builder, built>>

StoreInstalled ==
    /\ installer.pc = "storing"
    /\ current_snapshot' = installer.snap
    /\ installer' = Idle
    /\ UNCHANGED <<sm, snapshot_idx, builder, built>>

BuilderStep == LockForBuilt \/ StoreBuilt
InstallerStep == LockForInstalled \/ StoreInstalled

SnapNext ==
    \/ Apply
    \/ \E k \in 1..MaxLog : Remove(k)
    \/ ReadStateMachine \/ BuilderStep
    \/ \E p \in 1..MaxLog : \E d \in SUBSET DataAt(p) : InstallStateMachine(p, d)
    \/ InstallerStep

SnapSpec == SnapInit /\ [][SnapNext]_snapVars

(* A task that can take its next lock does so in the end. *)
SnapFairSpec == SnapSpec /\ WF_snapVars(BuilderStep) /\ WF_snapVars(InstallerStep)

-----------------------------------------------------------------------------
(* Properties *)

(* The types of the variables; the data of the state machine is what the
   applied entries inserted, less what was removed. *)
SnapTypeOK ==
    /\ sm \in StateMachineInner
    /\ snapshot_idx \in Nat
    /\ current_snapshot \in StoredSnapshot \cup {NoSnapshot}
    /\ builder \in [pc : {"idle", "read", "storing"}, snap : StoredSnapshot]
    /\ installer \in [pc : {"idle", "installed", "storing"}, snap : StoredSnapshot]
    /\ built \subseteq StoredSnapshot

(* The last snapshot never stands for more of the log than the state machine
   has applied, and holds nothing but what that part of the log inserted,
   with the membership of that part.  openraft purges the log up to it. *)
SnapshotCovered ==
    current_snapshot # NoSnapshot =>
        /\ current_snapshot.last_log_id <= sm.last_applied_log
        /\ current_snapshot.data \subseteq DataAt(current_snapshot.last_log_id)
        /\ current_snapshot.last_membership = MembershipAt(current_snapshot.last_log_id)

(* A snapshot is never overwritten by an older one: this is the race that the
   comments in build_snapshot and install_snapshot take the second lock
   early for. *)
SnapshotNeverOlder ==
    [][current_snapshot # NoSnapshot =>
        /\ current_snapshot' # NoSnapshot
        /\ current_snapshot'.last_log_id >= current_snapshot.last_log_id]_snapVars

(* Snapshots built at the same log position may differ, because remove
   changes the data and not last_applied_log; their ids do too. *)
SnapshotIdsDiffer ==
    \A s, t \in built :
        s.last_log_id = t.last_log_id /\ s.snapshot_idx = t.snapshot_idx => s = t

(* Building and installing end, so the locks are released: the two tasks
   never wait for each other. *)
SnapshotsEnd ==
    /\ builder.pc # "idle" ~> builder.pc = "idle"
    /\ installer.pc # "idle" ~> installer.pc = "idle"
=============================================================================
