--------------------------- MODULE OperationStore ---------------------------
(***************************************************************************)
(* How one operation record and its event log reach the disk:              *)
(* commitOperationRecord, persistOperationEvent and                        *)
(* recoverPendingOperationEvent of src/operations/state.ts, and the three  *)
(* ways into them (saveOperation, mutateOperation, loadOperation).         *)
(*                                                                         *)
(* The record is written with its event inside (the outbox), the event is  *)
(* appended to events.ndjson, and the record is written again without it.  *)
(* A process may die or an operation on a file may fail between any two of *)
(* these, and in the middle of the append.  Callers hold the operation     *)
(* lock; this module assumes its exclusion, so what a holder has read is   *)
(* still what is there.  LockedStore discharges the assumption with the    *)
(* steps of OperationLock, for as long as no holder has been robbed.       *)
(***************************************************************************)
EXTENDS Naturals, Sequences

CONSTANTS Procs,       \* callers
          MaxCommits,  \* bound: commits explored
          MaxFaults,   \* bound: crashes and failed file operations explored
          None, Torn

Event == [commit : Nat, rev : Nat]

ASSUME BoundsAssumption == MaxCommits \in Nat /\ MaxFaults \in Nat
ASSUME NoneAssumption == None \notin Procs \cup Event \cup {Torn, "orphan"}
ASSUME TornAssumption == Torn \notin Event
ASSUME ProcsAssumption == "orphan" \notin Procs

VARIABLES file,    \* the record file: commits so far, revision, outbox event
          log,     \* complete lines of events.ndjson
          tail,    \* what follows the last newline: None, a part of a line
                   \* (Torn), or a whole line without its newline
          lock,    \* holder of the operation lock, "orphan" if it died
          pc,      \* where each caller is
          call,    \* what each caller called
          acked,   \* history: commits whose caller was told they succeeded
          faults   \* number of crashes and failures so far

vars == <<file, log, tail, lock, pc, call, acked, faults>>

Phases == {"idle", "read", "recover", "recovered", "stage", "publish", "settle"}
Calls  == {"save", "mutate", "load"}

\* commits = 0 stands for a record file that does not exist yet.
TypeOK ==
    /\ file \in [commits : 0..MaxCommits, rev : Nat, pending : Event \cup {None}]
    /\ log \in Seq(Event)
    /\ tail \in Event \cup {None, Torn}
    /\ lock \in Procs \cup {None, "orphan"}
    /\ pc \in [Procs -> Phases]
    /\ call \in [Procs -> Calls]
    /\ acked \in SUBSET (1..MaxCommits)
    /\ faults \in 0..MaxFaults

Init ==
    /\ file = [commits |-> 0, rev |-> 0, pending |-> None]
    /\ log = <<>> /\ tail = None
    /\ lock = None
    /\ pc = [p \in Procs |-> "idle"]
    /\ call = [p \in Procs |-> "load"]
    /\ acked = {}
    /\ faults = 0

Goto(p, phase) == pc' = [pc EXCEPT ![p] = phase]

\* withOperationLock ends, with a result or with an error.
Leave(p) == Goto(p, "idle") /\ lock' = None

----------------------------------------------------------------------------
\* The action that withOperationLock was given starts.
Begin(p, c) ==
    /\ pc[p] = "idle"
    /\ lock' = p
    /\ call' = [call EXCEPT ![p] = c]
    /\ Goto(p, "read")
    /\ UNCHANGED <<file, log, tail, acked, faults>>

\* A caller takes the lock; a dead holder's lock is recovered.  loadOperation
\* takes it when its first read found an event in the outbox, which another
\* caller may have published since: it reads again.
Enter(p, c) == lock \in {None, "orphan"} /\ Begin(p, c)

\* After readStoredOperation, with nothing left in the outbox.
Proceed(p) ==
    IF call[p] = IF file.commits > 0 THEN "mutate" ELSE "save"
    THEN Goto(p, "stage") /\ UNCHANGED lock
    ELSE Leave(p)

\* Mutant of ReadStored: a caller does not look into the outbox.
ReadStoredOnly(p) ==
    /\ pc[p] = "read"
    /\ Proceed(p)
    /\ UNCHANGED <<file, log, tail, call, acked, faults>>

\* readStoredOperation and the checks of recoverPendingOperationEvent: an event
\* that does not belong to the record stops the caller.
ReadStored(p) ==
    /\ pc[p] = "read"
    /\ IF file.pending = None THEN Proceed(p)
       ELSE IF file.pending.rev = file.rev THEN Goto(p, "recover") /\ UNCHANGED lock
       ELSE Leave(p)
    /\ UNCHANGED <<file, log, tail, call, acked, faults>>

----------------------------------------------------------------------------
Logged(e) == \E i \in 1..Len(log) : log[i] = e

\* Mutant of PersistOperationEvent: the event is appended without a look at
\* the lines that are there.
AppendBlindly(p, next) ==
    /\ tail' = None
    /\ log' = Append(log, file.pending)
    /\ Goto(p, next)

\* Mutant of PersistOperationEvent: a torn line is not cut off.
AppendBehindTorn(p, next) ==
    /\ log' = IF Logged(file.pending) THEN log ELSE Append(log, file.pending)
    /\ Goto(p, next)
    /\ UNCHANGED tail

\* persistOperationEvent of the outbox event: nothing if a complete line holds
\* it; a line without newline is terminated, and is the event itself or stays
\* before it; a torn line is cut off; then the event is appended and synced.
PersistOperationEvent(p, next) ==
    \/ Logged(file.pending) /\ Goto(p, next) /\ UNCHANGED <<log, tail>>
    \/ /\ ~Logged(file.pending) /\ tail \in Event
       /\ log' = Append(log, tail) /\ tail' = None
       /\ IF tail = file.pending THEN Goto(p, next) ELSE UNCHANGED pc
    \/ /\ ~Logged(file.pending) /\ tail = Torn
       /\ tail' = None /\ UNCHANGED <<log, pc>>
    \/ /\ ~Logged(file.pending) /\ tail = None
       /\ log' = Append(log, file.pending) /\ UNCHANGED tail
       /\ Goto(p, next)

\* recoverPendingOperationEvent: publish what the outbox holds, and empty it.
RecoverEvent(p) ==
    /\ pc[p] = "recover"
    /\ PersistOperationEvent(p, "recovered")
    /\ UNCHANGED <<file, lock, call, acked, faults>>

\* Mutant of RecoverRecord: the recovery counts as an update.
RecoverTouching(p) ==
    /\ pc[p] = "recovered"
    /\ file' = [file EXCEPT !.pending = None, !.rev = file.rev + 1]
    /\ Proceed(p)
    /\ UNCHANGED <<log, tail, call, acked, faults>>

RecoverRecord(p) ==
    /\ pc[p] = "recovered"
    /\ file' = [file EXCEPT !.pending = None]
    /\ Proceed(p)
    /\ UNCHANGED <<log, tail, call, acked, faults>>

----------------------------------------------------------------------------
\* The callback refuses the mutation.
Refuse(p) ==
    /\ pc[p] = "stage" /\ call[p] = "mutate"
    /\ Leave(p)
    /\ UNCHANGED <<file, log, tail, call, acked, faults>>

\* writeStoredRecord: the next record with its event, renamed into place.
\* touchRevision tells updates from metadata; a new record has revision 1.
StageRecord(p, touch) ==
    LET r == IF touch THEN file.rev + 1 ELSE file.rev
    IN  /\ pc[p] = "stage" /\ file.commits < MaxCommits
        /\ call[p] = "save" => touch
        /\ file' = [commits |-> file.commits + 1, rev |-> r,
                    pending |-> [commit |-> file.commits + 1, rev |-> r]]
        /\ Goto(p, "publish")
        /\ UNCHANGED <<log, tail, lock, call, acked, faults>>

PublishEvent(p) ==
    /\ pc[p] = "publish"
    /\ PersistOperationEvent(p, "settle")
    /\ UNCHANGED <<file, lock, call, acked, faults>>

\* writeRecord: the record without its event; the caller is told.
SettleRecord(p) ==
    /\ pc[p] = "settle"
    /\ file' = [file EXCEPT !.pending = None]
    /\ acked' = acked \cup {file.commits}
    /\ Leave(p)
    /\ UNCHANGED <<log, tail, call, faults>>

----------------------------------------------------------------------------
\* What an interrupted append leaves: nothing, a part of the line, or the line
\* without its newline.
Interrupted(p) ==
    IF pc[p] \in {"recover", "publish"} /\ ~Logged(file.pending) /\ tail = None
    THEN tail' \in {None, Torn, file.pending}
    ELSE UNCHANGED tail

\* A file operation fails: the error leaves through the lock.
Fail(p) ==
    /\ pc[p] # "idle" /\ faults < MaxFaults
    /\ Interrupted(p)
    /\ Leave(p)
    /\ faults' = faults + 1
    /\ UNCHANGED <<file, log, call, acked>>

\* The process dies with the lock; a later process takes its name.
Crash(p) ==
    /\ pc[p] # "idle" /\ faults < MaxFaults
    /\ Interrupted(p)
    /\ Goto(p, "idle")
    /\ lock' = "orphan"
    /\ faults' = faults + 1
    /\ UNCHANGED <<file, log, call, acked>>

Step(p) ==
    \/ ReadStored(p) \/ RecoverEvent(p) \/ RecoverRecord(p)
    \/ Refuse(p) \/ \E touch \in BOOLEAN : StageRecord(p, touch)
    \/ PublishEvent(p) \/ SettleRecord(p)

Next ==
    \E p \in Procs :
        \/ \E c \in Calls : Enter(p, c)
        \/ Step(p) \/ Fail(p) \/ Crash(p)

Spec == Init /\ [][Next]_vars

\* A caller inside the lock finishes, and the pollers of the Control Center and
\* the operation monitor keep loading the operation.
Fairness ==
    /\ \A p \in Procs : WF_vars(Step(p))
    /\ WF_vars(\E p \in Procs : file.pending # None /\ Enter(p, "load"))
FairSpec == Spec /\ Fairness

----------------------------------------------------------------------------
(***************************************************************************)
(* Complete lines of events.ndjson are the events of the commits, each     *)
(* once and in commit order, whatever crashed in between; the event of the *)
(* last commit may be missing only while it is still in the outbox.        *)
(***************************************************************************)
LogExact ==
    /\ \A i \in 1..Len(log) : log[i].commit = i
    /\ Len(log) = file.commits
       \/ (file.pending # None /\ Len(log) + 1 = file.commits)

(***************************************************************************)
(* A caller is told that its mutation succeeded only when the event of the *)
(* mutation is on a complete line.                                         *)
(***************************************************************************)
AckedPublished == \A n \in acked : n <= Len(log)

(***************************************************************************)
(* An unterminated line belongs to the event in the outbox: no later event *)
(* can be appended behind the remains of another one.                      *)
(***************************************************************************)
TailIsPending == tail # None => file.pending # None /\ tail \in {Torn, file.pending}

\* The events the store answers for: the log, and the outbox before it is
\* published.
Promised ==
    IF file.pending # None /\ ~Logged(file.pending)
    THEN Append(log, file.pending) ELSE log

Abstract == INSTANCE OperationLog
              WITH commits <- file.commits, revision <- file.rev, events <- Promised

(***************************************************************************)
(* The store implements OperationLog: to whoever asks for record and       *)
(* events, a commit is one indivisible step, and recovery, retries and     *)
(* crashes are no steps at all.                                            *)
(***************************************************************************)
CommitsAtomically == Abstract!Spec

(***************************************************************************)
(* An event does not stay in the outbox: once crashes stop, it is          *)
(* published and the outbox emptied.                                       *)
(***************************************************************************)
OutboxDrains == file.pending # None ~> file.pending = None
=============================================================================
