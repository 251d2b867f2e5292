------------------------ MODULE OperationStoreProofs ------------------------
(***************************************************************************)
(* For any number of callers, commits, crashes and failures: the event log *)
(* is exact, and the store implements OperationLog; the lock file excludes *)
(* until a live holder is robbed; and record and lock file together        *)
(* therefore keep what the store alone keeps by assumption.                *)
(***************************************************************************)
EXTENDS LockedStore, SequenceTheorems, TLAPS

(***************************************************************************)
(* The invariant.  Exclusive is the lock.  OutboxOwn says that the outbox  *)
(* holds the event of the record it is in, so recovery never stops on it.  *)
(* LastLogged says that a log of full length ends with the outbox event.   *)
(* PhaseOK says what a caller has achieved when it gets to a phase; TailOK *)
(* that remains of an append exist only while the event is not logged.     *)
(***************************************************************************)
Exclusive == \A p \in Procs : pc[p] # "idle" => lock = p

OutboxOwn ==
    file.pending # None => /\ file.pending = [commit |-> file.commits, rev |-> file.rev]
                           /\ file.commits > 0

LastLogged == file.pending # None /\ Len(log) = file.commits => log[file.commits] = file.pending

PhaseOK ==
    \A p \in Procs :
        /\ pc[p] \in {"recover", "recovered", "publish", "settle"} => file.pending # None
        /\ pc[p] \in {"recovered", "settle"} => Len(log) = file.commits
        /\ pc[p] = "stage" => file.pending = None

TailOK == tail # None => /\ file.pending # None /\ Len(log) + 1 = file.commits
                         /\ tail = Torn \/ tail = file.pending

AckedOK == \A n \in acked : n <= Len(log)

StoreInv == /\ TypeOK /\ Exclusive /\ OutboxOwn /\ LogExact /\ LastLogged
            /\ PhaseOK /\ TailOK /\ AckedOK

----------------------------------------------------------------------------
\* What Append does to the log.
LEMMA LogAppend ==
    ASSUME log \in Seq(Event), NEW e \in Event, log' = Append(log, e)
    PROVE  /\ log' \in Seq(Event) /\ Len(log) \in Nat /\ Len(log') = Len(log) + 1
           /\ \A i \in 1..Len(log) : log'[i] = log[i]
           /\ log'[Len(log) + 1] = e
BY AppendProperties, LenProperties

\* The outbox event is logged exactly when the log is as long as the record
\* has commits.
LEMMA LoggedIffFull ==
    ASSUME TypeOK, OutboxOwn, LogExact, LastLogged, file.pending # None
    PROVE  Logged(file.pending) <=> Len(log) = file.commits
<1>0. Len(log) \in Nat /\ file.commits \in Nat
    BY LenProperties, BoundsAssumption DEF TypeOK
<1>1. ASSUME Logged(file.pending) PROVE Len(log) = file.commits
    <2>1. PICK i \in 1..Len(log) : log[i] = file.pending
        BY <1>1 DEF Logged
    <2>2. i = file.commits
        BY <2>1 DEF LogExact, OutboxOwn
    <2> QED
        BY <1>0, <2>2 DEF LogExact
<1>2. ASSUME Len(log) = file.commits PROVE Logged(file.pending)
    BY <1>0, <1>2 DEF LastLogged, Logged, OutboxOwn
<1> QED
    BY <1>1, <1>2

LEMMA StoreInvInit == Init => StoreInv
<1> SUFFICES ASSUME Init PROVE StoreInv
    OBVIOUS
<1>0. log \in Seq(Event) /\ Len(log) = 0
    BY EmptySeq DEF Init
<1>1. TypeOK
    BY <1>0, BoundsAssumption DEF Init, TypeOK, Phases, Calls
<1>2. Exclusive /\ PhaseOK
    BY DEF Init, Exclusive, PhaseOK
<1>3. OutboxOwn /\ LogExact /\ LastLogged /\ TailOK /\ AckedOK
    BY <1>0 DEF Init, OutboxOwn, LogExact, LastLogged, TailOK, AckedOK
<1> QED
    BY <1>1, <1>2, <1>3 DEF StoreInv

----------------------------------------------------------------------------
(***************************************************************************)
(* A caller in a phase is the only one that is not idle, and stays alone   *)
(* when it moves.                                                          *)
(***************************************************************************)
LEMMA OthersIdle ==
    ASSUME Exclusive, NEW p \in Procs, pc[p] # "idle"
    PROVE  lock = p /\ \A q \in Procs \ {p} : pc[q] = "idle"
BY DEF Exclusive

LEMMA PersistStep ==
    ASSUME StoreInv, NEW p \in Procs, NEW next \in {"recovered", "settle"},
           pc[p] \in {"recover", "publish"}, PersistOperationEvent(p, next),
           UNCHANGED <<file, lock, call, acked, faults>>
    PROVE  StoreInv'
<1> USE DEF StoreInv
<1>0. file.pending # None /\ file.pending \in Event
    BY DEF PhaseOK, TypeOK
<1>1. Len(log) \in Nat /\ file.commits \in Nat
    BY LenProperties, BoundsAssumption DEF TypeOK
<1>2. lock = p /\ \A q \in Procs \ {p} : pc[q] = "idle"
    BY OthersIdle
<1>3. pc' = [pc EXCEPT ![p] = next] \/ pc' = pc
    BY DEF PersistOperationEvent, Goto
<1>4. pc' \in [Procs -> Phases] /\ Exclusive'
    BY <1>2, <1>3 DEF Exclusive, TypeOK, Phases
<1>5. CASE Logged(file.pending)
    <2>1. pc' = [pc EXCEPT ![p] = next] /\ UNCHANGED <<log, tail>>
        BY <1>5 DEF PersistOperationEvent, Goto
    <2>2. Len(log) = file.commits
        BY <1>0, <1>5, LoggedIffFull
    <2>3. PhaseOK'
        BY <1>0, <1>2, <2>1, <2>2 DEF PhaseOK, TypeOK
    <2>4. TypeOK'
        BY <1>4, <2>1 DEF TypeOK
    <2>5. OutboxOwn' /\ LogExact' /\ LastLogged' /\ TailOK' /\ AckedOK'
        BY <2>1 DEF OutboxOwn, LogExact, LastLogged, TailOK, AckedOK
    <2> QED
        BY <1>4, <2>3, <2>4, <2>5
<1>6. CASE ~Logged(file.pending) /\ tail = Torn
    <2>1. tail' = None /\ UNCHANGED <<log, pc>>
        BY <1>6, TornAssumption, NoneAssumption DEF PersistOperationEvent
    <2>2. TypeOK' /\ TailOK'
        BY <2>1 DEF TypeOK, TailOK
    <2>3. Exclusive' /\ PhaseOK' /\ OutboxOwn' /\ LogExact' /\ LastLogged' /\ AckedOK'
        BY <2>1 DEF Exclusive, OutboxOwn, LogExact, LastLogged, PhaseOK, AckedOK
    <2> QED
        BY <2>2, <2>3
<1>7. CASE ~Logged(file.pending) /\ tail # Torn
    <2>1. log' = Append(log, file.pending) /\ tail' = None /\ pc' = [pc EXCEPT ![p] = next]
        <3>1. CASE tail = None
            BY <1>7, <3>1, NoneAssumption DEF PersistOperationEvent, Goto
        <3>2. CASE tail # None
            <4>1. tail = file.pending /\ tail \in Event
                BY <1>0, <1>7, <3>2 DEF TailOK
            <4> QED
                BY <1>7, <3>2, <4>1 DEF PersistOperationEvent, Goto
        <3> QED
            BY <3>1, <3>2
    <2>2. Len(log) + 1 = file.commits
        BY <1>0, <1>7, LoggedIffFull DEF LogExact
    <2>3. /\ log' \in Seq(Event) /\ Len(log') = file.commits
          /\ \A i \in 1..Len(log) : log'[i] = log[i]
          /\ log'[file.commits] = file.pending
        BY <1>0, <2>1, <2>2, LogAppend DEF TypeOK
    <2>4. TypeOK'
        BY <1>4, <2>1, <2>3 DEF TypeOK
    <2>5. LogExact'
        <3>1. file.pending.commit = file.commits
            BY <1>0 DEF OutboxOwn
        <3>2. \A i \in 1..Len(log') : log'[i].commit = i
            BY <1>1, <2>2, <2>3, <3>1 DEF LogExact
        <3> QED
            BY <2>3, <3>2 DEF LogExact
    <2>6. OutboxOwn' /\ LastLogged' /\ TailOK'
        BY <2>1, <2>3 DEF OutboxOwn, LastLogged, TailOK
    <2>7. AckedOK'
        BY <1>1, <2>2, <2>3 DEF AckedOK, TypeOK
    <2>8. PhaseOK'
        BY <1>0, <1>2, <2>1, <2>3 DEF PhaseOK, TypeOK
    <2> QED
        BY <1>4, <2>4, <2>5, <2>6, <2>7, <2>8
<1> QED
    BY <1>5, <1>6, <1>7

\* Emptying the outbox once its event is logged.
LEMMA EmptyOutbox ==
    ASSUME StoreInv, NEW p \in Procs, pc[p] \in {"recovered", "settle"},
           file' = [file EXCEPT !.pending = None], UNCHANGED <<log, tail>>
    PROVE  /\ file' \in [commits : 0..MaxCommits, rev : Nat, pending : Event \cup {None}]
           /\ file'.pending = None /\ file'.commits = file.commits /\ file'.rev = file.rev
           /\ OutboxOwn' /\ LogExact' /\ LastLogged' /\ TailOK'
<1> USE DEF StoreInv
<1>0. Len(log) \in Nat /\ file.commits \in Nat
    BY LenProperties, BoundsAssumption DEF TypeOK
<1>1. /\ file' \in [commits : 0..MaxCommits, rev : Nat, pending : Event \cup {None}]
      /\ file'.pending = None /\ file'.commits = file.commits /\ file'.rev = file.rev
    BY DEF TypeOK
<1>2. Len(log) = file.commits
    BY DEF PhaseOK
<1>3. tail = None
    BY <1>0, <1>2 DEF TailOK
<1> QED
    BY <1>1, <1>2, <1>3 DEF OutboxOwn, LogExact, LastLogged, TailOK

\* The end of a call, and the way on to the next phase, with the outbox empty.
LEMMA ProceedStep ==
    ASSUME TypeOK, Exclusive, NEW p \in Procs, pc[p] # "idle", Proceed(p),
           file'.pending = None, UNCHANGED call
    PROVE  /\ pc' \in [Procs -> Phases] /\ lock' \in Procs \cup {None, "orphan"}
           /\ Exclusive' /\ PhaseOK'
<1>1. lock = p /\ \A q \in Procs \ {p} : pc[q] = "idle"
    BY OthersIdle
<1>2. \/ pc' = [pc EXCEPT ![p] = "stage"] /\ lock' = lock
      \/ pc' = [pc EXCEPT ![p] = "idle"] /\ lock' = None
    BY DEF Proceed, Goto, Leave
<1> QED
    BY <1>1, <1>2 DEF TypeOK, Exclusive, PhaseOK, Phases

LEMMA StageStep ==
    ASSUME StoreInv, NEW p \in Procs, NEW touch \in BOOLEAN, StageRecord(p, touch)
    PROVE  StoreInv'
<1> USE DEF StoreInv
<1> DEFINE r == IF touch THEN file.rev + 1 ELSE file.rev
           e == [commit |-> file.commits + 1, rev |-> r]
<1>0. Len(log) \in Nat /\ file.commits \in Nat /\ file.rev \in Nat
    BY LenProperties, BoundsAssumption DEF TypeOK
<1>1. /\ pc[p] = "stage" /\ file.commits < MaxCommits
      /\ file' = [commits |-> file.commits + 1, rev |-> r, pending |-> e]
      /\ pc' = [pc EXCEPT ![p] = "publish"]
      /\ UNCHANGED <<log, tail, lock, call, acked, faults>>
    BY DEF StageRecord, Goto
<1>2. r \in Nat /\ e \in Event
    BY <1>0 DEF Event
<1>3. /\ file'.commits = file.commits + 1 /\ file'.rev = r /\ file'.pending = e
      /\ e # None /\ e.commit = file.commits + 1
    BY <1>1, <1>2, NoneAssumption
<1>4. file.pending = None /\ Len(log) = file.commits /\ tail = None
    BY <1>1 DEF PhaseOK, LogExact, TailOK
<1>5. TypeOK'
    <2>1. file' \in [commits : 0..MaxCommits, rev : Nat, pending : Event \cup {None}]
        BY <1>0, <1>1, <1>2, BoundsAssumption
    <2> QED
        BY <1>1, <2>1 DEF TypeOK, Phases
<1>6. lock = p /\ \A q \in Procs \ {p} : pc[q] = "idle"
    BY <1>1, OthersIdle
<1>7. Exclusive' /\ PhaseOK'
    BY <1>1, <1>3, <1>6 DEF Exclusive, PhaseOK, TypeOK
<1>8. OutboxOwn' /\ LogExact' /\ LastLogged' /\ TailOK' /\ AckedOK'
    BY <1>0, <1>1, <1>3, <1>4 DEF OutboxOwn, LogExact, LastLogged, TailOK, AckedOK
<1> QED
    BY <1>5, <1>7, <1>8

\* A failure or a crash: the caller is gone, and the append may have begun.
LEMMA FaultStep ==
    ASSUME StoreInv, NEW p \in Procs, pc[p] # "idle", faults < MaxFaults, Interrupted(p),
           pc' = [pc EXCEPT ![p] = "idle"], lock' \in {None, "orphan"},
           faults' = faults + 1, UNCHANGED <<file, log, call, acked>>
    PROVE  StoreInv'
<1> USE DEF StoreInv
<1>1. \A q \in Procs \ {p} : pc[q] = "idle"
    BY OthersIdle
<1>2. Exclusive' /\ PhaseOK'
    BY <1>1 DEF Exclusive, PhaseOK, TypeOK
<1>3. TailOK' /\ tail' \in Event \cup {None, Torn}
    <2>1. CASE UNCHANGED tail
        BY <2>1 DEF TailOK, TypeOK
    <2>2. CASE ~UNCHANGED tail
        <3>1. /\ pc[p] \in {"recover", "publish"} /\ ~Logged(file.pending)
              /\ tail' \in {None, Torn, file.pending}
            BY <2>2 DEF Interrupted
        <3>2. file.pending # None /\ file.pending \in Event
            BY <3>1 DEF PhaseOK, TypeOK
        <3>3. Len(log) + 1 = file.commits
            BY <3>1, <3>2, LoggedIffFull DEF LogExact
        <3> QED
            BY <3>1, <3>2, <3>3 DEF TailOK
    <2> QED
        BY <2>1, <2>2
<1>4. TypeOK'
    BY <1>3, BoundsAssumption DEF TypeOK, Phases
<1>5. OutboxOwn' /\ LogExact' /\ LastLogged' /\ AckedOK'
    BY DEF OutboxOwn, LogExact, LastLogged, AckedOK
<1> QED
    BY <1>2, <1>3, <1>4, <1>5

LEMMA StoreInvStep == StoreInv /\ [Next]_vars => StoreInv'
<1> SUFFICES ASSUME StoreInv, [Next]_vars PROVE StoreInv'
    OBVIOUS
<1> USE DEF StoreInv
<1>1. ASSUME NEW p \in Procs, NEW c \in Calls, Enter(p, c) PROVE StoreInv'
    <2>1. /\ pc[p] = "idle" /\ lock \in {None, "orphan"} /\ lock' = p
          /\ pc' = [pc EXCEPT ![p] = "read"] /\ call' = [call EXCEPT ![p] = c]
          /\ UNCHANGED <<file, log, tail, acked, faults>>
        BY <1>1 DEF Enter, Begin, Goto
    <2>2. \A q \in Procs : pc[q] = "idle"
        BY <2>1, NoneAssumption, ProcsAssumption DEF Exclusive
    <2>3. TypeOK'
        BY <2>1 DEF TypeOK, Phases
    <2>4. Exclusive' /\ PhaseOK'
        BY <2>1, <2>2 DEF Exclusive, PhaseOK, TypeOK
    <2>5. OutboxOwn' /\ LogExact' /\ LastLogged' /\ TailOK' /\ AckedOK'
        BY <2>1 DEF OutboxOwn, LogExact, LastLogged, TailOK, AckedOK
    <2> QED
        BY <2>3, <2>4, <2>5
<1>2. ASSUME NEW p \in Procs, ReadStored(p) PROVE StoreInv'
    <2>0. pc[p] = "read" /\ UNCHANGED <<file, log, tail, call, acked, faults>>
        BY <1>2 DEF ReadStored
    <2>1. OutboxOwn' /\ LogExact' /\ LastLogged' /\ TailOK' /\ AckedOK'
        BY <2>0 DEF OutboxOwn, LogExact, LastLogged, TailOK, AckedOK
    <2>2. CASE file.pending = None
        <3>1. Proceed(p)
            BY <1>2, <2>2 DEF ReadStored
        <3>2. /\ pc' \in [Procs -> Phases] /\ lock' \in Procs \cup {None, "orphan"}
              /\ Exclusive' /\ PhaseOK'
            BY <2>0, <2>2, <3>1, ProceedStep
        <3>3. TypeOK'
            BY <2>0, <3>2 DEF TypeOK
        <3> QED
            BY <2>1, <3>2, <3>3
    <2>3. CASE file.pending # None
        <3>1. file.pending.rev = file.rev
            BY <2>3 DEF OutboxOwn
        <3>2. pc' = [pc EXCEPT ![p] = "recover"] /\ lock' = lock
            BY <1>2, <2>3, <3>1 DEF ReadStored, Goto
        <3>3. lock = p /\ \A q \in Procs \ {p} : pc[q] = "idle"
            BY <2>0, OthersIdle
        <3>4. TypeOK'
            BY <2>0, <3>2 DEF TypeOK, Phases
        <3>5. Exclusive' /\ PhaseOK'
            BY <2>0, <2>3, <3>2, <3>3 DEF Exclusive, PhaseOK, TypeOK
        <3> QED
            BY <2>1, <3>4, <3>5
    <2> QED
        BY <2>2, <2>3
<1>3. ASSUME NEW p \in Procs, RecoverEvent(p) PROVE StoreInv'
    BY <1>3, PersistStep DEF RecoverEvent
<1>4. ASSUME NEW p \in Procs, RecoverRecord(p) PROVE StoreInv'
    <2>1. /\ pc[p] = "recovered" /\ file' = [file EXCEPT !.pending = None] /\ Proceed(p)
          /\ UNCHANGED <<log, tail, call, acked, faults>>
        BY <1>4 DEF RecoverRecord
    <2>2. /\ file' \in [commits : 0..MaxCommits, rev : Nat, pending : Event \cup {None}]
          /\ file'.pending = None /\ OutboxOwn' /\ LogExact' /\ LastLogged' /\ TailOK'
        BY <2>1, EmptyOutbox
    <2>3. /\ pc' \in [Procs -> Phases] /\ lock' \in Procs \cup {None, "orphan"}
          /\ Exclusive' /\ PhaseOK'
        BY <2>1, <2>2, ProceedStep
    <2>4. TypeOK'
        BY <2>1, <2>2, <2>3 DEF TypeOK
    <2>5. AckedOK'
        BY <2>1 DEF AckedOK
    <2> QED
        BY <2>2, <2>3, <2>4, <2>5
<1>5. ASSUME NEW p \in Procs, Refuse(p) PROVE StoreInv'
    <2>1. /\ pc[p] = "stage" /\ pc' = [pc EXCEPT ![p] = "idle"] /\ lock' = None
          /\ UNCHANGED <<file, log, tail, call, acked, faults>>
        BY <1>5 DEF Refuse, Leave, Goto
    <2>2. \A q \in Procs \ {p} : pc[q] = "idle"
        BY <2>1, OthersIdle
    <2>3. TypeOK'
        BY <2>1 DEF TypeOK, Phases
    <2>4. Exclusive' /\ PhaseOK'
        BY <2>1, <2>2 DEF Exclusive, PhaseOK, TypeOK
    <2>5. OutboxOwn' /\ LogExact' /\ LastLogged' /\ TailOK' /\ AckedOK'
        BY <2>1 DEF OutboxOwn, LogExact, LastLogged, TailOK, AckedOK
    <2> QED
        BY <2>3, <2>4, <2>5
<1>6. ASSUME NEW p \in Procs, NEW touch \in BOOLEAN, StageRecord(p, touch) PROVE StoreInv'
    BY <1>6, StageStep
<1>7. ASSUME NEW p \in Procs, PublishEvent(p) PROVE StoreInv'
    BY <1>7, PersistStep DEF PublishEvent
<1>8. ASSUME NEW p \in Procs, SettleRecord(p) PROVE StoreInv'
    <2>1. /\ pc[p] = "settle" /\ file' = [file EXCEPT !.pending = None]
          /\ acked' = acked \cup {file.commits}
          /\ pc' = [pc EXCEPT ![p] = "idle"] /\ lock' = None
          /\ UNCHANGED <<log, tail, call, faults>>
        BY <1>8 DEF SettleRecord, Leave, Goto
    <2>2. /\ file' \in [commits : 0..MaxCommits, rev : Nat, pending : Event \cup {None}]
          /\ file'.pending = None /\ OutboxOwn' /\ LogExact' /\ LastLogged' /\ TailOK'
        BY <2>1, EmptyOutbox
    <2>3. \A q \in Procs \ {p} : pc[q] = "idle"
        BY <2>1, OthersIdle
    <2>4. Len(log) = file.commits /\ file.commits > 0 /\ file.commits \in 1..MaxCommits
        BY <2>1, BoundsAssumption DEF PhaseOK, OutboxOwn, TypeOK
    <2>5. TypeOK'
        BY <2>1, <2>2, <2>4 DEF TypeOK, Phases
    <2>6. Exclusive' /\ PhaseOK'
        BY <2>1, <2>3 DEF Exclusive, PhaseOK, TypeOK
    <2>7. AckedOK'
        BY <2>1, <2>4 DEF AckedOK
    <2> QED
        BY <2>2, <2>5, <2>6, <2>7
<1>9. ASSUME NEW p \in Procs, Fail(p) PROVE StoreInv'
    BY <1>9, FaultStep DEF Fail, Leave, Goto
<1>10. ASSUME NEW p \in Procs, Crash(p) PROVE StoreInv'
    BY <1>10, FaultStep DEF Crash, Goto
<1>11. CASE UNCHANGED vars
    <2>1. TypeOK'
        BY <1>11 DEF vars, TypeOK
    <2> QED
        BY <1>11, <2>1 DEF vars, Exclusive, OutboxOwn, LogExact, LastLogged, PhaseOK, TailOK,
           AckedOK
<1> QED
    BY <1>1, <1>2, <1>3, <1>4, <1>5, <1>6, <1>7, <1>8, <1>9, <1>10, <1>11 DEF Next, Step

(***************************************************************************)
(* Every commit is in the log once and in order, at the latest when its    *)
(* outbox is emptied, and nobody is told of a commit before its event is   *)
(* published.                                                              *)
(***************************************************************************)
THEOREM EventLogIsExact == Spec => [](TypeOK /\ LogExact /\ AckedPublished)
<1>1. StoreInv => TypeOK /\ LogExact /\ AckedPublished
    BY DEF StoreInv, AckedOK, AckedPublished
<1> QED
    BY StoreInvInit, StoreInvStep, <1>1, PTL DEF Spec

(***************************************************************************)
(* What an interrupted append leaves behind is always the remains of the   *)
(* event in the outbox.                                                    *)
(***************************************************************************)
THEOREM TornLineIsRecoverable == Spec => []TailIsPending
<1>1. StoreInv => TailIsPending
    BY DEF StoreInv, TailOK, TailIsPending
<1> QED
    BY StoreInvInit, StoreInvStep, <1>1, PTL DEF Spec

----------------------------------------------------------------------------
(***************************************************************************)
(* Refinement.  Only StageRecord changes what the store answers for; every *)
(* other step keeps the record and moves the same event from the outbox to *)
(* the log.                                                                *)
(***************************************************************************)
LEMMA PromisedFacts ==
    ASSUME StoreInv
    PROVE  Promised = IF file.pending # None /\ Len(log) # file.commits
                      THEN Append(log, file.pending) ELSE log
<1>1. CASE file.pending = None
    BY <1>1 DEF Promised
<1>2. CASE file.pending # None
    BY <1>2, LoggedIffFull DEF Promised, StoreInv
<1> QED
    BY <1>1, <1>2

\* Publishing the outbox event moves it, and does not change the promise.
LEMMA PersistPromise ==
    ASSUME StoreInv, StoreInv', NEW p \in Procs, NEW next, pc[p] \in {"recover", "publish"},
           PersistOperationEvent(p, next), UNCHANGED file
    PROVE  Promised' = Promised
<1>0. file.pending # None
    BY DEF StoreInv, PhaseOK
<1>1. CASE log' = log
    BY <1>1 DEF Promised, Logged
<1>2. CASE log' # log
    <2>1. ~Logged(file.pending) /\ log' = Append(log, file.pending)
        <3>1. ~Logged(file.pending) /\ (tail = None \/ tail \in Event)
            BY <1>2 DEF PersistOperationEvent
        <3>2. CASE tail = None
            BY <1>2, <3>1, <3>2, NoneAssumption DEF PersistOperationEvent
        <3>3. CASE tail # None /\ tail \in Event
            <4>1. tail = file.pending
                BY <3>3, TornAssumption DEF StoreInv, TailOK
            <4> QED
                BY <1>2, <3>1, <3>3, <4>1, NoneAssumption, TornAssumption
                   DEF PersistOperationEvent
        <3> QED
            BY <3>1, <3>2, <3>3
    <2>2. Len(log) # file.commits
        BY <1>0, <2>1, LoggedIffFull DEF StoreInv
    <2>3. Len(log') = Len(log) + 1 /\ Len(log) \in Nat
        BY <1>0, <2>1, LogAppend DEF StoreInv, TypeOK
    <2>4. Len(log') = file.commits
        BY <2>2, <2>3 DEF StoreInv, LogExact
    <2>5. Promised = Append(log, file.pending)
        BY <1>0, <2>2, PromisedFacts
    <2>6. Promised' = log'
        <3>1. Logged(file.pending)'
            <4>1. log'[Len(log) + 1] = file.pending
                BY <1>0, <2>1, LogAppend DEF StoreInv, TypeOK
            <4>2. Len(log) + 1 \in 1..Len(log')
                BY <2>3
            <4> QED
                BY <4>1, <4>2, <2>3 DEF Logged
        <3> QED
            BY <3>1 DEF Promised
    <2> QED
        BY <2>1, <2>5, <2>6
<1> QED
    BY <1>1, <1>2

\* Emptying the outbox of a logged event does not change the promise.
LEMMA EmptyPromise ==
    ASSUME StoreInv, NEW p \in Procs, pc[p] \in {"recovered", "settle"},
           file' = [file EXCEPT !.pending = None], UNCHANGED log
    PROVE  Promised' = Promised /\ file'.commits = file.commits /\ file'.rev = file.rev
<1>1. Len(log) = file.commits
    BY DEF StoreInv, PhaseOK
<1>2. Promised = log
    BY <1>1, PromisedFacts
<1>3. file'.pending = None /\ file'.commits = file.commits /\ file'.rev = file.rev
    BY DEF StoreInv, TypeOK
<1> QED
    BY <1>2, <1>3 DEF Promised

LEMMA StagePromise ==
    ASSUME StoreInv, StoreInv', NEW p \in Procs, NEW touch \in BOOLEAN, StageRecord(p, touch)
    PROVE  Abstract!Commit
<1> DEFINE r == IF touch THEN file.rev + 1 ELSE file.rev
           e == [commit |-> file.commits + 1, rev |-> r]
<1>0. Len(log) \in Nat /\ file.commits \in Nat /\ file.rev \in Nat
    BY LenProperties, BoundsAssumption DEF StoreInv, TypeOK
<1>1. /\ pc[p] = "stage" /\ log' = log
      /\ file' = [commits |-> file.commits + 1, rev |-> r, pending |-> e]
    BY DEF StageRecord
<1>2. file'.commits = file.commits + 1 /\ file'.rev = r /\ file'.pending = e
    BY <1>1
<1>3. e # None
    BY <1>0, NoneAssumption DEF Event
<1>4. file.pending = None /\ Len(log) = file.commits
    BY <1>1 DEF StoreInv, PhaseOK, LogExact
<1>5. Promised = log
    BY <1>4 DEF Promised
<1>6. ~Logged(file.pending)'
    BY <1>0, <1>1, <1>2, <1>4 DEF Logged, StoreInv, LogExact
<1>7. Promised' = Append(log, e)
    BY <1>1, <1>2, <1>3, <1>6 DEF Promised
<1> QED
    BY <1>2, <1>5, <1>7 DEF Abstract!Commit

LEMMA AbstractInit == Init => Abstract!Init
BY DEF Init, Abstract!Init, Promised

LEMMA AbstractStep ==
    StoreInv /\ StoreInv' /\ [Next]_vars
        => [Abstract!Commit]_<<file.commits, file.rev, Promised>>
<1> SUFFICES ASSUME StoreInv, StoreInv', [Next]_vars
             PROVE  Abstract!Commit \/ UNCHANGED <<file.commits, file.rev, Promised>>
    OBVIOUS
<1>1. ASSUME UNCHANGED <<file, log>> PROVE UNCHANGED <<file.commits, file.rev, Promised>>
    BY <1>1 DEF Promised, Logged
<1>2. ASSUME NEW p \in Procs, RecoverEvent(p) \/ PublishEvent(p)
      PROVE  UNCHANGED <<file.commits, file.rev, Promised>>
    BY <1>2, PersistPromise DEF RecoverEvent, PublishEvent
<1>3. ASSUME NEW p \in Procs, RecoverRecord(p) \/ SettleRecord(p)
      PROVE  UNCHANGED <<file.commits, file.rev, Promised>>
    BY <1>3, EmptyPromise DEF RecoverRecord, SettleRecord
<1>4. ASSUME NEW p \in Procs, NEW touch \in BOOLEAN, StageRecord(p, touch)
      PROVE  Abstract!Commit
    BY <1>4, StagePromise
<1>5. ASSUME NEW p \in Procs,
             \/ \E c \in Calls : Enter(p, c)
             \/ ReadStored(p) \/ Refuse(p) \/ Fail(p) \/ Crash(p)
      PROVE  UNCHANGED <<file, log>>
    BY <1>5 DEF Enter, Begin, ReadStored, Refuse, Fail, Crash
<1>6. CASE UNCHANGED vars
    BY <1>1, <1>6 DEF vars
<1> QED
    BY <1>1, <1>2, <1>3, <1>4, <1>5, <1>6 DEF Next, Step

(***************************************************************************)
(* The durable store implements OperationLog: a commit is one step to      *)
(* everybody who reads the record and its events, however many crashes and *)
(* recoveries it takes.                                                    *)
(***************************************************************************)
THEOREM StoreImplementsLog == Spec => CommitsAtomically
BY StoreInvInit, StoreInvStep, AbstractInit, AbstractStep, PTL
   DEF Spec, CommitsAtomically, Abstract!Spec

-----------------------------------------------------------------------------
(***************************************************************************)
(* The lock under the store.  The store takes for granted that a caller is *)
(* alone between Enter and Leave; what stands behind that is the file at   *)
(* the lock path, `path`, and the step of each caller of withOperationLock.*)
(* For any number of callers and processes: the operation lock loses       *)
(* mutual exclusion only through the removal of a live holder's file.      *)
(***************************************************************************)
(***************************************************************************)
(* ExclusionUnlessRobbed is inductive with the type of the lock file: a    *)
(* caller creates the file only when there is none, so no unrobbed owner   *)
(* exists at that moment; and every removal either is the owner's own,     *)
(* which leaves the owning phases, or adds the owner to robbed.            *)
(***************************************************************************)
LockInv == LockTypeOK /\ ExclusionUnlessRobbed

LEMMA LockInvInit == LockInit => LockInv
BY DEF LockInit, LockInv, LockTypeOK, ExclusionUnlessRobbed, LockPhases,
   Owning,
   ReadResults, StatResults

LEMMA LockInvStep == LockInv /\ [LockNext]_lockVars => LockInv'
<1> SUFFICES ASSUME LockInv, [LockNext]_lockVars PROVE LockInv'
    OBVIOUS
<1> USE PidOfAssumption, NoFileAssumption, PidsAssumption DEF LockInv, LockTypeOK, ExclusionUnlessRobbed, Running,
   Owning, LockFile
<1>1. ASSUME NEW c \in Callers, Call(c) PROVE LockInv'
    BY <1>1 DEF Call, Moves, LockPhases
<1>2. ASSUME NEW c \in Callers, Open(c) PROVE LockInv'
    <2>1. CASE path = NoFile
        <3>1. /\ path' = [by |-> c, pid |-> FALSE, old |-> FALSE]
              /\ step' = [step EXCEPT ![c] = "opened"]
              /\ robbed' = robbed \ {c}
              /\ UNCHANGED <<read, stat, alive>>
            BY <1>2, <2>1 DEF Open, Moves
        <3>2. LockTypeOK'
            BY <3>1 DEF LockPhases
        <3>3. \A d \in Callers \ {c} : ~(Running(d) /\ step[d] \in Owning /\ d \notin robbed)
            BY <2>1
        <3>4. path' # NoFile /\ path'.by = c
            <4>1. path' \in LockFile
                BY <3>1
            <4>2. path' # NoFile
                BY ONLY <4>1, NoFileAssumption
            <4>3. path'.by = c
                BY ONLY <3>1
            <4> QED
                BY <4>2, <4>3
        <3>5. \A d \in Callers \ {c} :
                  ~(Running(d)' /\ step'[d] \in Owning /\ d \notin robbed')
            BY <3>1, <3>3
        <3>6. ExclusionUnlessRobbed'
            BY <3>4, <3>5 DEF ExclusionUnlessRobbed
        <3> QED
            BY <3>2, <3>6
    <2>2. CASE path # NoFile
        BY <1>2, <2>2 DEF Open, Moves, LockPhases
    <2> QED
        BY <2>1, <2>2
<1>3. ASSUME NEW c \in Callers, WritePid(c) PROVE LockInv'
    BY <1>3 DEF WritePid, Moves, LockPhases
<1>4. ASSUME NEW c \in Callers, ActionReturns(c) PROVE LockInv'
    BY <1>4 DEF ActionReturns, Moves, LockPhases
<1>5. ASSUME NEW c \in Callers, Release(c) PROVE LockInv'
    BY <1>5 DEF Release, Remove, Moves, LockPhases
<1>6. ASSUME NEW c \in Callers, ActionThrows(c) PROVE LockInv'
    BY <1>6 DEF ActionThrows, Remove, Moves, LockPhases
<1>7. ASSUME NEW c \in Callers, Rethrow(c) PROVE LockInv'
    BY <1>7 DEF Rethrow, Remove, Moves, LockPhases
<1>8. ASSUME NEW c \in Callers, ReadPid(c) PROVE LockInv'
    BY <1>8 DEF ReadPid, ReadResults
<1>9. ASSUME NEW c \in Callers, Stat(c) PROVE LockInv'
    BY <1>9 DEF Stat, StatResults
<1>10. ASSUME NEW c \in Callers, Judge(c) PROVE LockInv'
    BY <1>10 DEF Judge, Moves, LockPhases, ReadResults, StatResults
<1>11. ASSUME NEW c \in Callers, Recover(c) PROVE LockInv'
    BY <1>11 DEF Recover, Remove, Moves, LockPhases
<1>12. CASE GrowOld
    BY <1>12 DEF GrowOld
<1>13. ASSUME NEW p \in Pids, Dies(p) PROVE LockInv'
    BY <1>13 DEF Dies
<1>14. CASE UNCHANGED lockVars
    BY <1>14 DEF lockVars
<1> QED
    BY <1>1, <1>2, <1>3, <1>4, <1>5, <1>6, <1>7, <1>8, <1>9, <1>10, <1>11,
       <1>12, <1>13, <1>14 DEF LockNext, LockStep

(***************************************************************************)
(* In every behaviour of withOperationLock, an owner that nobody robbed    *)
(* finds its own file at the lock path.                                    *)
(***************************************************************************)
THEOREM LockExclusion == LockSpec => []ExclusionUnlessRobbed
<1>1. LockInv => ExclusionUnlessRobbed
    BY DEF LockInv
<1> QED
    BY LockInvInit, LockInvStep, <1>1, PTL DEF LockSpec

(***************************************************************************)
(* Hence, while no holder has been robbed, at most one live caller is      *)
(* inside its action.                                                      *)
(***************************************************************************)
THEOREM MutexWhileNobodyRobbed == LockSpec => [](robbed = {} => MutualExclusion)
<1>1. ExclusionUnlessRobbed => (robbed = {} => MutualExclusion)
    BY DEF ExclusionUnlessRobbed, MutualExclusion, Holds, Owning
<1> QED
    BY LockExclusion, <1>1, PTL
(***************************************************************************)
(* Where exclusion is lost: the release of a holder that was not robbed    *)
(* takes nobody's file but its own, so a robbery that is not the           *)
(* consequence of an earlier one is a waiter's removal of a file it judged *)
(* recoverable, or the second rm of an action that threw.                  *)
(***************************************************************************)
RobberyStarts ==
    [][robbed = {} /\ robbed' # {} => \E c \in Callers : Recover(c) \/ Rethrow(c)]_lockVars

THEOREM RobberyStartsInRecoveryOrRethrow == LockSpec => RobberyStarts
<1>1. ASSUME LockInv, [LockNext]_lockVars, robbed = {}, robbed' # {}
      PROVE  \E c \in Callers : Recover(c) \/ Rethrow(c)
    <2>1. ASSUME NEW c \in Callers, Release(c) \/ ActionThrows(c) PROVE FALSE
        <3>1. path.by = c
            BY <1>1, <2>1 DEF LockInv, ExclusionUnlessRobbed, Owning, Release, ActionThrows
        <3> QED
            BY <1>1, <2>1, <3>1 DEF Release, ActionThrows, Remove
    <2>2. ASSUME NEW c \in Callers, Open(c) PROVE FALSE
        BY <1>1, <2>2 DEF Open
    <2>3. ASSUME NEW c \in Callers,
                 \/ Call(c) \/ WritePid(c) \/ ActionReturns(c)
                 \/ ReadPid(c) \/ Stat(c) \/ Judge(c)
          PROVE  FALSE
        BY <1>1, <2>3 DEF Call, WritePid, ActionReturns, ReadPid, Stat, Judge
    <2>4. ~GrowOld /\ ~UNCHANGED lockVars /\ \A p \in Pids : ~Dies(p)
        BY <1>1 DEF GrowOld, Dies, lockVars
    <2> QED
        BY <1>1, <2>1, <2>2, <2>3, <2>4 DEF LockNext, LockStep
<1> QED
    BY <1>1, LockInvInit, LockInvStep, PTL DEF LockSpec, RobberyStarts

-----------------------------------------------------------------------------
(***************************************************************************)
(* The record under its lock file.  Admitted ties the two components       *)
(* together: whoever is at work on the record is alive and inside the      *)
(* action that withOperationLock runs.  HolderInside says that the caller  *)
(* the store takes for the holder is at work.  With the exclusion of the   *)
(* lock file they leave nobody at work when a caller gets inside.          *)
(***************************************************************************)
Admitted == \A c \in Callers : pc[c] # "idle" => Running(c) /\ step[c] = "inside"

HolderInside == lock \in Procs => pc[lock] # "idle"

LockedInv ==
    /\ LockInv
    /\ ~harmed => robbed = {} /\ StoreInv /\ Admitted /\ HolderInside

\* Every step of the composition is a step of the lock, or none.
LEMMA LockPart == LockedNext => [LockNext]_lockVars
<1>1. ASSUME NEW c \in Callers, CallerStep(c) PROVE [LockNext]_lockVars
    BY <1>1 DEF CallerStep, Outside, Enters, Works, Returns, Throws, LockNext, LockStep
<1>2. ASSUME NEW p \in Pids, ProcessDies(p) PROVE LockNext
    BY <1>2 DEF ProcessDies, LockNext
<1>3. GrowOld => LockNext
    BY DEF LockNext
<1> QED
    BY <1>1, <1>2, <1>3 DEF LockedNext

\* A step of the action concerns its own caller, and gives up the lock exactly
\* when it is the last one.
LEMMA ActionStep ==
    ASSUME StoreInv, NEW p \in Procs, Step(p) \/ Fail(p)
    PROVE  /\ pc[p] # "idle"
           /\ \A q \in Procs : q # p => pc[q] = "idle" /\ pc'[q] = "idle"
           /\ lock' = None \/ (lock' = lock /\ pc'[p] # "idle")
<1> USE DEF StoreInv, TypeOK
<1>1. pc[p] # "idle"
    BY DEF Step, Fail, ReadStored, RecoverEvent, RecoverRecord, Refuse, StageRecord,
       PublishEvent, SettleRecord
<1>2. \A q \in Procs : q # p => pc[q] = "idle"
    BY <1>1, OthersIdle
<1>3. CASE ReadStored(p) \/ RecoverRecord(p)
    BY <1>1, <1>2, <1>3 DEF ReadStored, RecoverRecord, Proceed, Leave, Goto
<1>4. CASE RecoverEvent(p)
    BY <1>1, <1>2, <1>4 DEF RecoverEvent, PersistOperationEvent, Goto
<1>5. CASE PublishEvent(p)
    BY <1>1, <1>2, <1>5 DEF PublishEvent, PersistOperationEvent, Goto
<1>6. CASE Refuse(p) \/ SettleRecord(p) \/ Fail(p)
    BY <1>1, <1>2, <1>6 DEF Refuse, SettleRecord, Fail, Leave, Goto
<1>7. ASSUME NEW touch \in BOOLEAN, StageRecord(p, touch)
      PROVE  /\ \A q \in Procs : q # p => pc'[q] = "idle"
             /\ lock' = lock /\ pc'[p] # "idle"
    BY <1>1, <1>2, <1>7 DEF StageRecord, Goto
<1> QED
    BY <1>1, <1>2, <1>3, <1>4, <1>5, <1>6, <1>7 DEF Step

\* When the pid is in the lock file nobody is at work on the record.
LEMMA NobodyInside ==
    ASSUME LockedInv, ~harmed, NEW c \in Callers, WritePid(c), NEW k \in Calls, Begin(c, k)
    PROVE  Enter(c, k)
<1>1. /\ robbed = {} /\ StoreInv /\ Admitted /\ HolderInside /\ ExclusionUnlessRobbed
    BY DEF LockedInv, LockInv
<1>2. path.by = c /\ pc[c] = "idle"
    BY <1>1 DEF ExclusionUnlessRobbed, WritePid, Owning, Begin
<1>3. ASSUME lock \in Procs PROVE FALSE
    <2>1. pc[lock] # "idle" /\ lock \in Callers
        BY <1>1, <1>3, CallersAssumption DEF HolderInside
    <2>2. Running(lock) /\ step[lock] = "inside"
        BY <1>1, <2>1 DEF Admitted
    <2>3. path.by = lock
        BY <1>1, <2>1, <2>2 DEF ExclusionUnlessRobbed, Owning
    <2> QED
        BY <1>2, <2>1, <2>3
<1>4. lock \in {None, "orphan"}
    BY <1>1, <1>3 DEF StoreInv, TypeOK
<1> QED
    BY <1>4 DEF Enter

\* Until a live holder is robbed, a step of the composition is a step of
\* OperationStore, or leaves the record alone.
LEMMA StorePart == LockedInv /\ ~harmed /\ LockedNext => [Next]_vars
<1> SUFFICES ASSUME LockedInv, ~harmed, LockedNext PROVE [Next]_vars
    OBVIOUS
<1> USE CallersAssumption
<1>1. ASSUME NEW c \in Callers, Enters(c) PROVE Next
    BY <1>1, NobodyInside DEF Enters, Next
<1>2. ASSUME NEW c \in Callers, Works(c) \/ Returns(c) PROVE Next
    BY <1>2 DEF Works, Returns, Ends, Next
<1>3. ASSUME NEW c \in Callers, Throws(c) PROVE [Next]_vars
    BY <1>3 DEF Throws, Ends, Next
<1>4. ASSUME NEW c \in Callers, CallerStep(c) PROVE [Next]_vars
    BY <1>1, <1>2, <1>3, <1>4 DEF CallerStep, Outside
<1>5. ASSUME NEW p \in Pids, ProcessDies(p) PROVE [Next]_vars
    BY <1>5 DEF ProcessDies, Next
<1> QED
    BY <1>4, <1>5 DEF LockedNext


LEMMA LockedInvInit == LockedInit => LockedInv
<1> SUFFICES ASSUME LockedInit PROVE LockedInv
    OBVIOUS
<1>1. LockInv /\ StoreInv
    BY LockInvInit, StoreInvInit DEF LockedInit
<1>2. robbed = {} /\ Admitted /\ HolderInside
    BY NoneAssumption, CallersAssumption DEF LockedInit, LockInit, Init, Admitted, HolderInside
<1> QED
    BY <1>1, <1>2 DEF LockedInv

\* The steps of the lock before and after the action: their caller is not at
\* work on the record.
LEMMA OutsideStep ==
    ASSUME LockedInv, ~harmed, NEW c \in Callers,
           Outside(c) \/ (Throws(c) /\ step[c] = "opened")
    PROVE  Admitted' /\ HolderInside'
<1>1. Admitted /\ HolderInside /\ LockTypeOK
    BY DEF LockedInv, LockInv
<1>2. pc' = pc /\ lock' = lock /\ alive' = alive
    BY DEF Outside, Throws, Ends, vars, Call, Open, Release, Rethrow, ReadPid, Stat, Judge,
       Recover, ActionThrows
<1>3. step[c] # "inside" /\ \A d \in Callers : d # c => step'[d] = step[d]
    BY <1>1 DEF Outside, Throws, Call, Open, Release, Rethrow, ReadPid, Stat, Judge, Recover,
       ActionThrows, Moves, LockTypeOK
<1> QED
    BY <1>1, <1>2, <1>3 DEF Admitted, HolderInside, Running

LEMMA LockedInvStep == LockedInv /\ [LockedNext]_lockedVars => LockedInv'
<1> SUFFICES ASSUME LockedInv, [LockedNext]_lockedVars PROVE LockedInv'
    OBVIOUS
<1>1. CASE UNCHANGED lockedVars
    <2>1. UNCHANGED lockVars /\ UNCHANGED vars /\ harmed' = harmed
        BY <1>1 DEF lockedVars
    <2>2. LockInv' /\ (~harmed => StoreInv')
        BY <2>1, LockInvStep, StoreInvStep DEF LockedInv
    <2>3. ~harmed => robbed' = {} /\ Admitted' /\ HolderInside'
        BY <2>1 DEF LockedInv, lockVars, vars, Admitted, HolderInside, Running
    <2> QED
        BY <2>1, <2>2, <2>3 DEF LockedInv
<1>2. CASE LockedNext
    <2>1. LockInv'
        BY <1>2, LockPart, LockInvStep DEF LockedInv
    <2> SUFFICES ASSUME ~harmed' PROVE robbed' = {} /\ StoreInv' /\ Admitted' /\ HolderInside'
        BY <2>1 DEF LockedInv
    <2>2. ~harmed /\ robbed' = {}
        <3>1. ~harmed
            BY <1>2 DEF LockedNext
        <3>2. Watches
            BY <1>2, <3>1 DEF LockedNext
        <3> QED
            BY <3>1, <3>2 DEF Watches
    <2>3. StoreInv /\ Admitted /\ HolderInside /\ LockTypeOK
        BY <2>2 DEF LockedInv, LockInv
    <2>4. StoreInv'
        BY <1>2, <2>2, <2>3, StorePart, StoreInvStep
    <2>5. ASSUME NEW c \in Callers, Enters(c) PROVE Admitted' /\ HolderInside'
        <3>1. PICK k \in Calls : Enter(c, k)
            BY <2>2, <2>5, NobodyInside DEF Enters
        <3>2. /\ lock' = c /\ pc' = [pc EXCEPT ![c] = "read"]
              /\ step' = [step EXCEPT ![c] = "inside"] /\ alive' = alive /\ Running(c)
              /\ lock \notin Procs
            BY <2>5, <3>1, NoneAssumption, ProcsAssumption
               DEF Enters, Enter, Begin, Goto, WritePid, Moves
        <3>3. \A d \in Callers : pc[d] = "idle"
            BY <2>3, <3>2, CallersAssumption DEF StoreInv, Exclusive
        <3> QED
            BY <2>3, <3>2, <3>3, CallersAssumption
               DEF Admitted, HolderInside, Running, StoreInv, TypeOK, LockTypeOK
    <2>6. ASSUME NEW c \in Callers, step[c] = "inside", Step(c) \/ Fail(c), alive' = alive,
                 Running(c), step' = step \/ pc'[c] = "idle"
          PROVE  Admitted' /\ HolderInside'
        <3>1. /\ \A q \in Procs : q # c => pc'[q] = "idle"
              /\ pc[c] # "idle"
              /\ lock' = None \/ (lock' = lock /\ pc'[c] # "idle")
            BY <2>3, <2>6, ActionStep, CallersAssumption
        <3>2. lock = c
            BY <2>3, <3>1, CallersAssumption DEF StoreInv, Exclusive
        <3> QED
            BY <2>6, <3>1, <3>2, NoneAssumption, CallersAssumption
               DEF Admitted, HolderInside, Running
    <2>7. ASSUME NEW c \in Callers, CallerStep(c) PROVE Admitted' /\ HolderInside'
        <3>1. CASE Works(c)
            BY <2>6, <3>1 DEF Works, lockVars
        <3>2. CASE Returns(c)
            BY <2>6, <3>2 DEF Returns, Ends, ActionReturns
        <3>3. CASE Throws(c) /\ step[c] # "opened"
            <4>1. (Step(c) /\ pc'[c] = "idle") \/ Fail(c)
                BY <3>3 DEF Throws, Ends
            <4>2. Fail(c) => pc'[c] = "idle"
                BY <2>3, CallersAssumption DEF Fail, Leave, Goto, StoreInv, TypeOK
            <4> QED
                BY <2>6, <3>3, <4>1, <4>2 DEF Throws, ActionThrows
        <3> QED
            BY <2>2, <2>5, <2>7, <3>1, <3>2, <3>3, OutsideStep DEF CallerStep
    <2>8. ASSUME NEW p \in Pids, ProcessDies(p) PROVE Admitted' /\ HolderInside'
        <3>1. alive' = alive \ {p} /\ step' = step
            BY <2>8 DEF ProcessDies, Dies
        <3>2. CASE \E c \in Callers : PidOf[c] = p /\ pc[c] # "idle"
            <4>1. PICK c \in Callers : Crash(c)
                BY <2>8, <3>2 DEF ProcessDies
            <4>2. \A d \in Callers : pc'[d] = "idle"
                BY <2>3, <4>1, OthersIdle, CallersAssumption DEF StoreInv, TypeOK, Crash, Goto
            <4> QED
                BY <4>1, <4>2, ProcsAssumption DEF Admitted, HolderInside, Crash
        <3>3. CASE ~\E c \in Callers : PidOf[c] = p /\ pc[c] # "idle"
            <4>1. pc' = pc /\ lock' = lock
                BY <2>8, <3>3 DEF ProcessDies, vars
            <4> QED
                BY <2>3, <3>1, <3>3, <4>1 DEF Admitted, HolderInside, Running
        <3> QED
            BY <3>2, <3>3
    <2>9. GrowOld /\ UNCHANGED vars => Admitted' /\ HolderInside'
        BY <2>3 DEF GrowOld, vars, Admitted, HolderInside, Running
    <2> QED
        BY <1>2, <2>2, <2>4, <2>7, <2>8, <2>9 DEF LockedNext
<1> QED
    BY <1>1, <1>2

(***************************************************************************)
(* The work on the record does not disturb withOperationLock: its steps in *)
(* the composition are those of OperationLock, so everything proved of the *)
(* lock holds of the lock the record is written under.                     *)
(***************************************************************************)
THEOREM LockRunsUnderStore == LockedSpec => LockSpec
<1>1. LockedInit => LockInit
    BY DEF LockedInit
<1>2. [LockedNext]_lockedVars => [LockNext]_lockVars
    BY LockPart DEF lockedVars
<1> QED
    BY <1>1, <1>2, PTL DEF LockedSpec, LockSpec

(***************************************************************************)
(* The exclusion OperationStore assumes is what the lock file gives: until *)
(* a live holder is robbed, every step on the record, its outbox and its   *)
(* event log is a step of OperationStore.                                  *)
(***************************************************************************)
THEOREM LockProvidesExclusion == LockedSpec => LockGivesStore
<1>1. LockedInit => Init
    BY DEF LockedInit
<1>2. LockedInv /\ [LockedNext]_lockedVars => [harmed' \/ Next]_vars
    <2> SUFFICES ASSUME LockedInv, [LockedNext]_lockedVars PROVE [harmed' \/ Next]_vars
        OBVIOUS
    <2>1. CASE UNCHANGED lockedVars
        BY <2>1 DEF lockedVars
    <2>2. CASE LockedNext /\ ~harmed
        BY <2>2, StorePart
    <2>3. CASE LockedNext /\ harmed
        BY <2>3 DEF LockedNext
    <2> QED
        BY <2>1, <2>2, <2>3
<1> QED
    BY <1>1, <1>2, LockedInvInit, LockedInvStep, PTL DEF LockedSpec, LockGivesStore

(***************************************************************************)
(* Callers of several processes that write through the lock file keep the  *)
(* event log exact, the remains of an append recoverable and the results   *)
(* they return backed by the log, until a live holder is robbed.           *)
(***************************************************************************)
THEOREM LockedLogIsExact ==
    LockedSpec => [](~harmed => LogExact /\ TailIsPending /\ AckedPublished)
<1>1. LockedInv => (~harmed => LogExact /\ TailIsPending /\ AckedPublished)
    BY DEF LockedInv, StoreInv, AckedOK, AckedPublished, TailOK, TailIsPending
<1> QED
    BY <1>1, LockedInvInit, LockedInvStep, PTL DEF LockedSpec

(***************************************************************************)
(* In a behaviour in which no live holder is robbed, lock file and outbox  *)
(* together implement OperationLog: a commit is one indivisible step.      *)
(***************************************************************************)
THEOREM LockedStoreCommitsAtomically == LockedSpec /\ []~harmed => CommitsAtomically
<1>1. LockGivesStore /\ []~harmed => Spec
    BY PTL DEF LockGivesStore, Spec
<1> QED
    BY <1>1, LockProvidesExclusion, StoreImplementsLog, PTL

=============================================================================
