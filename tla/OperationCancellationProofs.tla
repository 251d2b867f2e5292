-------------------- MODULE OperationCancellationProofs --------------------
(***************************************************************************)
(* For any number of process numbers, cancellations, servers and leases,   *)
(* and for any bounds: what a cancellation ended has stopped what it       *)
(* listed, the evidence of a running operation is kept, a displaced        *)
(* cancellation stops, and a running operation stays cancellable.          *)
(***************************************************************************)
EXTENDS OperationCancellation, TLAPS

----------------------------------------------------------------------------
(***************************************************************************)
(* The inductive invariant: one part for each call, one for the operation. *)
(***************************************************************************)

\* Between the claim and the terminal transition.
Walk == {"rebind", "survey", "kill", "grace", "leases", "uncertain", "cancel"}

\* The environment of a server with one call carries the epoch it claimed.
EnvOwn(c) == Alone(c) /\ can[c].pc \in Walk => env[home[c]] = can[c].fence

\* Past the transition the operation is terminal; the call that made it so has
\* nothing before it but its hook, for a new request needs a running one.
Ended(c) ==
    /\ can[c].pc \in {"clear", "flag"} => ~Running
    /\ by = c => can[c].pc \in {"idle", "clear", "flag"}

\* Every process of the operation is in S or was never listed by c.
Accounted(c, S) == \A p \in Pids : Own(p) => p \in unseen[c] \cup S

\* While a cancellation walks, an own process is unlisted, still to be
\* signalled, in its grace, or warned of; without a warning of a writer none is left.
Tracked(c) ==
    /\ can[c].pc = "kill" => Accounted(c, can[c].todo) \/ "writer" \in can[c].warned
    /\ can[c].pc = "grace" =>
          Accounted(c, can[c].todo \cup {can[c].target}) \/ "writer" \in can[c].warned
    /\ can[c].pc = "leases" => Accounted(c, {}) \/ "writer" \in can[c].warned
    /\ can[c].pc \in {"uncertain", "cancel"} => Accounted(c, {})
    /\ by = c => Accounted(c, {})

\* Likewise the leases.
LeasesTracked(c) ==
    /\ can[c].pc = "leases" => leases \subseteq can[c].leases \/ can[c].warned # {}
    /\ can[c].pc = "cancel" => leases = {}

\* The part of DisplacedStops about c.
Stops(c) == by = c /\ Alone(c) /\ can[c].pc \in {"clear", "flag"} => can[c].fence = rec.epoch

CallInv(c) == EnvOwn(c) /\ Ended(c) /\ Tracked(c) /\ LeasesTracked(c) /\ Stops(c)

OperationInv ==
    /\ by # None => ~Running
    /\ rec.status = "CANCELLED" => leases = {}
    /\ EvidenceKept

CancelInv == TypeOK /\ OperationInv /\ \A c \in Cancellers : CallInv(c)

LEMMA CancelInvInit == Init => CancelInv
<1> SUFFICES ASSUME Init PROVE CancelInv
    OBVIOUS
<1> USE CancellationAssumption
<1>1. RecordOK
    BY DEF Init, RecordOK, Statuses, Phases, Running
<1>2. Resting \in Call
    BY DEF Resting, Call, Steps
<1>3. TypeOK
    BY <1>1, <1>2 DEF Init, TypeOK, Kinds
<1>4. OperationInv
    BY DEF Init, OperationInv, EvidenceKept
<1>5. ASSUME NEW c \in Cancellers PROVE CallInv(c)
    BY DEF Init, CallInv, EnvOwn, Ended, Tracked, LeasesTracked, Stops, Resting, Walk
<1> QED
    BY <1>3, <1>4, <1>5 DEF CancelInv

----------------------------------------------------------------------------
(***************************************************************************)
(* Steps of the others.                                                    *)
(***************************************************************************)

\* What d may rely on when somebody else takes a step.
Kept(d) ==
    /\ can'[d] = can[d] /\ home' = home
    /\ Alone(d) => env'[home[d]] = env[home[d]]
    /\ unseen[d] \subseteq unseen'[d]
    /\ \A p \in Pids : Own(p)' => Own(p) \/ p \in unseen'[d]
    /\ leases' \subseteq leases
    /\ ~Running => rec'.status = rec.status /\ rec'.epoch = rec.epoch
    /\ by' = by \/ by' # d

LEMMA KeptCall ==
    ASSUME NEW d \in Cancellers, CallInv(d), Kept(d)
    PROVE  CallInv(d)'
<1>1. EnvOwn(d)'
    BY DEF CallInv, Kept, EnvOwn, Alone
<1>2. Ended(d)'
    BY DEF CallInv, Kept, Ended, Running
<1>3. ASSUME NEW S, Accounted(d, S) PROVE \A p \in Pids : Own(p)' => p \in unseen'[d] \cup S
    BY <1>3 DEF Kept, Accounted
<1>4. Tracked(d)'
    BY <1>3 DEF CallInv, Kept, Tracked, Accounted
<1>5. LeasesTracked(d)'
    BY DEF CallInv, Kept, LeasesTracked
<1>6. Stops(d)'
    BY DEF CallInv, Kept, Stops, Ended, Alone
<1> QED
    BY <1>1, <1>2, <1>4, <1>5, <1>6 DEF CallInv

\* A step that leaves every call alone.
LEMMA KeptByAll ==
    ASSUME CancelInv, TypeOK', OperationInv', \A d \in Cancellers : Kept(d)
    PROVE  CancelInv'
BY KeptCall DEF CancelInv

LEMMA ExpireStep == ASSUME CancelInv, Expire PROVE CancelInv'
<1> USE CancellationAssumption
<1>1. RecordOK'
    BY DEF CancelInv, TypeOK, RecordOK, Expire, Running, Statuses, Phases, FailedPhases
<1>2. TypeOK'
    BY <1>1 DEF CancelInv, TypeOK, Expire, files, Kinds
<1>3. OperationInv'
    BY <1>1 DEF CancelInv, TypeOK, OperationInv, Expire, files, Running, EvidenceKept, RecordOK
<1>4. ASSUME NEW d \in Cancellers PROVE Kept(d)
    BY DEF CancelInv, TypeOK, Kept, Expire, files, Own, Running
<1> QED
    BY <1>2, <1>3, <1>4, KeptByAll

LEMMA WatchdogSignalsStep == ASSUME CancelInv, WatchdogSignals PROVE CancelInv'
<1> USE DEF CancelInv, WatchdogSignals, files, history
<1>1. TypeOK' /\ OperationInv'
    BY DEF TypeOK, RecordOK, OperationInv, Running, EvidenceKept
<1>2. ASSUME NEW d \in Cancellers PROVE Kept(d)
    BY DEF Kept, Own
<1> QED
    BY <1>1, <1>2, KeptByAll

LEMMA WatchdogKillsStep == ASSUME CancelInv, WatchdogKills PROVE CancelInv'
<1> USE CancellationAssumption DEF CancelInv, WatchdogKills, files, history
<1>1. TypeOK' /\ OperationInv'
    BY DEF TypeOK, Kinds, RecordOK, OperationInv, Running, EvidenceKept
<1>2. ASSUME NEW d \in Cancellers PROVE Kept(d)
    BY DEF TypeOK, Kept, Own
<1> QED
    BY <1>1, <1>2, KeptByAll

LEMMA FinishStep == ASSUME CancelInv, Finish PROVE CancelInv'
<1> USE CancellationAssumption
<1>1. RecordOK'
    BY DEF CancelInv, TypeOK, RecordOK, Finish, Running, Statuses, Phases
<1>2. TypeOK'
    BY <1>1 DEF CancelInv, TypeOK, Finish, files
<1>3. OperationInv'
    BY <1>1 DEF CancelInv, TypeOK, OperationInv, Finish, files, Running, EvidenceKept, RecordOK
<1>4. ASSUME NEW d \in Cancellers PROVE Kept(d)
    BY DEF CancelInv, TypeOK, Kept, Finish, files, Own, Running
<1> QED
    BY <1>2, <1>3, <1>4, KeptByAll

\* A forked process is unlisted to every call; a child has its handle until
\* its end, for only a process that is no child is unregistered.
LEMMA ProcessesStep == ASSUME CancelInv, Processes PROVE CancelInv'
<1> USE CancellationAssumption DEF CancelInv, TypeOK, files, history
<1>1. PICK p \in Pids :
          \/ Fork(p) \/ RegisterHandle(p) \/ Unregister(p) \/ ProcessEnds(p)
          \/ SiblingStarts(p) \/ SiblingRegisters(p) \/ SiblingForgets(p)
    BY DEF Processes
<1>2. UNCHANGED <<rec, leases, env, home, can, fuse, by>>
    BY <1>1 DEF Fork, RegisterHandle, Unregister, ProcessEnds, SiblingStarts, SiblingRegisters,
       SiblingForgets
<1>3. RecordOK'
    BY <1>2 DEF RecordOK, Running
<1>4. CASE Fork(p)
    <2>1. TypeOK'
        BY <1>2, <1>3, <1>4 DEF Fork, Kinds
    <2>2. OperationInv'
        BY <1>2, <1>4 DEF Fork, OperationInv, Running, EvidenceKept
    <2>3. ASSUME NEW d \in Cancellers PROVE Kept(d)
        BY <1>2, <1>4 DEF Kept, Own, Fork
    <2> QED
        BY <2>1, <2>2, <2>3, KeptByAll
<1>5. CASE RegisterHandle(p)
    <2>1. TypeOK'
        BY <1>2, <1>3, <1>5 DEF RegisterHandle, Kinds
    <2>2. OperationInv'
        BY <1>2, <1>5 DEF RegisterHandle, OperationInv, Running, EvidenceKept
    <2>3. ASSUME NEW d \in Cancellers PROVE Kept(d)
        BY <1>2, <1>5 DEF Kept, Own, RegisterHandle
    <2> QED
        BY <2>1, <2>2, <2>3, KeptByAll
<1>6. CASE Unregister(p)
    <2>1. TypeOK'
        BY <1>2, <1>3, <1>6 DEF Unregister
    <2>2. OperationInv'
        BY <1>2, <1>6 DEF Unregister, OperationInv, Running, EvidenceKept
    <2>3. ASSUME NEW d \in Cancellers PROVE Kept(d)
        BY <1>2, <1>6 DEF Kept, Own, Unregister
    <2> QED
        BY <2>1, <2>2, <2>3, KeptByAll
<1>7. CASE ProcessEnds(p) \/ SiblingStarts(p)
    <2>1. TypeOK'
        BY <1>2, <1>3, <1>7 DEF ProcessEnds, SiblingStarts, Kinds
    <2>2. OperationInv'
        BY <1>2, <1>7 DEF ProcessEnds, SiblingStarts, OperationInv, Running, EvidenceKept
    <2>3. ASSUME NEW d \in Cancellers PROVE Kept(d)
        BY <1>2, <1>7 DEF Kept, Own, ProcessEnds, SiblingStarts
    <2> QED
        BY <2>1, <2>2, <2>3, KeptByAll
<1>8. CASE SiblingRegisters(p) \/ SiblingForgets(p)
    <2>1. TypeOK'
        BY <1>2, <1>3, <1>8 DEF SiblingRegisters, SiblingForgets, Kinds
    <2>2. OperationInv'
        BY <1>2, <1>8 DEF SiblingRegisters, SiblingForgets, OperationInv, Running, EvidenceKept
    <2>3. ASSUME NEW d \in Cancellers PROVE Kept(d)
        BY <1>2, <1>8 DEF Kept, Own, SiblingRegisters, SiblingForgets
    <2> QED
        BY <2>1, <2>2, <2>3, KeptByAll
<1> QED
    BY <1>1, <1>4, <1>5, <1>6, <1>7, <1>8

----------------------------------------------------------------------------
(***************************************************************************)
(* Steps of a call.                                                        *)
(***************************************************************************)

LEMMA Moved ==
    ASSUME NEW c \in Cancellers, TypeOK, NEW r \in Call, Becomes(c, r)
    PROVE  /\ can' \in [Cancellers -> Call]
           /\ can'[c] = r
           /\ \A d \in Cancellers : d # c => can'[d] = can[d]
BY DEF TypeOK, Becomes

LEMMA RestingCall == Resting \in Call /\ Resting.pc = "idle"
BY CancellationAssumption DEF Resting, Call, Steps

\* What a step of c leaves as it is, or only shrinks.
Frame(c) ==
    /\ home' = home /\ by' \in {by, c}
    /\ \A s \in Servers : s # home[c] => env'[s] = env[s]
    /\ \A d \in Cancellers : d # c => can'[d] = can[d] /\ unseen'[d] = unseen[d]
    /\ \A p \in Pids : Own(p)' => Own(p)
    /\ leases' \subseteq leases
    /\ ~Running => rec'.status = rec.status /\ rec'.epoch = rec.epoch

LEMMA FrameKept ==
    ASSUME NEW c \in Cancellers, TypeOK, Frame(c), NEW d \in Cancellers, d # c
    PROVE  Kept(d)
BY DEF TypeOK, Frame, Kept, Alone

\* The call ends, in its finally block, and nothing was decided.
LEMMA LeaveStep ==
    ASSUME CancelInv, NEW c \in Cancellers, Leave(c),
           RecordOK', rec'.status = rec.status, rec'.epoch = rec.epoch,
           UNCHANGED <<proc, files, home, fuse, spawns, history>>, faults' \in 0 .. MaxFaults
    PROVE  CancelInv'
<1> USE CancellationAssumption DEF CancelInv, files, history
<1>1. /\ can' \in [Cancellers -> Call] /\ can'[c].pc = "idle"
      /\ \A d \in Cancellers : d # c => can'[d] = can[d]
    BY Moved, RestingCall DEF Leave
<1>2. can[c].prev \in 0 .. MaxEpoch
    BY DEF TypeOK, Call
<1>3. TypeOK'
    BY <1>1, <1>2 DEF TypeOK, Leave
<1>4. OperationInv'
    BY DEF OperationInv, Running, EvidenceKept
<1>5. Frame(c)
    BY <1>1 DEF Frame, Leave, Own, TypeOK
<1>6. CallInv(c)'
    BY <1>1 DEF CallInv, EnvOwn, Ended, Tracked, Accounted, Own, LeasesTracked, Stops, Walk
<1>7. ASSUME NEW d \in Cancellers, d # c PROVE CallInv(d)'
    BY <1>5, <1>7, FrameKept, KeptCall
<1> QED
    BY <1>3, <1>4, <1>6, <1>7

\* The phase is reported, if at all, on a running record, and the call ends.
LEMMA ReportStep ==
    ASSUME CancelInv, NEW c \in Cancellers, NEW phase \in {"fencing-required", "reconciling"},
           Report(c, phase),
           UNCHANGED <<proc, files, home, fuse, spawns, history>>, faults' \in 0 .. MaxFaults
    PROVE  CancelInv'
<1>1. RecordOK' /\ rec'.status = rec.status /\ rec'.epoch = rec.epoch
    BY DEF CancelInv, TypeOK, RecordOK, Report, Running, Phases, Statuses
<1> QED
    BY <1>1, LeaveStep DEF Report

LEMMA ServerCrashesStep ==
    ASSUME CancelInv, NEW s \in Servers, ServerCrashes(s) PROVE CancelInv'
<1> USE CancellationAssumption DEF CancelInv, files, history
<1>1. /\ can' \in [Cancellers -> Call]
      /\ \A d \in Cancellers : can'[d] = IF home[d] = s THEN Resting ELSE can[d]
    BY RestingCall DEF TypeOK, ServerCrashes
<1>2. TypeOK' /\ OperationInv'
    BY <1>1 DEF TypeOK, ServerCrashes, RecordOK, OperationInv, Running, EvidenceKept
<1>3. ASSUME NEW d \in Cancellers, home[d] # s PROVE CallInv(d)'
    <2>1. Kept(d)
        BY <1>1, <1>3 DEF TypeOK, ServerCrashes, Kept, Own
    <2> QED
        BY <2>1, KeptCall
<1>4. ASSUME NEW d \in Cancellers, home[d] = s PROVE CallInv(d)'
    <2>1. can'[d].pc = "idle"
        BY <1>1, <1>4, RestingCall
    <2>2. UNCHANGED <<by, proc, unseen>>
        BY DEF ServerCrashes
    <2> QED
        BY <2>1, <2>2 DEF CallInv, EnvOwn, Ended, Tracked, Accounted, Own, LeasesTracked, Stops, Walk
<1> QED
    BY <1>2, <1>3, <1>4

\* The call goes on: what is left to show is about the call and the operation.
LEMMA GoesOn ==
    ASSUME CancelInv, NEW c \in Cancellers, Frame(c), TypeOK', OperationInv', CallInv(c)'
    PROVE  CancelInv'
<1>1. ASSUME NEW d \in Cancellers, d # c PROVE CallInv(d)'
    BY <1>1, FrameKept, KeptCall DEF CancelInv
<1> QED
    BY <1>1 DEF CancelInv

LEMMA RequestStep == ASSUME CancelInv, NEW c \in Cancellers, Request(c) PROVE CancelInv'
<1> USE CancellationAssumption DEF CancelInv, files, history
<1> DEFINE r == [can[c] EXCEPT !.pc = "claim", !.prev = env[home[c]], !.fence = rec.epoch + 1]
<1>1. rec.epoch + 1 \in 0 .. MaxEpoch /\ env[home[c]] \in 0 .. MaxEpoch /\ can[c] \in Call
    BY DEF TypeOK, RecordOK, Request
<1>2. r \in Call /\ r.pc = "claim"
    BY <1>1 DEF Call, Steps
<1>3. /\ can' \in [Cancellers -> Call] /\ can'[c].pc = "claim"
      /\ \A d \in Cancellers : d # c => can'[d] = can[d]
    <2>1. Becomes(c, r)
        BY DEF Request
    <2> HIDE DEF r
    <2> QED
        BY <1>2, <2>1, Moved
<1> HIDE DEF r
<1>4. TypeOK' /\ OperationInv' /\ Frame(c)
    BY <1>3 DEF TypeOK, Request, RecordOK, OperationInv, Running, EvidenceKept,
       Frame, Own
<1>5. CallInv(c)'
    BY <1>3 DEF Request, CallInv, EnvOwn, Ended, Tracked, LeasesTracked, Stops, Walk, OperationInv
<1> QED
    BY <1>4, <1>5, GoesOn

LEMMA ClaimEpochStep == ASSUME CancelInv, NEW c \in Cancellers, ClaimEpoch(c) PROVE CancelInv'
<1> USE CancellationAssumption DEF CancelInv, files, history
<1>1. CASE Leave(c) /\ UNCHANGED rec
    BY <1>1, LeaveStep DEF ClaimEpoch, TypeOK, RecordOK, Running
<1>2. CASE ~(Leave(c) /\ UNCHANGED rec)
    <2> DEFINE r == [can[c] EXCEPT !.pc = "rebind"]
    <2>1. /\ Running /\ rec.epoch + 1 = can[c].fence
          /\ rec' = [rec EXCEPT !.epoch = can[c].fence, !.policy = 0]
          /\ env' = [env EXCEPT ![home[c]] = can[c].fence]
          /\ Becomes(c, r)
          /\ UNCHANGED <<proc, files, home, fuse, spawns, faults, history>>
        BY <1>2 DEF ClaimEpoch
    <2>2. r \in Call /\ r.pc = "rebind" /\ r.fence = can[c].fence /\ can[c].fence \in 0 .. MaxEpoch
        <3>1. can[c] \in Call
            BY DEF TypeOK
        <3> QED
            BY <3>1 DEF Call, Steps
    <2> HIDE DEF r
    <2>3. /\ can' \in [Cancellers -> Call] /\ can'[c].pc = "rebind" /\ can'[c].fence = can[c].fence
          /\ \A d \in Cancellers : d # c => can'[d] = can[d]
        BY <2>1, <2>2, Moved
    <2>4. RecordOK'
        <3>1. rec.epoch \in 1 .. MaxEpoch /\ rec.epoch + 1 = can[c].fence
            BY <2>1 DEF TypeOK, RecordOK
        <3>2. can[c].fence \in 1 .. MaxEpoch
            BY <2>2, <3>1
        <3>3. RecordOK /\ rec' = [rec EXCEPT !.epoch = can[c].fence, !.policy = 0] /\ 0 \in 0 .. MaxEpoch
            BY <2>1 DEF TypeOK
        <3>4. rec' \in [status : Statuses, phase : Phases, epoch : 1 .. MaxEpoch,
                       policy : 0 .. MaxEpoch, flag : BOOLEAN]
            BY <3>2, <3>3, Zenon DEF RecordOK
        <3>5. /\ rec'.policy = 0 /\ rec'.epoch = can[c].fence
              /\ rec'.status = rec.status /\ rec'.phase = rec.phase /\ rec'.flag = rec.flag
            BY <3>3 DEF RecordOK
        <3> QED
            BY <3>2, <3>3, <3>4, <3>5 DEF RecordOK, Running
    <2>5. TypeOK' /\ Frame(c)
        BY <2>1, <2>2, <2>3, <2>4 DEF TypeOK, Frame, Own
    <2>6. OperationInv'
        BY <2>1 DEF TypeOK, RecordOK, OperationInv, Running, EvidenceKept
    <2>7. CallInv(c)'
        BY <2>1, <2>3 DEF TypeOK, CallInv, EnvOwn, Ended, Tracked, LeasesTracked, Stops, Walk,
           OperationInv
    <2> QED
        BY <2>5, <2>6, <2>7, GoesOn
<1> QED
    BY <1>1, <1>2

LEMMA RebindPolicyStep == ASSUME CancelInv, NEW c \in Cancellers, RebindPolicy(c) PROVE CancelInv'
<1> USE CancellationAssumption DEF CancelInv, files, history
<1>1. CASE Leave(c) /\ UNCHANGED <<rec, faults>>
    BY <1>1, LeaveStep DEF RebindPolicy, TypeOK, RecordOK, Running
<1>2. CASE Leave(c) /\ UNCHANGED rec /\ faults < MaxFaults /\ faults' = faults + 1
    BY <1>2, LeaveStep DEF RebindPolicy, TypeOK, RecordOK, Running
<1>3. CASE ~(Leave(c) /\ UNCHANGED rec)
    <2> DEFINE r == [can[c] EXCEPT !.pc = "survey"]
    <2>1. /\ can[c].pc = "rebind" /\ Running /\ rec.epoch = can[c].fence
          /\ rec' = [rec EXCEPT !.policy = can[c].fence]
          /\ Becomes(c, r)
          /\ UNCHANGED <<proc, files, env, home, fuse, spawns, faults, history>>
        BY <1>3 DEF RebindPolicy
    <2>2. r \in Call /\ r.pc = "survey" /\ r.fence = can[c].fence
        BY DEF TypeOK, Call, Steps
    <2> HIDE DEF r
    <2>3. /\ can' \in [Cancellers -> Call] /\ can'[c].pc = "survey" /\ can'[c].fence = can[c].fence
          /\ \A d \in Cancellers : d # c => can'[d] = can[d]
        BY <2>1, <2>2, Moved
    <2>4. RecordOK'
        BY <2>1 DEF TypeOK, RecordOK, Running
    <2>5. TypeOK' /\ Frame(c)
        BY <2>1, <2>3, <2>4 DEF TypeOK, Frame, Own, Running
    <2>6. OperationInv'
        BY <2>1 DEF TypeOK, RecordOK, OperationInv, Running, EvidenceKept
    <2>7. CallInv(c)'
        BY <2>1, <2>3 DEF CallInv, EnvOwn, Alone, Ended, Tracked, LeasesTracked, Stops, Walk
    <2> QED
        BY <2>5, <2>6, <2>7, GoesOn
<1> QED
    BY <1>1, <1>2, <1>3 DEF RebindPolicy

\* The list is made: an own process is on it, or unlisted from here on.
LEMMA SurveyStep == ASSUME CancelInv, NEW c \in Cancellers, Survey(c) PROVE CancelInv'
<1> USE CancellationAssumption DEF CancelInv, files, history
<1> DEFINE r == [can[c] EXCEPT !.pc = "kill", !.managed = handles, !.todo = KillSet]
<1>1. handles \subseteq Pids /\ KillSet \subseteq Pids /\ can[c] \in Call
    BY DEF TypeOK, KillSet, Descendants
<1>2. r \in Call /\ r.pc = "kill" /\ r.todo = KillSet /\ r.fence = can[c].fence
    BY <1>1 DEF Call, Steps
<1>3. Becomes(c, r)
    BY DEF Survey
<1> HIDE DEF r
<1>4. /\ can' \in [Cancellers -> Call] /\ can'[c].pc = "kill"
      /\ can'[c].todo = KillSet /\ can'[c].fence = can[c].fence
      /\ \A d \in Cancellers : d # c => can'[d] = can[d]
    BY <1>2, <1>3, Moved
<1>5. TypeOK' /\ OperationInv' /\ Frame(c)
    BY <1>1, <1>4 DEF TypeOK, Survey, RecordOK, OperationInv, Running, EvidenceKept,
       Frame, Own
<1>6. unseen'[c] = {p \in Pids : Own(p)} \ KillSet
    BY DEF Survey, TypeOK
<1>7. Accounted(c, can[c].todo)'
    BY <1>4, <1>6 DEF Survey, Accounted, Own
<1>8. CallInv(c)'
    BY <1>4, <1>7 DEF Survey, CallInv, EnvOwn, Alone, Ended, Tracked, LeasesTracked, Stops, Walk
<1> QED
    BY <1>5, <1>8, GoesOn

LEMMA ScanFailsStep == ASSUME CancelInv, NEW c \in Cancellers, ScanFails(c) PROVE CancelInv'
BY ReportStep, CancellationAssumption DEF ScanFails, CancelInv, TypeOK

\* A number leaves the list free, with a warning, or into its grace.
LEMMA VerifyAndSignalStep ==
    ASSUME CancelInv, NEW c \in Cancellers, NEW p \in Pids, VerifyAndSignal(c, p)
    PROVE  CancelInv'
<1> USE CancellationAssumption DEF CancelInv, files, history
<1>1. CASE Leave(c)
    BY <1>1, LeaveStep DEF VerifyAndSignal, TypeOK, RecordOK, Running
<1>2. CASE ~Leave(c)
    <2> DEFINE gone == [can[c] EXCEPT !.todo = @ \ {p}]
               warn == [can[c] EXCEPT !.todo = @ \ {p}, !.warned = @ \cup {"writer"}]
               hit  == [can[c] EXCEPT !.pc = "grace", !.target = p, !.todo = @ \ {p}]
    <2>1. /\ UNCHANGED <<rec, proc, files, env, home, fuse, spawns, faults, history>>
          /\ \/ Becomes(c, gone) /\ proc[p] = "free"
             \/ Becomes(c, warn)
             \/ Becomes(c, hit)
        BY <1>2 DEF VerifyAndSignal
    <2>2. can[c] \in Call /\ can[c].pc = "kill"
        BY <1>2 DEF TypeOK, VerifyAndSignal
    <2>3. /\ gone \in Call /\ gone.pc = "kill" /\ gone.fence = can[c].fence
          /\ gone.todo = can[c].todo \ {p} /\ gone.warned = can[c].warned
        BY <2>2 DEF Call
    <2>4. /\ warn \in Call /\ warn.pc = "kill" /\ warn.fence = can[c].fence /\ "writer" \in warn.warned
        BY <2>2 DEF Call
    <2>5. /\ hit \in Call /\ hit.pc = "grace" /\ hit.fence = can[c].fence
          /\ hit.todo \cup {hit.target} = can[c].todo \cup {p} /\ hit.warned = can[c].warned
        BY <2>2 DEF Call, Steps
    <2> HIDE DEF gone, warn, hit
    <2>6. /\ can' \in [Cancellers -> Call]
          /\ \A d \in Cancellers : d # c => can'[d] = can[d]
          /\ (can'[c] = gone /\ proc[p] = "free") \/ can'[c] = warn \/ can'[c] = hit
        BY <2>1, <2>3, <2>4, <2>5, Moved
    <2>7. TypeOK' /\ OperationInv' /\ Frame(c)
        BY <2>1, <2>6 DEF TypeOK, RecordOK, OperationInv, Frame, Own, EvidenceKept, Running
    <2>8. Tracked(c)'
        <3>1. Accounted(c, can[c].todo) \/ "writer" \in can[c].warned
            BY <2>2 DEF CallInv, Tracked
        <3>2. by # c
            BY <2>2 DEF CallInv, Ended
        <3> QED
            BY <2>1, <2>3, <2>4, <2>5, <2>6, <3>1, <3>2 DEF Tracked, Accounted, Own
    <2>9. CallInv(c)'
        BY <2>1, <2>2, <2>3, <2>4, <2>5, <2>6, <2>8
        DEF CallInv, EnvOwn, Alone, Ended, LeasesTracked, Stops, Walk
    <2> QED
        BY <2>7, <2>9, GoesOn
<1> QED
    BY <1>1, <1>2

\* The number in its grace is free, or warned of.
LEMMA KillStep == ASSUME CancelInv, NEW c \in Cancellers, Kill(c) PROVE CancelInv'
<1> USE CancellationAssumption DEF CancelInv, files, history
<1> DEFINE gone == [can[c] EXCEPT !.pc = "kill", !.target = None]
           warn == [can[c] EXCEPT !.pc = "kill", !.target = None, !.warned = @ \cup {"writer"}]
<1>1. can[c] \in Call /\ can[c].pc = "grace"
    BY DEF TypeOK, Kill
<1>2. /\ gone \in Call /\ gone.pc = "kill" /\ gone.fence = can[c].fence
      /\ gone.todo = can[c].todo /\ gone.warned = can[c].warned
    BY <1>1 DEF Call, Steps
<1>3. /\ warn \in Call /\ warn.pc = "kill" /\ warn.fence = can[c].fence /\ "writer" \in warn.warned
    BY <1>1 DEF Call, Steps
<1>4. /\ UNCHANGED <<rec, files, env, home, fuse, spawns, faults, history>>
      /\ \/ Becomes(c, gone) /\ proc' = [proc EXCEPT ![can[c].target] = "free"]
         \/ Becomes(c, warn) /\ proc' = proc
    BY DEF Kill
<1> HIDE DEF gone, warn
<1>5. /\ can' \in [Cancellers -> Call]
      /\ \A d \in Cancellers : d # c => can'[d] = can[d]
      /\ \/ can'[c] = gone /\ proc' = [proc EXCEPT ![can[c].target] = "free"]
         \/ can'[c] = warn
    BY <1>2, <1>3, <1>4, Moved
<1>6. proc' \in [Pids -> Kinds] /\ \A q \in Pids : proc'[q] \in {proc[q], "free"}
    BY <1>4 DEF TypeOK, Kinds
<1>7. TypeOK'
    BY <1>4, <1>5, <1>6 DEF TypeOK, RecordOK, Running
<1>8. OperationInv' /\ Frame(c)
    BY <1>4, <1>5, <1>6 DEF TypeOK, OperationInv, Frame, Own, EvidenceKept, Running
<1>9. Tracked(c)'
    <2>1. Accounted(c, can[c].todo \cup {can[c].target}) \/ "writer" \in can[c].warned
        BY <1>1 DEF CallInv, Tracked
    <2>2. by # c
        BY <1>1 DEF CallInv, Ended
    <2>3. can'[c] = gone => \A q \in Pids : Own(q)' => Own(q) /\ (q # can[c].target \/ can'[c] = warn)
        BY <1>5, <1>6 DEF TypeOK, Own
    <2> QED
        BY <1>2, <1>3, <1>4, <1>5, <2>1, <2>2, <2>3 DEF Tracked, Accounted
<1>10. CallInv(c)'
    BY <1>1, <1>2, <1>3, <1>4, <1>5, <1>9 DEF CallInv, EnvOwn, Alone, Ended, LeasesTracked, Stops, Walk
<1> QED
    BY <1>7, <1>8, <1>10, GoesOn

LEMMA StopAgentsStep == ASSUME CancelInv, NEW c \in Cancellers, StopAgents(c) PROVE CancelInv'
<1> USE CancellationAssumption DEF CancelInv, files, history
<1>1. CASE Leave(c)
    BY <1>1, LeaveStep DEF StopAgents, TypeOK, RecordOK, Running
<1>2. CASE ~Leave(c)
    <2>1. PICK w \in {{}, {"writer"}} :
              Becomes(c, [can[c] EXCEPT !.pc = "leases", !.leases = leases, !.warned = @ \cup w])
        BY <1>2 DEF StopAgents
    <2> DEFINE r == [can[c] EXCEPT !.pc = "leases", !.leases = leases, !.warned = @ \cup w]
    <2>2. can[c].pc = "kill" /\ can[c].todo = {} /\ UNCHANGED <<rec, proc, files, env, home, fuse, spawns, faults, history>>
        BY <1>2 DEF StopAgents
    <2>3. can[c] \in Call /\ leases \subseteq Leases
        BY DEF TypeOK
    <2>4. /\ r \in Call /\ r.pc = "leases" /\ r.fence = can[c].fence
          /\ r.leases = leases /\ can[c].warned \subseteq r.warned
        BY <2>3 DEF Call, Steps
    <2> HIDE DEF r
    <2>5. /\ can' \in [Cancellers -> Call] /\ can'[c] = r
          /\ \A d \in Cancellers : d # c => can'[d] = can[d]
        BY <2>1, <2>4, Moved DEF r
    <2>6. TypeOK' /\ OperationInv' /\ Frame(c)
        BY <2>2, <2>5 DEF TypeOK, RecordOK, OperationInv, Frame, Own, EvidenceKept,
           Running
    <2>7. CallInv(c)'
        BY <2>2, <2>4, <2>5
        DEF CallInv, EnvOwn, Alone, Ended, Tracked, Accounted, Own, LeasesTracked, Stops, Walk
    <2> QED
        BY <2>6, <2>7, GoesOn
<1> QED
    BY <1>1, <1>2

\* A lease leaves the list released, or with a warning.
LEMMA SettleLeaseStep ==
    ASSUME CancelInv, NEW c \in Cancellers, NEW l \in Leases, SettleLease(c, l)
    PROVE  CancelInv'
<1> USE CancellationAssumption DEF CancelInv, files, history
<1>1. CASE Leave(c) /\ UNCHANGED leases
    BY <1>1, LeaveStep DEF SettleLease, TypeOK, RecordOK, Running
<1>2. CASE ~(Leave(c) /\ UNCHANGED leases)
    <2>1. /\ can[c].pc = "leases"
          /\ UNCHANGED <<rec, proc, handles, siblingFiles, env, home, fuse, spawns, faults, history>>
        BY <1>2 DEF SettleLease
    <2>2. can[c] \in Call
        BY DEF TypeOK
    <2>3. \E r \in Call :
             /\ Becomes(c, r) /\ r.pc = "leases" /\ r.fence = can[c].fence
             /\ r.leases = can[c].leases \ {l} /\ can[c].warned \subseteq r.warned
             /\ \/ leases' = leases \ {l}
                \/ leases' = leases /\ r.warned # {}
        <3>1. CASE \E w \in {{}, {"session"}} :
                      /\ Becomes(c, [can[c] EXCEPT !.leases = @ \ {l}, !.warned = @ \cup w])
                      /\ leases' = leases \ {l}
            <4>1. PICK w \in {{}, {"session"}} :
                      /\ Becomes(c, [can[c] EXCEPT !.leases = @ \ {l}, !.warned = @ \cup w])
                      /\ leases' = leases \ {l}
                BY <3>1
            <4> DEFINE r == [can[c] EXCEPT !.leases = @ \ {l}, !.warned = @ \cup w]
            <4>2. /\ r \in Call /\ r.pc = "leases" /\ r.fence = can[c].fence
                  /\ r.leases = can[c].leases \ {l} /\ can[c].warned \subseteq r.warned
                BY <2>1, <2>2 DEF Call
            <4> QED
                BY <4>1, <4>2
        <3>2. CASE /\ Becomes(c, [can[c] EXCEPT !.leases = @ \ {l}, !.fenced = TRUE,
                                                !.warned = @ \cup {"session"}])
                   /\ leases' = leases
            <4> DEFINE r == [can[c] EXCEPT !.leases = @ \ {l}, !.fenced = TRUE, !.warned = @ \cup {"session"}]
            <4>1. /\ r \in Call /\ r.pc = "leases" /\ r.fence = can[c].fence /\ r.warned # {}
                  /\ r.leases = can[c].leases \ {l} /\ can[c].warned \subseteq r.warned
                BY <2>1, <2>2 DEF Call
            <4> QED
                BY <3>2, <4>1
        <3>3. CASE /\ Becomes(c, [can[c] EXCEPT !.leases = @ \ {l}, !.warned = @ \cup {"writer"}])
                   /\ leases' = leases
            <4> DEFINE r == [can[c] EXCEPT !.leases = @ \ {l}, !.warned = @ \cup {"writer"}]
            <4>1. /\ r \in Call /\ r.pc = "leases" /\ r.fence = can[c].fence /\ r.warned # {}
                  /\ r.leases = can[c].leases \ {l} /\ can[c].warned \subseteq r.warned
                BY <2>1, <2>2 DEF Call
            <4> QED
                BY <3>3, <4>1
        <3> QED
            BY <1>2, <3>1, <3>2, <3>3 DEF SettleLease
    <2>4. PICK r \in Call :
             /\ Becomes(c, r) /\ r.pc = "leases" /\ r.fence = can[c].fence
             /\ r.leases = can[c].leases \ {l} /\ can[c].warned \subseteq r.warned
             /\ \/ leases' = leases \ {l}
                \/ leases' = leases /\ r.warned # {}
        BY <2>3
    <2>5. /\ can' \in [Cancellers -> Call] /\ can'[c] = r
          /\ \A d \in Cancellers : d # c => can'[d] = can[d]
        BY <2>4, Moved
    <2>6. TypeOK' /\ OperationInv' /\ Frame(c)
        BY <2>1, <2>4, <2>5 DEF TypeOK, RecordOK, OperationInv, Frame, Own, EvidenceKept, Running
    <2>7. LeasesTracked(c)'
        BY <2>1, <2>4, <2>5 DEF CallInv, LeasesTracked
    <2>8. CallInv(c)'
        BY <2>1, <2>4, <2>5, <2>7
        DEF CallInv, EnvOwn, Alone, Ended, Tracked, Accounted, Own, Stops, Walk
    <2> QED
        BY <2>6, <2>8, GoesOn
<1> QED
    BY <1>1, <1>2

\* Without a warning of a writer every listed process is gone; without any
\* warning every lease too.
LEMMA DecideStep == ASSUME CancelInv, NEW c \in Cancellers, Decide(c) PROVE CancelInv'
<1> USE CancellationAssumption DEF CancelInv, files, history
<1>1. CASE Leave(c) /\ UNCHANGED rec
    BY <1>1, LeaveStep DEF Decide, TypeOK, RecordOK, Running
<1>2. CASE Report(c, "fencing-required") \/ Report(c, "reconciling")
    BY <1>2, ReportStep DEF Decide, TypeOK
<1>3. ASSUME NEW s \in {"uncertain", "cancel"}, Becomes(c, [can[c] EXCEPT !.pc = s]),
             "writer" \notin can[c].warned, s = "cancel" => can[c].warned = {},
             UNCHANGED <<rec, env>>
      PROVE  CancelInv'
    <2> DEFINE r == [can[c] EXCEPT !.pc = s]
    <2>1. /\ can[c].pc = "leases" /\ can[c].leases = {}
          /\ UNCHANGED <<proc, files, home, fuse, spawns, faults, history>>
        BY DEF Decide, Settled
    <2>2. r \in Call /\ r.pc = s /\ r.fence = can[c].fence
        <3>1. can[c] \in Call
            BY DEF TypeOK
        <3> QED
            BY <3>1 DEF Call, Steps
    <2> HIDE DEF r
    <2>3. /\ can' \in [Cancellers -> Call] /\ can'[c].pc = s /\ can'[c].fence = can[c].fence
          /\ \A d \in Cancellers : d # c => can'[d] = can[d]
        BY <1>3, <2>2, Moved DEF r
    <2>4. TypeOK' /\ OperationInv' /\ Frame(c)
        BY <1>3, <2>1, <2>3 DEF TypeOK, RecordOK, OperationInv, Frame, Own, EvidenceKept, Running
    <2>5. Accounted(c, {})' /\ (s = "cancel" => leases = {})
        BY <1>3, <2>1 DEF CallInv, Tracked, LeasesTracked, Accounted, Own
    <2>6. CallInv(c)'
        BY <1>3, <2>1, <2>3, <2>5 DEF CallInv, EnvOwn, Alone, Ended, Tracked, LeasesTracked, Stops, Walk
    <2> QED
        BY <2>4, <2>6, GoesOn
<1> QED
    BY <1>1, <1>2, <1>3 DEF Decide, OnlySessions

\* The transition: under the token of the server, which is the call's own when
\* no other call runs there.
LEMMA TerminalizeStep == ASSUME CancelInv, NEW c \in Cancellers, Terminalize(c) PROVE CancelInv'
<1> USE CancellationAssumption DEF CancelInv, files, history
<1>1. CASE Leave(c) /\ UNCHANGED <<rec, by>>
    BY <1>1, LeaveStep DEF Terminalize, TypeOK, RecordOK, Running
<1>2. CASE ~(Leave(c) /\ UNCHANGED <<rec, by>>)
    <2> DEFINE r == [can[c] EXCEPT !.pc = "clear"]
    <2>1. /\ can[c].pc \in {"uncertain", "cancel"} /\ Running /\ Holds(c)
          /\ \/ /\ can[c].pc = "cancel"
                /\ rec' = [rec EXCEPT !.status = "CANCELLED", !.phase = "cancelled"]
             \/ /\ can[c].pc = "uncertain"
                /\ \E f \in FailedPhases : rec' = [rec EXCEPT !.status = "FAILED", !.phase = f]
          /\ by' = c /\ Becomes(c, r)
          /\ UNCHANGED <<proc, files, env, home, fuse, spawns, faults, unseen>>
        BY <1>2 DEF Terminalize
    <2>2. r \in Call /\ r.pc = "clear" /\ r.fence = can[c].fence
        BY DEF TypeOK, Call, Steps
    <2> HIDE DEF r
    <2>3. /\ can' \in [Cancellers -> Call] /\ can'[c].pc = "clear" /\ can'[c].fence = can[c].fence
          /\ \A d \in Cancellers : d # c => can'[d] = can[d]
        BY <2>1, <2>2, Moved
    <2>4. /\ RecordOK' /\ rec'.epoch = rec.epoch /\ rec'.status # "RUNNING"
          /\ rec'.status = "CANCELLED" => can[c].pc = "cancel"
        BY <2>1 DEF TypeOK, RecordOK, Running, Statuses, Phases, FailedPhases
    <2>5. TypeOK' /\ Frame(c)
        BY <2>1, <2>3, <2>4 DEF TypeOK, Frame, Own
    <2>6. OperationInv'
        BY <2>1, <2>4 DEF CallInv, LeasesTracked, OperationInv, Running, EvidenceKept
    <2>7. CallInv(c)'
        BY <2>1, <2>3, <2>4
        DEF CallInv, EnvOwn, Alone, Holds, Ended, Tracked, Accounted, Own, LeasesTracked, Stops, Walk, Running
    <2> QED
        BY <2>5, <2>6, <2>7, GoesOn
<1> QED
    BY <1>1, <1>2

\* The handles are cleared only once the operation is terminal.
LEMMA ClearHandlesStep == ASSUME CancelInv, NEW c \in Cancellers, ClearHandles(c) PROVE CancelInv'
<1> USE CancellationAssumption DEF CancelInv, files, history
<1>1. CASE Leave(c) /\ UNCHANGED handles
    BY <1>1, LeaveStep DEF ClearHandles, TypeOK, RecordOK, Running
<1>2. CASE ~(Leave(c) /\ UNCHANGED handles)
    <2> DEFINE r == [can[c] EXCEPT !.pc = "flag"]
    <2>1. /\ can[c].pc = "clear" /\ handles' = {} /\ Becomes(c, r)
          /\ UNCHANGED <<rec, proc, siblingFiles, leases, env, home, fuse, spawns, faults, history>>
        BY <1>2 DEF ClearHandles
    <2>2. r \in Call /\ r.pc = "flag" /\ r.fence = can[c].fence
        BY DEF TypeOK, Call, Steps
    <2> HIDE DEF r
    <2>3. /\ can' \in [Cancellers -> Call] /\ can'[c].pc = "flag" /\ can'[c].fence = can[c].fence
          /\ \A d \in Cancellers : d # c => can'[d] = can[d]
        BY <2>1, <2>2, Moved
    <2>4. ~Running
        BY <2>1 DEF CallInv, Ended
    <2>5. TypeOK' /\ OperationInv' /\ Frame(c)
        BY <2>1, <2>3, <2>4 DEF TypeOK, RecordOK, OperationInv, Frame, Own, EvidenceKept, Running
    <2>6. CallInv(c)'
        BY <2>1, <2>3
        DEF CallInv, EnvOwn, Alone, Ended, Tracked, Accounted, Own, LeasesTracked, Stops, Walk, Running
    <2> QED
        BY <2>5, <2>6, GoesOn
<1> QED
    BY <1>1, <1>2

LEMMA SetFlagStep == ASSUME CancelInv, NEW c \in Cancellers, SetFlag(c) PROVE CancelInv'
<1>1. ~Running
    BY DEF CancelInv, CallInv, Ended, SetFlag
<1>2. RecordOK' /\ rec'.status = rec.status /\ rec'.epoch = rec.epoch
    BY <1>1 DEF CancelInv, TypeOK, RecordOK, SetFlag, Running
<1> QED
    BY <1>2, LeaveStep DEF SetFlag, CancelInv, TypeOK

LEMMA CancelInvStep == CancelInv /\ [Next]_vars => CancelInv'
<1> SUFFICES ASSUME CancelInv, [Next]_vars PROVE CancelInv'
    OBVIOUS
<1>1. ASSUME NEW c \in Cancellers, Cancel(c) PROVE CancelInv'
    BY <1>1, RequestStep, ClaimEpochStep, RebindPolicyStep, SurveyStep, ScanFailsStep,
       VerifyAndSignalStep, KillStep,
       StopAgentsStep, SettleLeaseStep, DecideStep, TerminalizeStep, ClearHandlesStep, SetFlagStep
    DEF Cancel
<1>2. CASE UNCHANGED vars
    <2>1. TypeOK' /\ OperationInv' /\ \A d \in Cancellers : Kept(d)
        BY <1>2
        DEF CancelInv, TypeOK, RecordOK, OperationInv, Kept, Own, EvidenceKept, Running, vars, files, history
    <2> QED
        BY <2>1, KeptByAll
<1> QED
    BY <1>1, <1>2, ExpireStep, WatchdogSignalsStep, WatchdogKillsStep, FinishStep, ProcessesStep, ServerCrashesStep DEF Next

----------------------------------------------------------------------------

LEMMA Cancellation == Spec => []CancelInv
BY CancelInvInit, CancelInvStep, PTL DEF Spec

\* Every value of every variable is well formed in every reachable state.
THEOREM CancellationTypes == Spec => []TypeOK
<1>1. CancelInv => TypeOK
    BY DEF CancelInv
<1> QED
    BY <1>1, Cancellation, PTL

\* A cancellation that made the operation terminal left no process alive that
\* it had listed, and a CANCELLED operation holds no provider lease, however
\* many calls, servers, crashes and failed signals there were.
THEOREM CancelledMeansStopped == Spec => []WritersStopped
<1>1. CancelInv => WritersStopped
    BY DEF CancelInv, CallInv, OperationInv, Tracked, Accounted, WritersStopped
<1> QED
    BY <1>1, Cancellation, PTL

\* Until the operation is terminal every live registered child has its handle:
\* a retry finds what an interrupted cancellation left.
THEOREM RetryFindsTheProcesses == Spec => []EvidenceKept
<1>1. CancelInv => EvidenceKept
    BY DEF CancelInv, OperationInv
<1> QED
    BY <1>1, Cancellation, PTL

\* A call that runs alone in its server makes the operation terminal only under
\* the epoch it claimed itself.
THEOREM DisplacedCallsStop == Spec => []DisplacedStops
<1>1. CancelInv => DisplacedStops
    BY DEF CancelInv, CallInv, Stops, DisplacedStops
<1> QED
    BY <1>1, Cancellation, PTL

----------------------------------------------------------------------------
(***************************************************************************)
(* A running operation stays cancellable.                                  *)
(***************************************************************************)

\* A step that keeps epoch and policy and every call that is about to rebind.
LEMMA NobodyRebinds ==
    ASSUME Cancellable, rec'.epoch = rec.epoch, rec'.policy = rec.policy,
           \A d \in Cancellers : can[d].pc = "rebind" => can'[d] = can[d]
    PROVE  Cancellable'
BY DEF Cancellable, Rebinding

\* A step of a call that is not about to rebind.
LEMMA OtherCallStep ==
    ASSUME TypeOK, Cancellable, NEW c \in Cancellers, Cancel(c),
           can[c].pc \notin {"claim", "rebind"}
    PROVE  Cancellable'
<1>1. \A d \in Cancellers : d # c => can'[d] = can[d]
    BY DEF TypeOK, Cancel, Request, ClaimEpoch, RebindPolicy, Survey, ScanFails, Report,
       VerifyAndSignal, Kill, StopAgents, SettleLease, Decide, Terminalize, ClearHandles, SetFlag,
       Leave, Becomes
<1>2. rec'.epoch = rec.epoch /\ rec'.policy = rec.policy
    BY DEF TypeOK, RecordOK, Cancel, Request, ClaimEpoch, RebindPolicy, Survey, ScanFails, Report,
       VerifyAndSignal, Kill, StopAgents, SettleLease, Decide, Terminalize, ClearHandles, SetFlag
<1> QED
    BY <1>1, <1>2, NobodyRebinds

\* The claim drops the policy and is the call that will rebind it.
LEMMA ClaimStays ==
    ASSUME TypeOK, Cancellable, NEW c \in Cancellers, ClaimEpoch(c)
    PROVE  Cancellable'
<1>1. \A d \in Cancellers : d # c => can'[d] = can[d]
    BY DEF TypeOK, ClaimEpoch, Leave, Becomes
<1>2. CASE UNCHANGED rec
    BY <1>1, <1>2, NobodyRebinds DEF ClaimEpoch
<1>3. CASE ~UNCHANGED rec
    <2> DEFINE r == [can[c] EXCEPT !.pc = "rebind"]
    <2>1. Becomes(c, r) /\ rec' = [rec EXCEPT !.epoch = can[c].fence, !.policy = 0]
        BY <1>3 DEF ClaimEpoch
    <2>2. can[c] \in Call
        BY DEF TypeOK
    <2>3. r \in Call /\ r.pc = "rebind" /\ r.fence = can[c].fence
        BY <2>2 DEF Call, Steps
    <2>4. can'[c] = r
        BY <2>1, <2>3, Moved
    <2>5. rec'.epoch = can[c].fence
        BY <2>1 DEF TypeOK, RecordOK
    <2> QED
        BY <2>3, <2>4, <2>5 DEF Cancellable, Rebinding
<1> QED
    BY <1>2, <1>3

\* The call that claimed the epoch holds it, alone in its server, so that the
\* rebinding is refused only for a terminal record.
LEMMA RebindStays ==
    ASSUME CancelInv, Cancellable, NEW c \in Cancellers, RebindPolicy(c), Alone(c), Running'
    PROVE  Cancellable' \/ RebindingLost
<1> USE CancellationAssumption
<1>1. TypeOK /\ EnvOwn(c)
    BY DEF CancelInv, CallInv
<1>2. \A d \in Cancellers : d # c => can'[d] = can[d]
    BY <1>1 DEF TypeOK, RebindPolicy, Leave, Becomes
<1>3. CASE rec' = [rec EXCEPT !.policy = can[c].fence] /\ rec.epoch = can[c].fence
    BY <1>1, <1>3 DEF TypeOK, RecordOK, Cancellable
<1>4. CASE UNCHANGED rec /\ ~Rebinding(c)
    BY <1>2, <1>4 DEF Cancellable, Rebinding
<1>5. CASE UNCHANGED rec /\ Rebinding(c)
    <2>1. Running /\ Holds(c) /\ rec.epoch = can[c].fence
        BY <1>1, <1>5 DEF Rebinding, EnvOwn, Walk, Holds, Running
    <2>2. CASE faults' = faults + 1 /\ Leave(c)
        <3>1. can'[c].pc = "idle"
            BY <1>1, <2>2, Moved, RestingCall DEF Leave
        <3>2. faults' > faults
            BY <1>1, <2>2 DEF TypeOK
        <3> QED
            BY <1>5, <3>1, <3>2 DEF RebindingLost
    <2>3. CASE rec' = [rec EXCEPT !.policy = can[c].fence]
        BY <1>3, <2>1, <2>3
    <2> QED
        BY <2>1, <2>2, <2>3 DEF RebindPolicy
<1> QED
    BY <1>3, <1>4, <1>5 DEF RebindPolicy

LEMMA CrashLoses ==
    ASSUME TypeOK, Cancellable, NEW s \in Servers, ServerCrashes(s)
    PROVE  Cancellable' \/ RebindingLost
<1> USE CancellationAssumption
<1>1. /\ rec' = rec /\ faults' > faults
      /\ \A d \in Cancellers : can'[d] = IF home[d] = s THEN Resting ELSE can[d]
    BY DEF TypeOK, ServerCrashes
<1>2. CASE rec.policy = rec.epoch
    BY <1>1, <1>2 DEF Cancellable
<1>3. ASSUME NEW d \in Cancellers, Rebinding(d) PROVE Cancellable' \/ RebindingLost
    BY <1>1, <1>3, RestingCall DEF Cancellable, Rebinding, RebindingLost
<1> QED
    BY <1>2, <1>3 DEF Cancellable

\* As long as the operation runs a cancellation can be requested, or one that
\* claimed the epoch is about to put the policy back, whatever the earlier ones
\* ended in: only a crash, or a failed write, before that rebinding takes it.
THEOREM RetryStaysPossible == Spec => StaysCancellable
<1>1. ASSUME CancelInv, [Next]_vars, \A c \in Cancellers : Alone(c), Running', Cancellable
      PROVE  Cancellable' \/ RebindingLost
    <2>1. TypeOK
        BY <1>1 DEF CancelInv
    <2>2. ASSUME NEW c \in Cancellers, Cancel(c) PROVE Cancellable' \/ RebindingLost
        <3>1. CASE can[c].pc = "claim"
            <4>1. ClaimEpoch(c)
                BY <2>2, <3>1 DEF Cancel, Request, RebindPolicy, Survey, ScanFails, VerifyAndSignal,
                   Kill, StopAgents, SettleLease, Decide, Settled, Terminalize, ClearHandles, SetFlag
            <4> QED
                BY <1>1, <2>1, <4>1, ClaimStays
        <3>2. CASE can[c].pc = "rebind"
            <4>1. RebindPolicy(c)
                BY <2>2, <3>2 DEF Cancel, Request, ClaimEpoch, Survey, ScanFails, VerifyAndSignal,
                   Kill, StopAgents, SettleLease, Decide, Settled, Terminalize, ClearHandles, SetFlag
            <4> QED
                BY <1>1, <4>1, RebindStays
        <3> QED
            BY <1>1, <2>1, <2>2, <3>1, <3>2, OtherCallStep
    <2>3. ASSUME Expire \/ WatchdogSignals \/ WatchdogKills \/ Finish \/ Processes \/ UNCHANGED vars
          PROVE  Cancellable'
        <3>1. can' = can /\ rec'.epoch = rec.epoch /\ rec'.policy = rec.policy
            BY <2>1, <2>3 DEF TypeOK, RecordOK, Expire, WatchdogSignals, WatchdogKills, Finish,
               Processes, Fork, RegisterHandle, Unregister, ProcessEnds, SiblingStarts,
               SiblingRegisters, SiblingForgets, vars
        <3> QED
            BY <1>1, <3>1, NobodyRebinds
    <2> QED
        BY <1>1, <2>1, <2>2, <2>3, CrashLoses DEF Next
<1> QED
    BY <1>1, Cancellation, PTL DEF Spec, StaysCancellable
=============================================================================
