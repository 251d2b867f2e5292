----------------------- MODULE OperationCancellation -----------------------
(***************************************************************************)
(* cancelOperation, terminalizeOperation and the hard-deadline watchdog    *)
(* (src/operations/controller.ts), for one operation.  What follows the    *)
(* terminal transition is in TerminalReconciliation.                       *)
(*                                                                         *)
(* A cancellation claims the controller epoch, lists the process numbers   *)
(* the operation durably owns, signals them one by one, stops agents and   *)
(* provider sessions, and makes the operation terminal.  Only then does it *)
(* clear the process handles, which every failure before must leave for a  *)
(* retry to find.                                                          *)
(*                                                                         *)
(* Process numbers are reused: a number is free, names a process of this   *)
(* operation (its controller or a child), or one of a sibling operation.   *)
(* A child or a sibling's process is first started and then registered in  *)
(* a file.  Tokens live in the environment of the server process, which    *)
(* two cancellations may share.                                            *)
(*                                                                         *)
(* A number is signalled twice: SIGTERM right after the check of who has   *)
(* it, which is one step here (the code documents the microseconds between *)
(* them as beyond pid-based signalling), and SIGKILL after a grace of 250  *)
(* ms, without a second check.  In the grace everybody else goes on.       *)
(***************************************************************************)
EXTENDS Naturals, FiniteSets

CONSTANTS Pids,         \* process numbers
          Controller,   \* the number in the record's pid field
          Cancellers,   \* calls of cancelOperation
          Servers,      \* the processes those calls run in
          Leases,       \* provider leases
          MaxEpoch,     \* bound on the claims
          MaxSpawns,    \* bound on the processes started
          MaxFaults,    \* bound on crashes and failed file operations
          None

ASSUME CancellationAssumption ==
    /\ Controller \in Pids
    /\ Servers # {} /\ {None, "watchdog", "controller"} \cap Cancellers = {}
    /\ MaxEpoch \in Nat \ {0} /\ {MaxSpawns, MaxFaults} \subseteq Nat

VARIABLES
    rec,           \* the record: status, phase, epoch, policy epoch, cleanup flag
    proc,          \* what runs under each number
    handles,       \* <operation>.processes/<pid>.json
    siblingFiles,  \* numbers named by the records and handles of siblings
    leases,        \* provider leases of the operation
    env,           \* the epoch each server's environment carries, 0 if none
    home,          \* the server of each cancellation
    can,           \* local state of the cancellations
    fuse,          \* how far the hard-deadline watchdog is
    spawns,        \* processes started so far
    faults,        \* crashes and failures so far
    by,            \* history: who made the operation terminal
    unseen         \* history: own processes a cancellation did not list

files == <<handles, siblingFiles, leases>>
history == <<by, unseen>>
vars == <<rec, proc, files, env, home, can, fuse, spawns, faults, history>>

Resting == [pc |-> "idle", prev |-> 0, fence |-> 0, managed |-> {}, todo |-> {},
            target |-> None, leases |-> {}, warned |-> {}, fenced |-> FALSE]

Init ==
    /\ rec = [status |-> "RUNNING", phase |-> "active", epoch |-> 1, policy |-> 1, flag |-> FALSE]
    /\ handles \in SUBSET (Pids \ {Controller})
    /\ proc = [p \in Pids |-> IF p = Controller THEN "controller"
                             ELSE IF p \in handles THEN "child" ELSE "free"]
    /\ siblingFiles \in {S \in SUBSET (Pids \ {Controller}) : Cardinality(S) <= 1}
    /\ leases = Leases
    /\ env = [s \in Servers |-> 0]
    /\ home \in [Cancellers -> Servers]
    /\ can = [c \in Cancellers |-> Resting]
    /\ fuse = "armed"
    /\ spawns = 0 /\ faults = 0
    /\ by = None /\ unseen = [c \in Cancellers |-> {}]

(***************************************************************************)
(* Helpers.                                                                *)
(***************************************************************************)

Running == rec.status = "RUNNING"

\* A process that may still write for this operation.
Own(p) == proc[p] \in {"controller", "forked", "child"}

\* assertCurrentControllerOwner: epoch and token come from the environment.
Holds(c) == env[home[c]] = rec.epoch

\* assertCancellationFence.
Fence(c) == Holds(c) /\ rec.epoch = can[c].fence /\ rec.policy = can[c].fence

\* The local variables of the call c.
Becomes(c, r) == can' = [can EXCEPT ![c] = r]

\* The finally block of cancelOperation: the environment of the call's start
\* is restored, whatever it holds by now.
Leave(c) ==
    /\ Becomes(c, Resting)
    /\ env' = [env EXCEPT ![home[c]] = can[c].prev]

\* The phase is reported, best effort, and the call throws.
Report(c, phase) ==
    /\ rec' = IF Fence(c) /\ Running THEN [rec EXCEPT !.phase = phase] ELSE rec
    /\ Leave(c)

(***************************************************************************)
(* cancelOperation.                                                        *)
(***************************************************************************)

\* The record is loaded; the policy must be bound to the current epoch.
Request(c) ==
    /\ can[c].pc = "idle" /\ Running
    /\ rec.policy = rec.epoch /\ rec.epoch < MaxEpoch
    /\ Becomes(c, [can[c] EXCEPT !.pc = "claim", !.prev = env[home[c]], !.fence = rec.epoch + 1])
    /\ UNCHANGED <<rec, proc, files, env, home, fuse, spawns, faults, history>>

\* claimControllerEpoch, refused when the operation has moved on.  The claim
\* drops the policy.
ClaimEpoch(c) ==
    /\ can[c].pc = "claim"
    /\ \/ /\ Running /\ rec.policy = rec.epoch /\ rec.epoch + 1 = can[c].fence
          /\ rec' = [rec EXCEPT !.epoch = can[c].fence, !.policy = 0]
          /\ env' = [env EXCEPT ![home[c]] = can[c].fence]
          /\ Becomes(c, [can[c] EXCEPT !.pc = "rebind"])
       \/ /\ ~(Running /\ rec.policy = rec.epoch /\ rec.epoch + 1 = can[c].fence)
          /\ Leave(c) /\ UNCHANGED rec
    /\ UNCHANGED <<proc, files, home, fuse, spawns, faults, history>>

\* Mutant: the policy is rebound for the first cancellation only.
RebindPolicyOnce(c) ==
    /\ can[c].pc = "rebind"
    /\ \/ /\ Running /\ Holds(c) /\ rec.epoch = can[c].fence /\ rec.phase = "active"
          /\ rec' = [rec EXCEPT !.policy = can[c].fence]
          /\ Becomes(c, [can[c] EXCEPT !.pc = "survey"])
          /\ UNCHANGED env
       \/ /\ ~(Running /\ Holds(c) /\ rec.epoch = can[c].fence /\ rec.phase = "active")
          /\ Leave(c) /\ UNCHANGED rec
    /\ UNCHANGED <<proc, files, home, fuse, spawns, faults, history>>

\* rebindPolicyToCurrentCancellationEpoch, whose write may fail.
RebindPolicy(c) ==
    /\ can[c].pc = "rebind"
    /\ \/ /\ Running /\ Holds(c) /\ rec.epoch = can[c].fence
          /\ rec' = [rec EXCEPT !.policy = can[c].fence]
          /\ Becomes(c, [can[c] EXCEPT !.pc = "survey"])
          /\ UNCHANGED <<env, faults>>
       \/ /\ ~(Running /\ Holds(c) /\ rec.epoch = can[c].fence)
          /\ Leave(c) /\ UNCHANGED <<rec, faults>>
       \/ /\ faults < MaxFaults /\ faults' = faults + 1
          /\ Leave(c) /\ UNCHANGED rec
    /\ UNCHANGED <<proc, files, home, fuse, spawns, history>>

\* findDescendantProcessIds: the tree below a live controller.
Descendants ==
    {p \in Pids : proc[Controller] = "controller" /\ proc[p] \in {"forked", "child"}}

\* buildCancellationPidSet: a number some sibling's file names is left out.
KillSet == (handles \cup Descendants \cup {Controller}) \ siblingFiles

\* Handles, descendants and the sibling scan.
Survey(c) ==
    /\ can[c].pc = "survey"
    /\ Becomes(c, [can[c] EXCEPT !.pc = "kill", !.managed = handles, !.todo = KillSet])
    /\ unseen' = [unseen EXCEPT ![c] = {p \in Pids : Own(p)} \ KillSet]
    /\ UNCHANGED <<rec, proc, files, env, home, fuse, spawns, faults, by>>

\* The sibling scan fails, before the first signal or before one of them:
\* the whole cancellation is given up.
ScanFails(c) ==
    /\ can[c].pc \in {"survey", "kill"} /\ faults < MaxFaults
    /\ faults' = faults + 1
    /\ Report(c, "fencing-required")
    /\ UNCHANGED <<proc, files, home, fuse, spawns, history>>

\* The kill loop takes handles and descendants first, the controller last.
NextTarget(c, p) ==
    p \in can[c].todo /\ (p = Controller => can[c].todo = {Controller})

\* The fence, then verifyPidBeforeSignal with a fresh scan, then SIGTERM, on
\* which the process may end (ProcessEnds) or not.  A number that is neither in
\* a handle nor below the controller is proven by its working directory, or not.
VerifyAndSignal(c, p) ==
    /\ can[c].pc = "kill" /\ NextTarget(c, p)
    /\ \/ ~Fence(c) /\ Leave(c)
       \/ /\ Fence(c) /\ p \notin siblingFiles /\ proc[p] = "free"
          /\ Becomes(c, [can[c] EXCEPT !.todo = @ \ {p}])
          /\ UNCHANGED env
       \/ /\ Fence(c)
          /\ \/ p \in siblingFiles
             \/ proc[p] # "free" /\ p \notin can[c].managed \cup Descendants \cup {Controller}
          /\ Becomes(c, [can[c] EXCEPT !.todo = @ \ {p}, !.warned = @ \cup {"writer"}])
          /\ UNCHANGED env
       \/ /\ Fence(c) /\ p \notin siblingFiles /\ proc[p] # "free"
          /\ Becomes(c, [can[c] EXCEPT !.pc = "grace", !.target = p, !.todo = @ \ {p}])
          /\ UNCHANGED env
    /\ UNCHANGED <<rec, proc, files, home, fuse, spawns, faults, history>>

\* Mutant: a signal that could not be delivered leaves no warning.
KillSilently(c) ==
    /\ can[c].pc = "grace"
    /\ Becomes(c, [can[c] EXCEPT !.pc = "kill", !.target = None])
    /\ \/ /\ proc' = [proc EXCEPT ![can[c].target] = "free"]
       \/ UNCHANGED proc
    /\ UNCHANGED <<rec, files, env, home, fuse, spawns, faults, history>>

\* The grace is over: SIGKILL to the number, whoever has it now, and the proof
\* that the group is gone.  The signal, or the proof, may fail.
Kill(c) ==
    /\ can[c].pc = "grace"
    /\ \/ /\ proc' = [proc EXCEPT ![can[c].target] = "free"]
          /\ Becomes(c, [can[c] EXCEPT !.pc = "kill", !.target = None])
       \/ /\ Becomes(c, [can[c] EXCEPT !.pc = "kill", !.target = None, !.warned = @ \cup {"writer"}])
          /\ UNCHANGED proc
    /\ UNCHANGED <<rec, files, env, home, fuse, spawns, faults, history>>

\* `paseo stop` of the registered agents, then the snapshot of the leases.
StopAgents(c) ==
    /\ can[c].pc = "kill" /\ can[c].todo = {}
    /\ \/ ~Fence(c) /\ Leave(c)
       \/ /\ Fence(c)
          /\ \E w \in {{}, {"writer"}} :
                Becomes(c, [can[c] EXCEPT !.pc = "leases", !.leases = leases, !.warned = @ \cup w])
          /\ UNCHANGED env
    /\ UNCHANGED <<rec, proc, files, home, fuse, spawns, faults, history>>

\* At most three rounds of stop and inspect: the session is proven quiescent
\* and its lease released, perhaps after a failed stop; or it stays uncertain;
\* or the lease names no session.
SettleLease(c, l) ==
    /\ can[c].pc = "leases" /\ l \in can[c].leases
    /\ \/ ~Fence(c) /\ Leave(c) /\ UNCHANGED leases
       \/ /\ Fence(c)
          /\ leases' = leases \ {l}
          /\ \E w \in {{}, {"session"}} :
                Becomes(c, [can[c] EXCEPT !.leases = @ \ {l}, !.warned = @ \cup w])
          /\ UNCHANGED env
       \/ /\ Fence(c)
          /\ Becomes(c, [can[c] EXCEPT !.leases = @ \ {l}, !.fenced = TRUE,
                                       !.warned = @ \cup {"session"}])
          /\ UNCHANGED <<leases, env>>
       \/ /\ Fence(c)
          /\ Becomes(c, [can[c] EXCEPT !.leases = @ \ {l}, !.warned = @ \cup {"writer"}])
          /\ UNCHANGED <<leases, env>>
    /\ UNCHANGED <<rec, proc, handles, siblingFiles, home, fuse, spawns, faults, history>>

\* Only uncertain sessions: fail with a receipt.  Any other warning, or an
\* action intent without an outcome: report and throw.  Nothing: cancel.
Settled(c) == can[c].pc = "leases" /\ can[c].leases = {}
OnlySessions(c) == can[c].fenced /\ can[c].warned \subseteq {"session"}

\* Mutant: the handles are cleared with the last fence check, before the
\* terminal transition.
DecideClearing(c) ==
    /\ Settled(c)
    /\ \/ ~Fence(c) /\ Leave(c) /\ UNCHANGED <<rec, handles>>
       \/ /\ Fence(c) /\ can[c].warned = {}
          /\ Becomes(c, [can[c] EXCEPT !.pc = "cancel"])
          /\ handles' = {}
          /\ UNCHANGED <<rec, env>>
    /\ UNCHANGED <<proc, siblingFiles, leases, home, fuse, spawns, faults, history>>

Decide(c) ==
    /\ Settled(c)
    /\ \/ ~Fence(c) /\ Leave(c) /\ UNCHANGED rec
       \/ /\ Fence(c) /\ OnlySessions(c)
          /\ Becomes(c, [can[c] EXCEPT !.pc = "uncertain"])
          /\ UNCHANGED <<rec, env>>
       \/ Fence(c) /\ ~OnlySessions(c) /\ can[c].warned # {} /\ Report(c, "fencing-required")
       \/ Fence(c) /\ can[c].warned = {} /\ Report(c, "reconciling")
       \/ /\ Fence(c) /\ can[c].warned = {}
          /\ Becomes(c, [can[c] EXCEPT !.pc = "cancel"])
          /\ UNCHANGED <<rec, env>>
    /\ UNCHANGED <<proc, files, home, fuse, spawns, faults, history>>

\* transitionOperationToTerminal of a FAILED patch: past the hard deadline, or
\* with an economic boundary, its phase is replaced.
FailedPhases == {"UNCERTAIN_EXTERNAL_EFFECTS", "HUMAN_REQUIRED"}

\* Mutant: the transition does not check the owner.
TerminalizeUnchecked(c) ==
    /\ can[c].pc \in {"uncertain", "cancel"} /\ Running
    /\ \/ /\ can[c].pc = "cancel"
          /\ rec' = [rec EXCEPT !.status = "CANCELLED", !.phase = "cancelled"]
       \/ /\ can[c].pc = "uncertain"
          /\ \E f \in FailedPhases : rec' = [rec EXCEPT !.status = "FAILED", !.phase = f]
    /\ by' = c
    /\ Becomes(c, [can[c] EXCEPT !.pc = "clear"])
    /\ UNCHANGED <<env, proc, files, home, fuse, spawns, faults, unseen>>

\* A terminal record is left alone; the owner check has no fence.
Terminalize(c) ==
    /\ can[c].pc \in {"uncertain", "cancel"}
    /\ \/ /\ ~Running \/ ~Holds(c)
          /\ Leave(c) /\ UNCHANGED <<rec, by>>
       \/ /\ Running /\ Holds(c)
          /\ \/ /\ can[c].pc = "cancel"
                /\ rec' = [rec EXCEPT !.status = "CANCELLED", !.phase = "cancelled"]
             \/ /\ can[c].pc = "uncertain"
                /\ \E f \in FailedPhases : rec' = [rec EXCEPT !.status = "FAILED", !.phase = f]
          /\ by' = c
          /\ Becomes(c, [can[c] EXCEPT !.pc = "clear"])
          /\ UNCHANGED env
    /\ UNCHANGED <<proc, files, home, fuse, spawns, faults, unseen>>

\* The terminal hook, clearCancelProcessHandles, in two writes.
ClearHandles(c) ==
    /\ can[c].pc = "clear"
    /\ \/ /\ handles' = {}
          /\ Becomes(c, [can[c] EXCEPT !.pc = "flag"])
          /\ UNCHANGED <<env, faults>>
       \/ /\ faults < MaxFaults /\ faults' = faults + 1
          /\ Leave(c) /\ UNCHANGED handles
    /\ UNCHANGED <<rec, proc, siblingFiles, leases, home, fuse, spawns, history>>

SetFlag(c) ==
    /\ can[c].pc = "flag"
    /\ rec' = IF Holds(c) THEN [rec EXCEPT !.flag = TRUE] ELSE rec
    /\ Leave(c)
    /\ UNCHANGED <<proc, files, home, fuse, spawns, faults, history>>

(***************************************************************************)
(* The other ways to a terminal record.                                    *)
(***************************************************************************)

\* expireOperationAtHardDeadline, whenever the deadline passes: no token is
\* needed.
Expire ==
    /\ Running
    /\ rec' = [rec EXCEPT !.status = "FAILED", !.phase = "HUMAN_REQUIRED"]
    /\ by' = "watchdog"
    /\ fuse' = "fired"
    /\ UNCHANGED <<proc, files, env, home, can, spawns, faults, unseen>>

\* The controller's number gets SIGTERM if no sibling names it, it is alive and
\* its directory is right; a scan that fails skips the signal.
WatchdogSignals ==
    /\ fuse = "fired"
    /\ \/ Controller \notin siblingFiles /\ proc[Controller] # "free" /\ fuse' = "grace"
       \/ fuse' = "done"
    /\ UNCHANGED <<rec, proc, files, env, home, can, spawns, faults, history>>

\* And SIGKILL, delivered or not, when the grace is over.
WatchdogKills ==
    /\ fuse = "grace" /\ fuse' = "done"
    /\ \/ /\ proc' = [proc EXCEPT ![Controller] = "free"]
       \/ UNCHANGED proc
    /\ UNCHANGED <<rec, files, env, home, can, spawns, faults, history>>

\* terminalizeOperation by the controller itself, which no hook follows.
Finish ==
    /\ Running /\ proc[Controller] = "controller" /\ rec.epoch = 1
    /\ \E st \in {"SUCCEEDED", "FAILED"} :
          rec' = [rec EXCEPT !.status = st, !.phase = "finished"]
    /\ by' = "controller"
    /\ UNCHANGED <<proc, files, env, home, can, fuse, spawns, faults, unseen>>

(***************************************************************************)
(* Processes, siblings, crashes.                                           *)
(***************************************************************************)

\* The controller starts a child, and registers it afterwards.  It goes on
\* until it notices that it was displaced.
Fork(p) ==
    /\ proc[Controller] = "controller" /\ proc[p] = "free" /\ spawns < MaxSpawns
    /\ proc' = [proc EXCEPT ![p] = "forked"]
    /\ spawns' = spawns + 1
    /\ unseen' = [c \in Cancellers |-> unseen[c] \cup {p}]
    /\ UNCHANGED <<rec, files, env, home, can, fuse, faults, by>>

RegisterHandle(p) ==
    /\ proc[Controller] = "controller" /\ proc[p] = "forked"
    /\ proc' = [proc EXCEPT ![p] = "child"]
    /\ handles' = handles \cup {p}
    /\ UNCHANGED <<rec, siblingFiles, leases, env, home, can, fuse, spawns, faults, history>>

Unregister(p) ==
    /\ proc[Controller] = "controller" /\ p \in handles /\ proc[p] # "child"
    /\ handles' = handles \ {p}
    /\ UNCHANGED <<rec, proc, siblingFiles, leases, env, home, can, fuse, spawns, faults, history>>

ProcessEnds(p) ==
    /\ proc[p] # "free"
    /\ proc' = [proc EXCEPT ![p] = "free"]
    /\ UNCHANGED <<rec, files, env, home, can, fuse, spawns, faults, history>>

SiblingStarts(p) ==
    /\ proc[p] = "free" /\ spawns < MaxSpawns
    /\ proc' = [proc EXCEPT ![p] = "newborn"]
    /\ spawns' = spawns + 1
    /\ UNCHANGED <<rec, files, env, home, can, fuse, faults, history>>

SiblingRegisters(p) ==
    /\ proc[p] = "newborn"
    /\ proc' = [proc EXCEPT ![p] = "sibling"]
    /\ siblingFiles' = siblingFiles \cup {p}
    /\ UNCHANGED <<rec, handles, leases, env, home, can, fuse, spawns, faults, history>>

SiblingForgets(p) ==
    /\ p \in siblingFiles /\ proc[p] # "sibling"
    /\ siblingFiles' = siblingFiles \ {p}
    /\ UNCHANGED <<rec, proc, handles, leases, env, home, can, fuse, spawns, faults, history>>

ServerCrashes(s) ==
    /\ faults < MaxFaults /\ faults' = faults + 1
    /\ \E c \in Cancellers : home[c] = s /\ can[c].pc # "idle"
    /\ can' = [c \in Cancellers |-> IF home[c] = s THEN Resting ELSE can[c]]
    /\ env' = [env EXCEPT ![s] = 0]
    /\ UNCHANGED <<rec, proc, files, home, fuse, spawns, history>>

Cancel(c) ==
    \/ Request(c) \/ ClaimEpoch(c) \/ RebindPolicy(c) \/ Survey(c) \/ ScanFails(c)
    \/ \E p \in Pids : VerifyAndSignal(c, p)
    \/ Kill(c) \/ StopAgents(c)
    \/ \E l \in Leases : SettleLease(c, l)
    \/ Decide(c) \/ Terminalize(c) \/ ClearHandles(c) \/ SetFlag(c)

Processes ==
    \E p \in Pids :
        \/ Fork(p) \/ RegisterHandle(p) \/ Unregister(p) \/ ProcessEnds(p)
        \/ SiblingStarts(p) \/ SiblingRegisters(p) \/ SiblingForgets(p)

Next ==
    \/ \E c \in Cancellers : Cancel(c)
    \/ Expire \/ WatchdogSignals \/ WatchdogKills \/ Finish \/ Processes
    \/ \E s \in Servers : ServerCrashes(s)

Spec == Init /\ [][Next]_vars

-----------------------------------------------------------------------------

Statuses == {"RUNNING", "CANCELLED", "FAILED", "SUCCEEDED"}
Phases == {"active", "fencing-required", "reconciling", "cancelled", "finished"} \cup FailedPhases
Steps == {"idle", "claim", "rebind", "survey", "kill", "grace", "leases", "uncertain", "cancel", "clear", "flag"}
Kinds == {"free", "controller", "forked", "child", "newborn", "sibling"}

Call == [pc : Steps, prev : 0 .. MaxEpoch, fence : 0 .. MaxEpoch,
         managed : SUBSET Pids, todo : SUBSET Pids, target : Pids \cup {None}, leases : SUBSET Leases,
         warned : SUBSET {"writer", "session"}, fenced : BOOLEAN]

\* The epoch of the policy never passes that of the record, a flag needs a
\* terminal status, and the phase of a cancelled operation stands.
RecordOK ==
    /\ rec \in [status : Statuses, phase : Phases, epoch : 1 .. MaxEpoch, policy : 0 .. MaxEpoch,
               flag : BOOLEAN]
    /\ rec.policy <= rec.epoch
    /\ rec.flag => ~Running
    /\ rec.status = "CANCELLED" <=> rec.phase = "cancelled"

\* The record, the files and the local states are well formed, and a
\* sibling's process is in the sibling's files.
TypeOK ==
    /\ RecordOK
    /\ proc \in [Pids -> Kinds]
    /\ handles \subseteq Pids /\ siblingFiles \subseteq Pids /\ leases \subseteq Leases
    /\ \A p \in Pids : proc[p] = "sibling" => p \in siblingFiles
    /\ env \in [Servers -> 0 .. MaxEpoch] /\ home \in [Cancellers -> Servers]
    /\ can \in [Cancellers -> Call]
    /\ fuse \in {"armed", "fired", "grace", "done"}
    /\ spawns \in 0 .. MaxSpawns /\ faults \in 0 .. MaxFaults
    /\ by \in Cancellers \cup {None, "watchdog", "controller"}
    /\ unseen \in [Cancellers -> SUBSET Pids]

\* A cancellation ends the operation, as CANCELLED or as FAILED, only when
\* every process it had listed is gone: a signal that failed, a number it could
\* not verify, or a group that outlived its signal stops it, and a retry by a
\* second call starts from a new list.  CANCELLED also means that no provider
\* lease is left: a session that does not become quiet keeps its own.
WritersStopped ==
    /\ by \in Cancellers => {p \in Pids : Own(p)} \subseteq unseen[by]
    /\ rec.status = "CANCELLED" => leases = {}

\* Until a terminal status is on disk, every registered child that lives has
\* its handle: whatever throws or crashes before, a retry finds the process.
EvidenceKept == Running => \A p \in Pids : proc[p] = "child" => p \in handles

\* No signal hits a process that a sibling has registered.  The code re-proves
\* each number immediately before signalling it (controller.ts:901) and grants
\* microseconds (2286); it does not keep this, for the SIGKILL comes a grace
\* later and without a new proof.
SiblingsSpared ==
    [][\A c \in Cancellers :
          can[c].pc = "grace" /\ proc[can[c].target] = "sibling" /\ proc' # proc
              => can'[c].pc = "grace"]_vars

\* No other call runs in c's server.
Alone(c) == \A d \in Cancellers : home[d] = home[c] => d = c

\* A cancellation alone in its server ends the operation only under its own
\* epoch: one that was displaced at any point of its walk stops.  In a shared
\* server it does end it, with the token of the call that displaced it.
DisplacedStops ==
    \A c \in Cancellers :
        by = c /\ Alone(c) /\ can[c].pc \in {"clear", "flag"} => can[c].fence = rec.epoch

\* A cancellation can be requested: the policy is bound to the epoch, or the
\* call that claimed the epoch is about to bind it.
Rebinding(c) == can[c].pc = "rebind" /\ can[c].fence = rec.epoch
Cancellable == rec.policy = rec.epoch \/ \E c \in Cancellers : Rebinding(c)

RebindingLost ==
    \E c \in Cancellers : Rebinding(c) /\ can'[c].pc = "idle" /\ faults' > faults

\* A running operation stays cancellable: a cancellation that is refused, gives
\* up or is displaced, alone in its server, has put back the policy its claim
\* dropped.  Only a crash or a failed write between the claim and the rebinding
\* takes that away.
StaysCancellable ==
    [][(\A c \in Cancellers : Alone(c)) /\ Running' /\ Cancellable
          => Cancellable' \/ RebindingLost]_vars

=============================================================================
