----------------------- MODULE TerminalReconciliation -----------------------
(***************************************************************************)
(* The external workspace of an operation, from its creation by            *)
(* ensureOperationWorkspace to its archive, and                            *)
(* reconcileOperationResources with the sweep that retries it              *)
(* (src/operations/controller.ts, src/runtime/operationResources.ts).      *)
(*                                                                         *)
(* Four files can name a workspace: the intent written before the create,  *)
(* the record, the resource registry and the receipt of a reconciliation.  *)
(* The controller writes them one after the other and may stop anywhere.   *)
(* The create runs behind the action gate (src/security/toolActionGate.ts), *)
(* which lets it through once in the life of the operation: an execution   *)
(* after a crash is refused, and an audit then goes on without workspace.  *)
(* Once the operation is terminal any number of reconciliations run, with  *)
(* no lock between them: each reads the registry, releases what it found,  *)
(* and writes the whole registry back.                                     *)
(*                                                                         *)
(* A cancellation stops the processes first and clears their handles after *)
(* the terminal transition, so that a crash between leaves handles whose   *)
(* numbers a sibling operation may have by now: a reconciliation that      *)
(* meets them must not signal.                                             *)
(***************************************************************************)
EXTENDS Naturals, FiniteSets

CONSTANTS Workspaces,     \* identities `paseo workspace create` returns
          Pids,           \* process numbers
          Reconcilers,    \* calls of reconcileOperationResources
          MaxRuns,        \* bound on the executions of the operation
          MaxFaults,      \* bound on crashes, failures and late controllers
          MaxReuse,       \* bound on the numbers siblings take over
          None

ASSUME ReconciliationAssumption ==
    /\ {MaxRuns, MaxFaults, MaxReuse} \subseteq Nat
    /\ {"absent", "started", None} \cap Workspaces = {} /\ Workspaces \cap Pids = {}

VARIABLES
    rec,       \* the record: status, the phases Guarded tells apart, cleanup flag, workspaceId
    intent,    \* <operation>.workspace-intent.json: absent, started, or an id
    gate,      \* the action intent of `paseo workspace create`
    world,     \* the workspaces of the Paseo daemon
    proc,      \* what runs under each number
    handles,   \* <operation>.processes/<pid>.json
    registry,  \* resources.json
    receipt,   \* resource-reconciliation.json
    ctl,       \* the controller: where it is and the workspace it created
    hook,      \* the terminal hook of a cancellation
    rcn,       \* local state of the reconciliations
    runs, faults, reuse,
    learned,   \* history: workspaces whose identity was written to a file
    lost,      \* history: workspaces erased from the record; what a late controller added
    wronged,   \* history: siblings signalled after a cancellation had fenced
    unclear    \* history: a clear of the handles failed

counters == <<runs, faults, reuse>>
history == <<learned, lost, wronged, unclear>>
controlVars == <<rec, intent, gate, ctl, hook>>
vars == <<controlVars, world, proc, handles, registry, receipt, rcn, counters, history>>

Resting == [pc |-> "idle", guarded |-> FALSE, upd |-> [x \in Workspaces \cup Pids |-> "absent"],
            listed |-> FALSE, todo |-> {}, failed |-> FALSE]

\* No controller.
Off == [pc |-> "off", ws |-> None]

Init ==
    /\ rec = [status |-> "RUNNING", phase |-> "active", flag |-> FALSE, ws |-> None]
    /\ gate = "none"
    /\ intent = "absent"
    /\ world = [w \in Workspaces |-> "absent"]
    /\ proc = [p \in Pids |-> "free"] /\ handles = {}
    /\ registry = [x \in Workspaces \cup Pids |-> "absent"]
    /\ receipt = "none"
    /\ ctl = Off
    /\ hook = "none"
    /\ rcn = [r \in Reconcilers |-> Resting]
    /\ runs = 0 /\ faults = 0 /\ reuse = 0
    /\ learned = {} /\ lost = {} /\ wronged = {} /\ unclear = FALSE

Running == rec.status = "RUNNING"
Becomes(r, m) == rcn' = [rcn EXCEPT ![r] = m]

Fault == faults < MaxFaults /\ faults' = faults + 1 /\ UNCHANGED <<runs, reuse>>

(***************************************************************************)
(* The controller: ensureOperationWorkspace and what follows it.           *)
(***************************************************************************)

At(pc) == ctl.pc = pc
Goto(pc) == ctl' = [ctl EXCEPT !.pc = pc]

\* executeOperation; an execution after a crash starts from the same record.
Execute ==
    /\ At("off") /\ Running /\ runs < MaxRuns
    /\ runs' = runs + 1
    /\ ctl' = [pc |-> "intent", ws |-> None]
    /\ UNCHANGED <<rec, intent, gate, hook, world, proc, handles, registry, receipt, rcn, faults, reuse,
                   history>>

\* writeOperationWorkspaceIntent keeps an intent that has an identity.
WriteIntent ==
    /\ At("intent")
    /\ intent' = IF intent \in Workspaces THEN intent ELSE "started"
    /\ Goto("gate")
    /\ UNCHANGED <<rec, gate, hook, world, proc, handles, registry, receipt, rcn, counters, history>>

\* A mutating operation throws, an audit goes on at the repository root; the
\* kind of the operation is not kept.
WithoutWorkspace == \E pc \in {"patch", "throw"} : Goto(pc)

\* authorizeToolAction: the intent of the action is written before the create,
\* for a running operation, and never again.  Every later attempt is refused,
\* whether the first has a receipt or not.
Authorize ==
    /\ At("gate")
    /\ \/ gate = "none" /\ Running /\ gate' = "claimed" /\ Goto("create")
       \/ /\ gate = "claimed" \/ ~Running
          /\ WithoutWorkspace
          /\ UNCHANGED gate
    /\ UNCHANGED <<rec, intent, hook, world, proc, handles, registry, receipt, rcn, counters, history>>

\* `paseo workspace create`.  A failure does not prove that nothing was
\* created, and a success need not tell the identity.
CreateWorkspace(w) ==
    /\ At("create") /\ world[w] = "absent"
    /\ \/ /\ world' = [world EXCEPT ![w] = "live"]
          /\ ctl' = [pc |-> "upgrade", ws |-> w]
          /\ UNCHANGED counters
       \/ /\ world' \in {world, [world EXCEPT ![w] = "live"]}
          /\ WithoutWorkspace /\ Fault
    /\ UNCHANGED <<rec, intent, gate, hook, proc, handles, registry, receipt, rcn, history>>

\* Mutant: the identity is left to the record.
UpgradeNothing ==
    /\ At("upgrade")
    /\ Goto("patch")
    /\ learned' = learned \cup {ctl.ws}
    /\ UNCHANGED <<rec, intent, gate, hook, world, proc, handles, registry, receipt, rcn, counters, lost,
                   wronged, unclear>>

\* upgradeOperationWorkspaceIntent: the new identity replaces any other; a
\* failed write throws.
UpgradeIntent ==
    /\ At("upgrade")
    /\ \/ /\ intent' = IF intent = "absent" THEN intent ELSE ctl.ws
          /\ learned' = learned \cup {ctl.ws}
          /\ Goto("patch")
          /\ UNCHANGED counters
       \/ Fault /\ Goto("throw") /\ UNCHANGED <<intent, learned>>
    /\ lost' = IF Running THEN lost ELSE lost \cup {ctl.ws}
    /\ UNCHANGED <<rec, gate, hook, world, proc, handles, registry, receipt, rcn, wronged, unclear>>

\* The control plane snapshot, which may throw, then the patch of the record,
\* which a terminal record refuses.  Without a workspace the patch erases the
\* one an earlier execution left there.
PatchRecord ==
    /\ At("patch")
    /\ \/ /\ Running
          /\ rec' = [rec EXCEPT !.ws = ctl.ws]
          /\ lost' = lost \cup {w \in {rec.ws} \ {ctl.ws, None} : intent # w /\ registry[w] = "absent"}
          /\ Goto(IF ctl.ws = None THEN "work" ELSE "clear")
          /\ UNCHANGED counters
       \/ ~Running /\ Goto("throw") /\ UNCHANGED <<rec, lost, counters>>
       \/ Fault /\ Goto("throw") /\ UNCHANGED <<rec, lost>>
    /\ UNCHANGED <<intent, gate, hook, world, proc, handles, registry, receipt, rcn, learned, wronged, unclear>>

\* clearOperationWorkspaceIntent, best effort.
ClearIntent ==
    /\ At("clear")
    /\ \/ intent' = "absent" /\ UNCHANGED counters
       \/ Fault /\ UNCHANGED intent
    /\ Goto("register")
    /\ UNCHANGED <<rec, gate, hook, world, proc, handles, registry, receipt, rcn, history>>

\* registerOperationResource, under the registry's lock; a failure is traced.
RegisterWorkspace ==
    /\ At("register")
    /\ \/ /\ registry' = [registry EXCEPT ![ctl.ws] = IF @ = "absent" THEN "OWNED" ELSE @]
          /\ UNCHANGED counters
       \/ Fault /\ UNCHANGED registry
    /\ ctl' = [pc |-> "work", ws |-> None]
    /\ UNCHANGED <<rec, intent, gate, hook, world, proc, handles, receipt, rcn, history>>

\* A child with its handle.
Spawn(p) ==
    /\ At("work") /\ proc[p] = "free"
    /\ proc' = [proc EXCEPT ![p] = "own"]
    /\ handles' = handles \cup {p}
    /\ lost' = IF Running THEN lost \ {p} ELSE lost \cup {p}
    /\ UNCHANGED <<controlVars, world, registry, receipt, rcn, counters, learned, wronged, unclear>>

\* The controller makes the operation terminal, after its work or in the catch
\* block (FINISHED stands for SUCCEEDED and FAILED); a record that is terminal
\* already is left alone.  The reconciliation that follows is a DirectCall.
Finish ==
    /\ ctl.pc \in {"throw", "work"}
    /\ \/ /\ Running
          /\ rec' = [rec EXCEPT !.status = "FINISHED", !.phase = "other"]
       \/ ~Running /\ UNCHANGED rec
    /\ ctl' = Off
    /\ UNCHANGED <<intent, gate, hook, world, proc, handles, registry, receipt, rcn, counters, history>>

ControllerCrashes ==
    /\ ctl.pc # "off" /\ Fault
    /\ ctl' = Off
    /\ UNCHANGED <<rec, intent, gate, hook, world, proc, handles, registry, receipt, rcn, history>>

(***************************************************************************)
(* The other ways to a terminal record.                                    *)
(***************************************************************************)

\* A cancellation: the controller and the children it lists are stopped, then
\* the transition, whose phase a passed deadline or budget replaces.
Cancel ==
    /\ Running
    /\ ctl' = Off
    /\ proc' = [p \in Pids |-> IF p \in handles THEN "free" ELSE proc[p]]
    /\ \/ rec' = [rec EXCEPT !.status = "CANCELLED", !.phase = "cancelled"]
       \/ \E f \in {"UNCERTAIN_EXTERNAL_EFFECTS", "other"} :
             rec' = [rec EXCEPT !.status = "FINISHED", !.phase = f]
    /\ hook' = "clear"
    /\ UNCHANGED <<intent, gate, world, handles, registry, receipt, rcn, counters, history>>

\* Mutant: the flag is set first and the handles are cleared after.
ClearAfterFlag ==
    /\ hook \in {"clear", "flag"}
    /\ IF hook = "clear" THEN rec' = [rec EXCEPT !.flag = TRUE] /\ hook' = "flag" /\ UNCHANGED handles
                         ELSE handles' = {} /\ hook' = "none" /\ UNCHANGED rec
    /\ UNCHANGED <<intent, gate, ctl, world, proc, registry, receipt, rcn, counters, history>>

\* clearCancelProcessHandles: the clear, then the flag.  The server may die
\* or the clear throw before either.
TerminalHook ==
    /\ hook \in {"clear", "flag"}
    /\ \/ hook = "clear" /\ handles' = {} /\ hook' = "flag" /\ UNCHANGED <<rec, counters>>
       \/ /\ hook = "flag" /\ rec' = [rec EXCEPT !.flag = TRUE] /\ hook' = "none"
          /\ UNCHANGED <<handles, counters>>
       \/ Fault /\ hook' = "none" /\ UNCHANGED <<rec, handles>>
    /\ UNCHANGED <<intent, gate, ctl, world, proc, registry, receipt, rcn, history>>

\* The watchdog: the controller's number is signalled or, when it cannot be
\* verified or the watchdog runs in that very process, skipped.  The
\* controller then outlives the operation, which MaxFaults bounds too.
Expire ==
    /\ Running
    /\ rec' = [rec EXCEPT !.status = "FINISHED", !.phase = "other"]
    /\ \/ ctl' = Off /\ UNCHANGED counters
       \/ ~At("off") /\ Fault /\ UNCHANGED ctl
    /\ UNCHANGED <<intent, gate, hook, world, proc, handles, registry, receipt, rcn, history>>

ProcessEnds(p) ==
    /\ proc[p] # "free"
    /\ proc' = [proc EXCEPT ![p] = "free"]
    /\ UNCHANGED <<controlVars, world, handles, registry, receipt, rcn, counters, history>>

\* A number that a file of this operation names goes to a sibling.
SiblingTakes(p) ==
    /\ proc[p] = "free" /\ reuse < MaxReuse
    /\ p \in handles \/ registry[p] = "OWNED" \/ \E r \in Reconcilers : p \in rcn[r].todo
    /\ reuse' = reuse + 1
    /\ proc' = [proc EXCEPT ![p] = "sibling"]
    /\ UNCHANGED <<controlVars, world, handles, registry, receipt, rcn, runs, faults, history>>

(***************************************************************************)
(* reconcileOperationResources.                                            *)
(***************************************************************************)

\* Mutant: the flag alone decides.
GuardedByFlag == ~rec.flag /\ rec.phase = "cancelled"

\* cancelTerminalWithoutCleanupFlag.
Guarded ==
    /\ rec.status = "CANCELLED" \/ rec.phase = "UNCERTAIN_EXTERNAL_EFFECTS"
    /\ ~rec.flag

\* The record and the registry are read and, when there is an intent, the
\* workspaces listed.
Load(r) ==
    /\ rcn[r].pc = "idle" /\ ~Running
    /\ Becomes(r, [Resting EXCEPT
           !.pc = "collect", !.guarded = Guarded, !.upd = registry, !.listed = (intent # "absent"),
           !.todo = IF intent = "absent" THEN {} ELSE {w \in Workspaces : world[w] = "live"}])
    /\ UNCHANGED <<controlVars, world, proc, handles, registry, receipt, counters, history>>

\* By the process that made the operation terminal, by an execution of a
\* terminal operation, or by an Owner resolution.
DirectCall(r) == Load(r)

\* What the sweep finds worth a reconciliation.
Surface ==
    \/ \E x \in DOMAIN registry : registry[x] # "absent"
    \/ handles # {} \/ rec.ws # None
    \/ intent \in Workspaces /\ world[intent] = "live"

\* Mutant: an operation that has a receipt is current.
SweepOnce(r) == receipt = "none" /\ Surface /\ Load(r)

\* reconcileTerminalOperationResources, at every start of an operation.
Sweep(r) == receipt # "complete" /\ Surface /\ Load(r)

\* selectTripleBoundWorkspaces: only the identity in the intent, if listed.
Discovered(listed) == {w \in listed : intent = w}

\* collectResourceCandidates: the registry, the record's workspace, the
\* discovered one, the handles.  An intent whose identity is not in the
\* listing is cleared; nothing was listed if there was no intent.
Collect(r) ==
    LET listed == rcn[r].todo
        found == ({rec.ws} \ {None}) \cup Discovered(listed) \cup handles
        upd == [x \in Workspaces \cup Pids |->
                   IF rcn[r].upd[x] = "absent" /\ x \in found THEN "OWNED" ELSE rcn[r].upd[x]]
    IN /\ rcn[r].pc = "collect"
       /\ Becomes(r, [rcn[r] EXCEPT !.pc = "release", !.upd = upd, !.listed = FALSE,
                                    !.todo = {x \in Workspaces \cup Pids : upd[x] = "OWNED"}])
       /\ intent' = IF rcn[r].listed /\ intent \in Workspaces \ listed THEN "absent" ELSE intent
       /\ UNCHANGED <<rec, gate, ctl, hook, world, proc, handles, registry, receipt, counters, history>>

Released(r, x) ==
    Becomes(r, [rcn[r] EXCEPT !.todo = @ \ {x}, !.upd = [@ EXCEPT ![x] = "RELEASED"]])
Failed(r, x) == Becomes(r, [rcn[r] EXCEPT !.todo = @ \ {x}, !.failed = TRUE])

\* releaseResource of a workspace: `paseo workspace archive`.  Of a workspace
\* that is archived already it may succeed or not, and is tried again by every
\* reconciliation that meets its entry.
Archive(r, w) ==
    /\ rcn[r].pc = "release" /\ w \in rcn[r].todo
    /\ \/ /\ world' = [world EXCEPT ![w] = "archived"]
          /\ Released(r, w) /\ UNCHANGED counters
       \/ world[w] = "archived" /\ Failed(r, w) /\ UNCHANGED <<world, counters>>
       \/ Fault /\ Failed(r, w) /\ UNCHANGED world
    /\ UNCHANGED <<controlVars, proc, handles, registry, receipt, history>>

\* releaseResource of a process: the number is signalled, whatever runs there.
Signal(r, p) ==
    /\ rcn[r].pc = "release" /\ p \in rcn[r].todo /\ ~rcn[r].guarded
    /\ \/ /\ Released(r, p)
          /\ proc' = [proc EXCEPT ![p] = "free"]
          /\ wronged' = IF proc[p] = "sibling" /\ rec.phase \in {"cancelled", "UNCERTAIN_EXTERNAL_EFFECTS"}
                        THEN wronged \cup {p} ELSE wronged
          /\ UNCHANGED counters
       \/ Fault /\ Failed(r, p) /\ UNCHANGED <<proc, wronged>>
    /\ UNCHANGED <<controlVars, world, handles, registry, receipt, learned, lost, unclear>>

\* Guarded handles are cleared without a signal.
FencedClear(r) ==
    /\ rcn[r].pc = "release" /\ rcn[r].guarded
    /\ rcn[r].todo # {} /\ rcn[r].todo \subseteq Pids
    /\ \/ /\ handles' = {}
          /\ Becomes(r, [rcn[r] EXCEPT !.todo = {},
                   !.upd = [x \in Workspaces \cup Pids |->
                               IF x \in rcn[r].todo THEN "RELEASED" ELSE @[x]]])
          /\ UNCHANGED <<counters, unclear>>
       \/ /\ Fault /\ unclear' = TRUE
          /\ Becomes(r, [rcn[r] EXCEPT !.todo = {}, !.failed = TRUE])
          /\ UNCHANGED handles
    /\ UNCHANGED <<controlVars, world, proc, registry, receipt, learned, lost, wronged>>

\* The handle directory is cleared at the end of every reconciliation.
ClearTerminal(r) ==
    /\ rcn[r].pc = "release" /\ rcn[r].todo = {}
    /\ \/ /\ handles' = {}
          /\ Becomes(r, [rcn[r] EXCEPT !.pc = "registry", !.guarded = FALSE])
          /\ UNCHANGED <<counters, unclear>>
       \/ /\ Fault /\ unclear' = TRUE
          /\ Becomes(r, [rcn[r] EXCEPT !.pc = "registry", !.guarded = FALSE, !.failed = TRUE])
          /\ UNCHANGED handles
    /\ UNCHANGED <<controlVars, world, proc, registry, receipt, learned, lost, wronged>>

\* The registry read at the start is written back, without the lock.
WriteRegistry(r) ==
    /\ rcn[r].pc = "registry"
    /\ registry' = rcn[r].upd
    /\ Becomes(r, [rcn[r] EXCEPT !.pc = "receipt", !.upd = Resting.upd])
    /\ UNCHANGED <<controlVars, world, proc, handles, receipt, counters, history>>

\* Mutant: the receipt does not count the failures.
WriteReceiptBlindly(r) ==
    /\ rcn[r].pc = "receipt"
    /\ receipt' = "complete"
    /\ Becomes(r, Resting)
    /\ UNCHANGED <<controlVars, world, proc, handles, registry, counters, history>>

WriteReceipt(r) ==
    /\ rcn[r].pc = "receipt"
    /\ receipt' = IF rcn[r].failed THEN "incomplete" ELSE "complete"
    /\ Becomes(r, Resting)
    /\ UNCHANGED <<controlVars, world, proc, handles, registry, counters, history>>

\* The process dies, or the listing fails and the call with it.
ReconcilerCrashes(r) ==
    /\ rcn[r].pc # "idle" /\ Fault
    /\ Becomes(r, Resting)
    /\ UNCHANGED <<controlVars, world, proc, handles, registry, receipt, history>>

Reconcile(r) ==
    \/ Collect(r)
    \/ \E w \in Workspaces : Archive(r, w)
    \/ \E p \in Pids : Signal(r, p)
    \/ FencedClear(r) \/ ClearTerminal(r) \/ WriteRegistry(r) \/ WriteReceipt(r)

ControllerStep ==
    \/ Execute \/ WriteIntent \/ Authorize \/ UpgradeIntent \/ PatchRecord \/ ClearIntent \/ RegisterWorkspace
    \/ \E w \in Workspaces : CreateWorkspace(w)
    \/ \E p \in Pids : Spawn(p)
    \/ Finish \/ ControllerCrashes

Next ==
    \/ ControllerStep
    \/ Cancel \/ TerminalHook \/ Expire
    \/ \E p \in Pids : ProcessEnds(p) \/ SiblingTakes(p)
    \/ \E r \in Reconcilers : DirectCall(r) \/ Sweep(r) \/ Reconcile(r) \/ ReconcilerCrashes(r)

\* Every start of an operation sweeps, and what has begun goes on somewhere:
\* one reconciliation may stay behind for ever, not all of them.
Fairness == WF_vars(\E r \in Reconcilers : Sweep(r) \/ Reconcile(r))

Spec == Init /\ [][Next]_vars
FairSpec == Spec /\ Fairness

-----------------------------------------------------------------------------

Entries == [Workspaces \cup Pids -> {"absent", "OWNED", "RELEASED"}]
Reconciliation == [pc : {"idle", "collect", "release", "registry", "receipt"}, guarded : BOOLEAN,
                   upd : Entries, listed : BOOLEAN, todo : SUBSET (Workspaces \cup Pids), failed : BOOLEAN]
Places == {"off", "intent", "gate", "create", "upgrade", "patch", "clear", "register", "work", "throw"}

RecordOK ==
    /\ rec \in [status : {"RUNNING", "CANCELLED", "FINISHED"},
               phase : {"active", "cancelled", "UNCERTAIN_EXTERNAL_EFFECTS", "other"},
               flag : BOOLEAN, ws : Workspaces \cup {None}]
    /\ rec.flag => hook = "none" /\ ~Running
FilesOK ==
    /\ intent \in {"absent", "started"} \cup Workspaces /\ gate \in {"none", "claimed"}
    /\ handles \subseteq Pids /\ registry \in Entries /\ receipt \in {"none", "incomplete", "complete"}
WorldOK ==
    /\ world \in [Workspaces -> {"absent", "live", "archived"}]
    /\ proc \in [Pids -> {"free", "own", "sibling"}]
CallsOK ==
    /\ ctl \in [pc : Places, ws : Workspaces \cup {None}] /\ hook \in {"none", "clear", "flag"}
    /\ rcn \in [Reconcilers -> Reconciliation]
    /\ Running => receipt = "none" /\ \A r \in Reconcilers : rcn[r] = Resting
HistoryOK ==
    /\ runs \in 0..MaxRuns /\ faults \in 0..MaxFaults /\ reuse \in 0..MaxReuse
    /\ learned \subseteq Workspaces /\ lost \subseteq Workspaces \cup Pids
    /\ wronged \subseteq Pids /\ unclear \in BOOLEAN

\* The files and the local states are well formed; a flag needs a finished
\* clear, a receipt or a reconciliation a terminal record.
TypeOK == RecordOK /\ FilesOK /\ WorldOK /\ CallsOK /\ HistoryOK

Named(w) == intent = w \/ rec.ws = w \/ registry[w] = "OWNED"

\* Wherever a crash falls, and whichever reconciliations run at the same time,
\* a live workspace whose identity reached a file is named by a file the next
\* reconciliation reads, unless an execution erased it from the record or the
\* controller outlived the end of the operation.
WorkspaceTraced ==
    \A w \in learned \ lost : world[w] = "live" => Named(w)

\* A complete receipt, which ends the sweeps, leaves nothing behind: no
\* workspace the operation learned of and no handle, although another
\* reconciliation may be in the middle of its own.
CompleteMeansGone ==
    receipt = "complete" /\ At("off") =>
        handles \subseteq lost /\ \A w \in learned \ lost : world[w] = "archived"

\* After a cancellation has stopped the processes, no reconciliation signals a
\* number that a sibling operation has taken since, wherever the server died
\* between the transition, the clear and the flag.
FencedRecovery == unclear \/ wronged = {}

\* Once the operation is terminal and its controller is gone, every workspace
\* it can name is archived and stays so, and the handles disappear.
CleanupCompletes ==
    ~Running /\ At("off") ~>
        [](handles \subseteq lost /\ \A w \in learned \ lost : world[w] = "archived")

\* What the controller states when it removes the intent: the record durably
\* proves ownership, so that a workspace of a running operation whose identity
\* was written stays recoverable.
WorkspaceRecoverable ==
    Running => \A w \in learned : world[w] = "live" => Named(w)
=============================================================================
