-------------------- MODULE TerminalReconciliationProofs --------------------
(***************************************************************************)
(* Proofs about the workspace of an operation and the reconciliations that *)
(* clean up after it, for any number of workspaces, processes,             *)
(* reconciliations, executions, faults and reused numbers.                 *)
(*                                                                         *)
(* The operation creates at most one workspace, because the action gate    *)
(* lets one create through (Single).  A reconciliation works on a copy of  *)
(* the registry and on a listing, both of them older than what it writes:  *)
(* what it still knows of a live workspace (Tracked) is kept although the  *)
(* controller, the hook of a cancellation and other reconciliations go on, *)
(* because after the terminal transition nothing is learned that is not    *)
(* lost (Later).  A cancelled operation has no controller any more and no  *)
(* handle once the flag is set, so that a reconciliation without the guard *)
(* finds no number to signal (Shut, Spared).                               *)
(***************************************************************************)
EXTENDS TerminalReconciliation, TLAPS

Mine == learned \ lost
Created(w) == world[w] # "absent"

\* A cancellation has stopped the processes.
Fenced == rec.phase \in {"cancelled", "UNCERTAIN_EXTERNAL_EFFECTS"}

\* One workspace at most is created, and only a created one is named.
Single ==
    /\ \A v, w \in Workspaces : Created(v) /\ Created(w) => v = w
    /\ gate = "none" \/ At("create") => \A w \in Workspaces : ~Created(w)
    /\ \A w \in Workspaces :
          intent = w \/ rec.ws = w \/ ctl.ws = w \/ w \in learned \/ registry[w] # "absent"
              => Created(w)
    /\ \A w \in Workspaces : registry[w] = "RELEASED" => world[w] = "archived"

\* Where the controller is, and what it has written on the way.
Stepping ==
    /\ At("gate") /\ gate = "none" => intent = "started"
    /\ ctl.pc \in {"create", "upgrade"} => intent = "started" /\ gate = "claimed"
    /\ At("upgrade") => ctl.ws \in Workspaces
    /\ ctl.pc \in {"clear", "register"} => ctl.ws \in Workspaces /\ rec.ws = ctl.ws

\* Before the terminal transition nothing is released and no hook runs.
Early ==
    Running => /\ \A w \in Workspaces : registry[w] # "RELEASED"
               /\ \A p \in Pids : registry[p] = "absent"
               /\ hook = "none" /\ rec.phase = "active"

\* A cancelled operation has no controller; its handles go before its flag.
Shut ==
    Fenced => /\ ~Running /\ At("off")
              /\ rec.phase = "cancelled" => rec.status = "CANCELLED"
              /\ rec.flag \/ hook = "flag" => handles = {}
              /\ unclear \/ \A p \in Pids : registry[p] # "OWNED"

Gone == handles \subseteq lost /\ \A w \in Mine : world[w] = "archived"

Complete == receipt = "complete" => Gone

\* The copy of the registry is no more wrong than the registry, and the
\* listing is one of workspaces.
Copy(r) ==
    /\ rcn[r].pc = "collect" => rcn[r].todo \subseteq Workspaces
    /\ \A w \in Workspaces :
          /\ rcn[r].upd[w] # "absent" \/ w \in rcn[r].todo => Created(w)
          /\ rcn[r].upd[w] = "RELEASED" => world[w] = "archived"

\* What a reconciliation knows of a live workspace, at each of its steps.
Tracked(r) ==
    \A w \in Mine : world[w] = "live" =>
        /\ rcn[r].pc = "collect" =>
              /\ intent = w => w \in rcn[r].todo
              /\ intent = w \/ rec.ws = w \/ rcn[r].upd[w] = "OWNED"
        /\ rcn[r].pc \in {"release", "registry"} => rcn[r].upd[w] = "OWNED"
        /\ rcn[r].pc = "release" => w \in rcn[r].todo \/ rcn[r].failed

Swept(r) == rcn[r].pc \in {"registry", "receipt"} /\ ~rcn[r].failed => Gone

\* Without the guard there is no number left to signal.
Spared(r) ==
    Fenced /\ ~unclear =>
        /\ rcn[r].pc = "collect" =>
              /\ \A p \in Pids : rcn[r].upd[p] # "OWNED"
              /\ rcn[r].guarded \/ rec.flag
        /\ rcn[r].pc = "release" =>
              /\ \A p \in Pids : rcn[r].upd[p] = "OWNED" => p \in rcn[r].todo
              /\ rcn[r].guarded \/ rcn[r].todo \cap Pids = {}
        /\ rcn[r].pc = "registry" => \A p \in Pids : rcn[r].upd[p] # "OWNED"

CallInv(r) == Copy(r) /\ Tracked(r) /\ Swept(r) /\ Spared(r)

ReconcileInv ==
    /\ TypeOK /\ WorkspaceTraced /\ FencedRecovery
    /\ Single /\ Stepping /\ Early /\ Shut /\ Complete
    /\ \A r \in Reconcilers : CallInv(r)

-----------------------------------------------------------------------------
(***************************************************************************)
(* What any step may do once the operation is terminal.                    *)
(***************************************************************************)

Later ==
    /\ Mine' \subseteq Mine
    /\ \A w \in Workspaces : /\ Created(w) => Created(w)'
                             /\ world[w] = "archived" => world'[w] = "archived"
    /\ \A w \in Mine' : world'[w] = "live" =>
          /\ world[w] = "live"
          /\ intent' = w => intent = w
          /\ intent = w \/ rec.ws = w => intent' = w \/ rec'.ws = w
    /\ handles \subseteq lost => handles' \subseteq lost'
    /\ Fenced' => Fenced
    /\ rec.flag => rec'.flag
    /\ unclear => unclear'

LEMMA GoneStays ==
    ASSUME TypeOK, Later, Gone PROVE Gone'
BY DEF TypeOK, HistoryOK, Later, Gone, Mine

LEMMA CallKept ==
    ASSUME ReconcileInv, Later, NEW r \in Reconcilers, rcn'[r] = rcn[r] PROVE CallInv(r)'
<1>1. CallInv(r)
    BY DEF ReconcileInv
<1>2. Copy(r)'
    BY <1>1 DEF CallInv, Copy, Later
<1>3. Tracked(r)'
    BY <1>1 DEF CallInv, Tracked, Later
<1>4. Swept(r)'
    BY <1>1, GoneStays DEF CallInv, Swept, ReconcileInv
<1>5. Spared(r)'
    BY <1>1 DEF CallInv, Spared, Later
<1> QED
    BY <1>2, <1>3, <1>4, <1>5 DEF CallInv

\* A call that rests, or comes to rest.
LEMMA AtRest ==
    ASSUME NEW r \in Reconcilers, rcn'[r] = Resting PROVE CallInv(r)'
<1>1. /\ Resting.pc = "idle" /\ Resting.todo = {}
      /\ \A x \in Workspaces \cup Pids : Resting.upd[x] = "absent"
    BY DEF Resting
<1> HIDE DEF Resting
<1>2. Copy(r)'
    BY <1>1 DEF Copy
<1>3. Tracked(r)' /\ Swept(r)' /\ Spared(r)'
    BY <1>1 DEF Tracked, Swept, Spared
<1> QED
    BY <1>2, <1>3 DEF CallInv

\* A step of somebody who is not a reconciliation: before the terminal
\* transition all of them rest, and after it Later holds.
LEMMA Elsewhere ==
    ASSUME ReconcileInv, UNCHANGED <<rcn, receipt>>, Running \/ Later
    PROVE  Complete' /\ \A r \in Reconcilers : CallInv(r)'
<1>1. CASE Running
    <2>1. receipt = "none" /\ \A r \in Reconcilers : rcn[r] = Resting
        BY <1>1 DEF ReconcileInv, TypeOK, CallsOK
    <2>2. \A r \in Reconcilers : CallInv(r)'
        BY <2>1, AtRest
    <2> QED
        BY <2>1, <2>2 DEF Complete
<1>2. CASE Later
    BY <1>2, CallKept, GoneStays DEF ReconcileInv, Complete
<1> QED
    BY <1>1, <1>2

\* Hence such a step needs to keep only what does not speak about the calls.
LEMMA Passes ==
    ASSUME ReconcileInv, UNCHANGED <<rcn, receipt, wronged, unclear>>, Running \/ Later,
           TypeOK', WorkspaceTraced', Single', Stepping', Early', Shut'
    PROVE  ReconcileInv'
<1>1. Complete' /\ \A r \in Reconcilers : CallInv(r)'
    BY Elsewhere
<1>2. FencedRecovery'
    BY DEF ReconcileInv, FencedRecovery
<1> QED
    BY <1>1, <1>2 DEF ReconcileInv

-----------------------------------------------------------------------------
(***************************************************************************)
(* The controller.  Every step of its own is one of an operation that was  *)
(* not cancelled.                                                          *)
(***************************************************************************)

LEMMA Walks ==
    ASSUME ReconcileInv, ~Fenced', UNCHANGED <<rcn, receipt, wronged, unclear>>, Running \/ Later,
           TypeOK', WorkspaceTraced', Single', Stepping', Early'
    PROVE  ReconcileInv'
BY Passes DEF Shut

\* Where the controller is somewhere, or the operation runs, nothing is fenced.
LEMMA Unfenced ==
    ASSUME ReconcileInv, ~At("off") \/ Running, rec'.phase \in {rec.phase, "other"} PROVE ~Fenced'
BY DEF ReconcileInv, Shut, Fenced

\* Nothing that Later speaks about changes.
LEMMA StaysLater ==
    ASSUME UNCHANGED <<rec, intent, world, handles, learned, lost, unclear>> PROVE Later
BY DEF Later, Mine, Created, Fenced

\* The controller moves on with a fault or without, and what it holds is typed.
LEMMA MovesTyped ==
    ASSUME ReconcileInv, NEW k \in [pc : Places, ws : Workspaces \cup {None}], ctl' = k,
           UNCHANGED <<hook, rcn, receipt, wronged, unclear, proc>>,
           RecordOK', intent' \in {"absent", "started"} \cup Workspaces, gate' \in {"none", "claimed"},
           handles' \subseteq Pids, registry' \in Entries,
           world' \in [Workspaces -> {"absent", "live", "archived"}],
           learned' \subseteq Workspaces, lost' \subseteq Workspaces \cup Pids,
           UNCHANGED counters \/ Fault, Running' => Running
    PROVE  TypeOK'
<1>1. HistoryOK'
    BY ReconciliationAssumption DEF ReconcileInv, TypeOK, HistoryOK, Fault, counters
<1>2. CallsOK' /\ FilesOK' /\ WorldOK'
    BY DEF ReconcileInv, TypeOK, CallsOK, FilesOK, WorldOK
<1> QED
    BY <1>1, <1>2 DEF TypeOK

LEMMA ExecuteKeeps ==
    ASSUME ReconcileInv, Execute PROVE ReconcileInv'
<1> USE DEF Execute, At
<1>1. ~Fenced'
    BY Unfenced
<1>2. TypeOK'
    BY ReconciliationAssumption DEF ReconcileInv, TypeOK, RecordOK, FilesOK, WorldOK, CallsOK, HistoryOK,
       history, Running, Places
<1>3. WorkspaceTraced'
    BY DEF ReconcileInv, WorkspaceTraced, Named, history
<1>4. Single'
    BY ReconciliationAssumption DEF ReconcileInv, Single, Created, history
<1>5. Stepping' /\ Early'
    BY DEF ReconcileInv, Stepping, Early, Running
<1> QED
    BY <1>1, <1>2, <1>3, <1>4, <1>5, Walks DEF history

LEMMA WriteIntentKeeps ==
    ASSUME ReconcileInv, WriteIntent PROVE ReconcileInv'
<1> USE DEF WriteIntent, At, Goto
<1>0. RecordOK /\ FilesOK /\ WorldOK /\ CallsOK /\ HistoryOK /\ RecordOK'
    BY DEF ReconcileInv, TypeOK, RecordOK, Running
<1>1. ~Fenced'
    BY Unfenced
<1>2. TypeOK'
    BY <1>0, MovesTyped DEF FilesOK, WorldOK, CallsOK, HistoryOK, history, counters, Places, Running
<1>3. WorkspaceTraced'
    BY <1>0, ReconciliationAssumption DEF ReconcileInv, WorkspaceTraced, Named, history, HistoryOK
<1>4. Single'
    BY <1>0, ReconciliationAssumption DEF ReconcileInv, Single, Created, history, CallsOK
<1>5. Stepping'
    BY <1>0, ReconciliationAssumption DEF ReconcileInv, Stepping, Single, CallsOK, FilesOK
<1>6. Early'
    BY DEF ReconcileInv, Early, Running
<1>7. Later
    BY <1>0, ReconciliationAssumption DEF Later, Mine, Created, Fenced, history, HistoryOK
<1> QED
    BY <1>1, <1>2, <1>3, <1>4, <1>5, <1>6, <1>7, Walks DEF history

LEMMA AuthorizeKeeps ==
    ASSUME ReconcileInv, Authorize PROVE ReconcileInv'
<1> USE DEF Authorize, At
<1>0. RecordOK /\ FilesOK /\ WorldOK /\ CallsOK /\ HistoryOK /\ RecordOK'
    BY DEF ReconcileInv, TypeOK, RecordOK, Running
<1>m. PICK pc \in {"create", "patch", "throw"} :
          /\ ctl' = [ctl EXCEPT !.pc = pc]
          /\ \/ pc = "create" /\ gate = "none" /\ gate' = "claimed"
             \/ pc # "create" /\ UNCHANGED gate
    BY DEF WithoutWorkspace, Goto
<1>k. ctl'.pc = pc /\ ctl'.ws = ctl.ws
    BY <1>m, <1>0 DEF CallsOK
<1>1. ~Fenced'
    BY Unfenced
<1>2. TypeOK'
    BY <1>0, <1>m, MovesTyped DEF FilesOK, WorldOK, CallsOK, HistoryOK, history, counters, Places, Running
<1>3. WorkspaceTraced'
    BY DEF ReconcileInv, WorkspaceTraced, Named, history
<1>4. Single'
    BY <1>m, <1>k DEF ReconcileInv, Single, Created, history
<1>5. Stepping'
    BY <1>m, <1>k DEF ReconcileInv, Stepping
<1>6. Early'
    BY DEF ReconcileInv, Early, Running
<1>7. Later
    BY StaysLater DEF history
<1> QED
    BY <1>1, <1>2, <1>3, <1>4, <1>5, <1>6, <1>7, Walks DEF history

LEMMA CreateWorkspaceKeeps ==
    ASSUME ReconcileInv, NEW w \in Workspaces, CreateWorkspace(w) PROVE ReconcileInv'
<1> USE DEF CreateWorkspace, At
<1>0. RecordOK /\ FilesOK /\ WorldOK /\ CallsOK /\ HistoryOK /\ RecordOK'
    BY DEF ReconcileInv, TypeOK, RecordOK, Running
<1>m. PICK k \in [pc : {"upgrade", "patch", "throw"}, ws : Workspaces \cup {None}] :
          /\ ctl' = k
          /\ \/ k.ws = ctl.ws /\ k.pc # "upgrade"
             \/ k.ws = w /\ world' = [world EXCEPT ![w] = "live"]
    BY <1>0 DEF WithoutWorkspace, Goto, CallsOK
<1>w. world' = world \/ world' = [world EXCEPT ![w] = "live"]
    OBVIOUS
<1>n. \A v \in Workspaces : ~Created(v)
    BY DEF ReconcileInv, Single
<1>c. \A v \in Workspaces : Created(v)' => v = w /\ world'[w] = "live"
    BY <1>n, <1>w, <1>0 DEF Created, WorldOK
<1>1. ~Fenced'
    BY Unfenced
<1>2. TypeOK'
    BY <1>0, <1>m, <1>w, MovesTyped DEF FilesOK, WorldOK, CallsOK, HistoryOK, history, Places, Running
<1>x. learned = {} /\ intent \notin Workspaces /\ rec.ws \notin Workspaces /\ ctl.ws \notin Workspaces
      /\ \A v \in Workspaces : registry[v] = "absent"
    BY <1>n, <1>0 DEF ReconcileInv, Single, HistoryOK
<1>3. WorkspaceTraced'
    BY <1>x DEF WorkspaceTraced, history
<1>g. gate = "claimed" /\ intent = "started"
    BY DEF ReconcileInv, Stepping
<1>s. ctl'.ws \in Workspaces => ctl'.ws = w /\ Created(w)'
    BY <1>m, <1>x, <1>0 DEF Created, WorldOK
<1>4. Single'
    <2>1. (gate # "none" /\ ctl.pc # "create")'
        BY <1>g, <1>m
    <2>2. (\A u \in Workspaces : intent # u /\ rec.ws # u /\ u \notin learned /\ registry[u] = "absent")'
        BY <1>x DEF history
    <2> QED
        BY <2>1, <2>2, <1>c, <1>s DEF Single
<1>5. Stepping'
    BY <1>m, <1>g DEF Stepping
<1>6. Early'
    BY DEF ReconcileInv, Early, Running
<1>7. Later
    BY <1>x, <1>n, <1>0, <1>w DEF Later, Mine, Created, Fenced, history, WorldOK
<1> QED
    BY <1>1, <1>2, <1>3, <1>4, <1>5, <1>6, <1>7, Walks DEF history

LEMMA UpgradeIntentKeeps ==
    ASSUME ReconcileInv, UpgradeIntent PROVE ReconcileInv'
<1> USE DEF UpgradeIntent, At
<1>0. RecordOK /\ FilesOK /\ WorldOK /\ CallsOK /\ HistoryOK /\ RecordOK'
    BY DEF ReconcileInv, TypeOK, RecordOK, Running
<1>g. ctl.ws \in Workspaces /\ intent = "started" /\ gate = "claimed" /\ Created(ctl.ws)
    BY DEF ReconcileInv, Stepping, Single
<1>m. PICK pc \in {"patch", "throw"} :
          /\ ctl' = [ctl EXCEPT !.pc = pc]
          /\ \/ intent' = ctl.ws /\ learned' = learned \cup {ctl.ws}
             \/ UNCHANGED <<intent, learned>>
    BY <1>g DEF Goto
<1>k. ctl'.pc = pc /\ ctl'.ws = ctl.ws
    BY <1>m, <1>0 DEF CallsOK
<1>1. ~Fenced'
    BY Unfenced
<1>2. TypeOK'
    <2>1. lost' \subseteq Workspaces \cup Pids /\ learned' \subseteq Workspaces
        BY <1>0, <1>m, <1>g DEF HistoryOK
    <2>2. UNCHANGED counters \/ Fault
        OBVIOUS
    <2> QED
        BY <1>0, <1>m, <1>g, <2>1, <2>2, MovesTyped DEF FilesOK, WorldOK, CallsOK, Places, Running
<1>3. WorkspaceTraced'
    BY <1>0, <1>m, <1>g, ReconciliationAssumption DEF ReconcileInv, WorkspaceTraced, Named, HistoryOK
<1>4. Single'
    BY <1>m, <1>k, <1>g, ReconciliationAssumption DEF ReconcileInv, Single, Created
<1>5. Stepping'
    BY <1>m, <1>k, <1>g DEF ReconcileInv, Stepping
<1>6. Early'
    BY DEF ReconcileInv, Early, Running
<1>7. Running \/ Later
    BY <1>0, <1>m, <1>g, ReconciliationAssumption DEF Later, Mine, Created, Fenced, HistoryOK
<1> QED
    BY <1>1, <1>2, <1>3, <1>4, <1>5, <1>6, <1>7, Walks

LEMMA PatchRecordKeeps ==
    ASSUME ReconcileInv, PatchRecord PROVE ReconcileInv'
<1> USE DEF PatchRecord, At
<1>0. RecordOK /\ FilesOK /\ WorldOK /\ CallsOK /\ HistoryOK
    BY DEF ReconcileInv, TypeOK
<1>m. PICK pc \in {"work", "clear", "throw"} :
          /\ ctl' = [ctl EXCEPT !.pc = pc]
          /\ \/ /\ Running /\ rec' = [rec EXCEPT !.ws = ctl.ws] /\ (pc = "clear" => ctl.ws # None)
                /\ lost' = lost \cup {w \in {rec.ws} \ {ctl.ws, None} : intent # w /\ registry[w] = "absent"}
             \/ pc # "clear" /\ UNCHANGED <<rec, lost>>
    BY DEF Goto
<1>k. ctl'.pc = pc /\ ctl'.ws = ctl.ws
    BY <1>m, <1>0 DEF CallsOK
<1>r. rec'.status = rec.status /\ rec'.phase = rec.phase /\ rec'.flag = rec.flag
      /\ rec' \in [status : {"RUNNING", "CANCELLED", "FINISHED"},
                   phase : {"active", "cancelled", "UNCERTAIN_EXTERNAL_EFFECTS", "other"},
                   flag : BOOLEAN, ws : Workspaces \cup {None}]
    BY <1>m, <1>0 DEF RecordOK, CallsOK
<1>o. RecordOK' /\ lost' \subseteq Workspaces \cup Pids
    BY <1>r, <1>m, <1>0 DEF RecordOK, HistoryOK, Running
<1>1. ~Fenced'
    BY <1>r, Unfenced
<1>2. TypeOK'
    <2>1. UNCHANGED counters \/ Fault
        OBVIOUS
    <2> QED
        BY <1>0, <1>m, <1>o, <1>r, <2>1, MovesTyped DEF FilesOK, WorldOK, CallsOK, HistoryOK, Places, Running
<1>3. WorkspaceTraced'
    <2> SUFFICES ASSUME NEW w \in learned' \ lost', world'[w] = "live" PROVE Named(w)'
        BY DEF WorkspaceTraced
    <2>1. w \in Workspaces /\ w # None /\ w \in learned /\ w \notin lost /\ Named(w)
        BY <1>m, <1>0, ReconciliationAssumption DEF ReconcileInv, WorkspaceTraced, HistoryOK
    <2>2. CASE UNCHANGED rec
        BY <2>1, <2>2 DEF Named
    <2>3. CASE Running /\ rec'.ws = ctl.ws
               /\ lost' = lost \cup {v \in {rec.ws} \ {ctl.ws, None} : intent # v /\ registry[v] = "absent"}
        <3>1. registry[w] \in {"absent", "OWNED"}
            BY <2>1, <2>3, <1>0 DEF ReconcileInv, Early, FilesOK, Entries
        <3> QED
            BY <2>1, <2>3, <3>1 DEF Named
    <2> QED
        BY <1>m, <2>2, <2>3, <1>0 DEF RecordOK
<1>4. Single'
    <2>1. \A w \in Workspaces : rec'.ws = w => Created(w)
        BY <1>m, <1>0 DEF ReconcileInv, Single, RecordOK
    <2> QED
        BY <2>1, <1>m, <1>k DEF ReconcileInv, Single, Created
<1>5. Stepping'
    BY <1>m, <1>k, <1>0 DEF Stepping, CallsOK, RecordOK
<1>6. Early'
    BY <1>r DEF ReconcileInv, Early, Running
<1>7. Running \/ Later
    BY <1>m, StaysLater
<1> QED
    BY <1>1, <1>2, <1>3, <1>4, <1>5, <1>6, <1>7, Walks

LEMMA ClearIntentKeeps ==
    ASSUME ReconcileInv, ClearIntent PROVE ReconcileInv'
<1> USE DEF ClearIntent, At, Goto
<1>0. RecordOK /\ FilesOK /\ WorldOK /\ CallsOK /\ HistoryOK /\ RecordOK'
    BY DEF ReconcileInv, TypeOK, RecordOK, Running
<1>k. ctl'.pc = "register" /\ ctl'.ws = ctl.ws /\ intent' \in {"absent", intent}
    BY <1>0 DEF CallsOK
<1>g. ctl.ws \in Workspaces /\ rec.ws = ctl.ws
    BY DEF ReconcileInv, Stepping
\* The record names the only workspace there is.
<1>n. \A w \in Workspaces : intent = w => rec.ws = w
    BY <1>g DEF ReconcileInv, Single
<1>1. ~Fenced'
    BY Unfenced
<1>2. TypeOK'
    BY <1>0, <1>k, MovesTyped DEF FilesOK, WorldOK, CallsOK, HistoryOK, history, Places, Running
<1>3. WorkspaceTraced'
    BY <1>n, <1>0 DEF ReconcileInv, WorkspaceTraced, Named, history, HistoryOK
<1>4. Single'
    BY <1>k, ReconciliationAssumption DEF ReconcileInv, Single, Created, history
<1>5. Stepping'
    BY <1>k, <1>g DEF Stepping
<1>6. Early'
    BY DEF ReconcileInv, Early, Running
<1>7. Later
    BY <1>k, <1>n, <1>0, ReconciliationAssumption DEF Later, Mine, Created, Fenced, history, HistoryOK
<1> QED
    BY <1>1, <1>2, <1>3, <1>4, <1>5, <1>6, <1>7, Walks DEF history

LEMMA RegisterWorkspaceKeeps ==
    ASSUME ReconcileInv, RegisterWorkspace PROVE ReconcileInv'
<1> USE DEF RegisterWorkspace, At
<1>0. RecordOK /\ FilesOK /\ WorldOK /\ CallsOK /\ HistoryOK /\ RecordOK'
    BY DEF ReconcileInv, TypeOK, RecordOK, Running
<1>g. ctl.ws \in Workspaces /\ Created(ctl.ws)
    BY DEF ReconcileInv, Stepping, Single
<1>r. /\ registry' \in Entries
      /\ \A x \in Workspaces \cup Pids :
            \/ registry'[x] = registry[x]
            \/ x = ctl.ws /\ registry[x] = "absent" /\ registry'[x] = "OWNED"
    BY <1>g, <1>0 DEF FilesOK, Entries
<1>1. ~Fenced'
    BY Unfenced
<1>2. TypeOK'
    BY <1>0, <1>r, MovesTyped DEF FilesOK, WorldOK, CallsOK, HistoryOK, history, Places, Running
<1>3. WorkspaceTraced'
    BY <1>r, <1>0 DEF ReconcileInv, WorkspaceTraced, Named, history, HistoryOK
<1>4. Single'
    BY <1>r, <1>g, ReconciliationAssumption DEF ReconcileInv, Single, Created, history
<1>5. Stepping'
    BY DEF Stepping
<1>6. Early'
    BY <1>r, <1>g, ReconciliationAssumption DEF ReconcileInv, Early, Running
<1>7. Later
    BY StaysLater DEF history
<1> QED
    BY <1>1, <1>2, <1>3, <1>4, <1>5, <1>6, <1>7, Walks DEF history

LEMMA SpawnKeeps ==
    ASSUME ReconcileInv, NEW p \in Pids, Spawn(p) PROVE ReconcileInv'
<1> USE DEF Spawn, At, controlVars
<1>0. RecordOK /\ FilesOK /\ WorldOK /\ CallsOK /\ HistoryOK
    BY DEF ReconcileInv, TypeOK
<1>1. ~Fenced'
    BY Unfenced
<1>2. TypeOK'
    <2>1. WorldOK' /\ HistoryOK'
        BY <1>0 DEF WorldOK, HistoryOK, counters
    <2>2. RecordOK' /\ FilesOK' /\ CallsOK'
        BY <1>0 DEF RecordOK, FilesOK, CallsOK, Running
    <2> QED
        BY <2>1, <2>2 DEF TypeOK
<1>l. \A w \in Workspaces : w \in lost' <=> w \in lost
    BY ReconciliationAssumption
<1>3. WorkspaceTraced'
    BY <1>l, <1>0 DEF ReconcileInv, WorkspaceTraced, Named, HistoryOK
<1>4. Single'
    BY DEF ReconcileInv, Single, Created
<1>5. Stepping' /\ Early'
    BY DEF ReconcileInv, Stepping, Early, Running
<1>7. Running \/ Later
    BY <1>l, <1>0 DEF Later, Mine, Created, Fenced, HistoryOK
<1> QED
    BY <1>1, <1>2, <1>3, <1>4, <1>5, <1>7, Walks

LEMMA FinishKeeps ==
    ASSUME ReconcileInv, Finish PROVE ReconcileInv'
<1> USE DEF Finish, At
<1>0. RecordOK /\ FilesOK /\ WorldOK /\ CallsOK /\ HistoryOK
    BY DEF ReconcileInv, TypeOK
<1>r. rec'.ws = rec.ws /\ rec'.flag = rec.flag /\ rec'.phase \in {rec.phase, "other"} /\ ~Running'
    BY <1>0 DEF RecordOK, Running
<1>o. RecordOK'
    BY <1>0, <1>r DEF RecordOK
<1>k. ctl'.pc = "off" /\ ctl'.ws = None
    BY DEF Off
<1>1. ~Fenced'
    BY <1>r, Unfenced
<1>2. TypeOK'
    BY <1>0, <1>o, <1>r, MovesTyped DEF FilesOK, WorldOK, CallsOK, HistoryOK, history, Places, Off
<1>3. WorkspaceTraced'
    BY <1>r DEF ReconcileInv, WorkspaceTraced, Named, history
<1>4. Single'
    BY <1>r, <1>k, ReconciliationAssumption DEF ReconcileInv, Single, Created, history
<1>5. Stepping' /\ Early'
    BY <1>k, <1>r DEF Stepping, Early
<1>7. Running \/ Later
    BY StaysLater DEF history
<1> QED
    BY <1>1, <1>2, <1>3, <1>4, <1>5, <1>7, Walks DEF history

LEMMA ControllerCrashesKeeps ==
    ASSUME ReconcileInv, ControllerCrashes PROVE ReconcileInv'
<1> USE DEF ControllerCrashes, At
<1>0. RecordOK /\ FilesOK /\ WorldOK /\ CallsOK /\ HistoryOK /\ RecordOK'
    BY DEF ReconcileInv, TypeOK, RecordOK, Running
<1>k. ctl'.pc = "off" /\ ctl'.ws = None
    BY DEF Off
<1>1. ~Fenced'
    BY Unfenced
<1>2. TypeOK'
    BY <1>0, MovesTyped DEF FilesOK, WorldOK, CallsOK, HistoryOK, history, Places, Off, Running
<1>3. WorkspaceTraced'
    BY DEF ReconcileInv, WorkspaceTraced, Named, history
<1>4. Single'
    BY <1>k, ReconciliationAssumption DEF ReconcileInv, Single, Created, history
<1>5. Stepping' /\ Early'
    BY <1>k DEF ReconcileInv, Stepping, Early, Running
<1>7. Later
    BY StaysLater DEF history
<1> QED
    BY <1>1, <1>2, <1>3, <1>4, <1>5, <1>7, Walks DEF history

-----------------------------------------------------------------------------
(***************************************************************************)
(* Everyone else who is not a reconciliation.                              *)
(***************************************************************************)

LEMMA CancelKeeps ==
    ASSUME ReconcileInv, Cancel PROVE ReconcileInv'
<1> USE DEF Cancel, At
<1>0. RecordOK /\ FilesOK /\ WorldOK /\ CallsOK /\ HistoryOK
    BY DEF ReconcileInv, TypeOK
<1>r. /\ rec' \in [status : {"RUNNING", "CANCELLED", "FINISHED"},
                   phase : {"active", "cancelled", "UNCERTAIN_EXTERNAL_EFFECTS", "other"},
                   flag : BOOLEAN, ws : Workspaces \cup {None}]
      /\ rec'.ws = rec.ws /\ rec'.flag = FALSE /\ ~Running'
      /\ rec'.phase = "cancelled" => rec'.status = "CANCELLED"
    BY <1>0 DEF RecordOK, Running
<1>k. ctl'.pc = "off" /\ ctl'.ws = None
    BY DEF Off
<1>2. TypeOK'
    <2>1. RecordOK' /\ FilesOK' /\ HistoryOK'
        BY <1>0, <1>r DEF RecordOK, FilesOK, HistoryOK, counters, history
    <2>2. WorldOK' /\ CallsOK'
        BY <1>0, <1>r DEF WorldOK, CallsOK, Off, Places
    <2> QED
        BY <2>1, <2>2 DEF TypeOK
<1>3. WorkspaceTraced'
    BY <1>r DEF ReconcileInv, WorkspaceTraced, Named, history
<1>4. Single'
    BY <1>r, <1>k, ReconciliationAssumption DEF ReconcileInv, Single, Created, history
<1>5. Stepping' /\ Early'
    BY <1>k, <1>r DEF Stepping, Early
<1>6. Shut'
    BY <1>k, <1>r DEF ReconcileInv, Early, Shut
<1> QED
    BY <1>2, <1>3, <1>4, <1>5, <1>6, Passes DEF history

LEMMA ExpireKeeps ==
    ASSUME ReconcileInv, Expire PROVE ReconcileInv'
<1> USE DEF Expire, At
<1>0. RecordOK /\ FilesOK /\ WorldOK /\ CallsOK /\ HistoryOK
    BY DEF ReconcileInv, TypeOK
<1>r. rec'.ws = rec.ws /\ rec'.flag = rec.flag /\ rec'.phase = "other" /\ ~Running'
    BY <1>0 DEF RecordOK, Running
<1>o. RecordOK'
    BY <1>0, <1>r DEF RecordOK
<1>k. (ctl'.pc = "off" /\ ctl'.ws = None) \/ ctl' = ctl
    BY DEF Off
<1>1. ~Fenced'
    BY <1>r DEF Fenced
<1>2. TypeOK'
    <2>1. ctl' \in [pc : Places, ws : Workspaces \cup {None}] /\ (UNCHANGED counters \/ Fault)
        BY <1>0 DEF CallsOK, Off, Places
    <2> QED
        BY <1>0, <1>o, <1>r, <2>1, MovesTyped DEF FilesOK, WorldOK, HistoryOK, history
<1>3. WorkspaceTraced'
    BY <1>r DEF ReconcileInv, WorkspaceTraced, Named, history
<1>4. Single'
    BY <1>r, <1>k, ReconciliationAssumption DEF ReconcileInv, Single, Created, history
<1>5. Stepping'
    BY <1>k, <1>r DEF ReconcileInv, Stepping
<1>6. Early'
    BY <1>r DEF Early
<1> QED
    BY <1>1, <1>2, <1>3, <1>4, <1>5, <1>6, Walks DEF history

LEMMA TerminalHookKeeps ==
    ASSUME ReconcileInv, TerminalHook PROVE ReconcileInv'
<1> USE DEF TerminalHook, At
<1>0. RecordOK /\ FilesOK /\ WorldOK /\ CallsOK /\ HistoryOK
    BY DEF ReconcileInv, TypeOK
<1>n. ~Running
    BY DEF ReconcileInv, Early
<1>r. /\ rec'.ws = rec.ws /\ rec'.phase = rec.phase /\ rec'.status = rec.status
      /\ rec.flag => rec'.flag
      /\ rec'.flag => hook' = "none" /\ (rec.flag \/ hook = "flag")
      /\ handles' \in {{}, handles}
    BY <1>0 DEF RecordOK
<1>2. TypeOK'
    <2>1. RecordOK'
        BY <1>0, <1>r, <1>n DEF RecordOK, Running
    <2>2. HistoryOK'
        BY <1>0, ReconciliationAssumption DEF HistoryOK, Fault, counters, history
    <2>3. FilesOK' /\ WorldOK' /\ CallsOK'
        BY <1>0, <1>r, <1>n DEF FilesOK, WorldOK, CallsOK, Running
    <2> QED
        BY <2>1, <2>2, <2>3 DEF TypeOK
<1>3. WorkspaceTraced'
    BY <1>r DEF ReconcileInv, WorkspaceTraced, Named, history
<1>4. Single'
    BY <1>r DEF ReconcileInv, Single, Created, history
<1>5. Stepping' /\ Early'
    BY <1>r, <1>n DEF ReconcileInv, Stepping, Early, Running
<1>6. Shut'
    <2>1. ASSUME Fenced PROVE (rec.flag \/ hook = "flag" => handles = {})'
        BY <2>1, <1>r DEF ReconcileInv, Shut
    <2> QED
        BY <2>1, <1>r, <1>n DEF ReconcileInv, Shut, Fenced, Running, history
<1>7. Later
    BY <1>r DEF Later, Mine, Created, Fenced, history
<1> QED
    BY <1>2, <1>3, <1>4, <1>5, <1>6, <1>7, Passes DEF history

\* The numbers change hands.
LEMMA NumbersKeep ==
    ASSUME ReconcileInv, NEW p \in Pids, ProcessEnds(p) \/ SiblingTakes(p) PROVE ReconcileInv'
<1>u. /\ UNCHANGED <<rec, intent, gate, ctl, hook, world, handles, registry, receipt, rcn>>
      /\ UNCHANGED <<runs, faults, learned, lost, wronged, unclear>>
      /\ proc' \in {[proc EXCEPT ![p] = "free"], [proc EXCEPT ![p] = "sibling"]}
      /\ reuse' = reuse \/ (reuse < MaxReuse /\ reuse' = reuse + 1)
    BY DEF ProcessEnds, SiblingTakes, controlVars, counters, history
<1>2. TypeOK'
    <2>0. RecordOK /\ FilesOK /\ WorldOK /\ CallsOK /\ HistoryOK
        BY DEF ReconcileInv, TypeOK
    <2>1. RecordOK' /\ FilesOK' /\ CallsOK'
        BY <1>u, <2>0 DEF RecordOK, FilesOK, CallsOK, Running
    <2>2. WorldOK' /\ HistoryOK'
        BY <1>u, <2>0, ReconciliationAssumption DEF WorldOK, HistoryOK
    <2> QED
        BY <2>1, <2>2 DEF TypeOK
<1>3. WorkspaceTraced'
    BY <1>u DEF ReconcileInv, WorkspaceTraced, Named
<1>4. Single'
    BY <1>u DEF ReconcileInv, Single, Created, At
<1>5. Stepping' /\ Early' /\ Shut'
    BY <1>u DEF ReconcileInv, Stepping, Early, Shut, Fenced, Running, At
<1>7. Later
    BY <1>u, StaysLater
<1> QED
    BY <1>u, <1>2, <1>3, <1>4, <1>5, <1>7, Passes

-----------------------------------------------------------------------------
(***************************************************************************)
(* The reconciliations.                                                    *)
(***************************************************************************)

\* A reconciliation that is not at rest is one of a terminal operation.
LEMMA Terminal ==
    ASSUME ReconcileInv, NEW r \in Reconcilers, rcn[r].pc # "idle" PROVE ~Running
BY DEF ReconcileInv, TypeOK, CallsOK, Resting

LEMMA RestingTyped ==
    Resting \in Reconciliation
BY DEF Resting, Reconciliation, Entries

\* The other calls keep what they know because the step is one of Later.
LEMMA Reconciles ==
    ASSUME ReconcileInv, NEW r \in Reconcilers, NEW m \in Reconciliation, Becomes(r, m), ~Running,
           UNCHANGED <<rec, gate, ctl, hook, learned, lost>>, Later,
           FilesOK', WorldOK', HistoryOK', WorkspaceTraced', FencedRecovery', Single', Shut', Complete',
           intent' = intent \/ intent \in Workspaces,
           rcn'[r] = m => CallInv(r)'
    PROVE  ReconcileInv'
<1>1. rcn'[r] = m /\ \A s \in Reconcilers \ {r} : rcn'[s] = rcn[s]
    BY DEF Becomes, ReconcileInv, TypeOK, CallsOK
<1>2. \A s \in Reconcilers : CallInv(s)'
    BY <1>1, CallKept
<1>3. TypeOK'
    <2>1. RecordOK'
        BY DEF ReconcileInv, TypeOK, RecordOK, Running
    <2>2. CallsOK'
        BY DEF ReconcileInv, TypeOK, CallsOK, Becomes, Running
    <2> QED
        BY <2>1, <2>2 DEF TypeOK
<1>4. Stepping' /\ Early'
    BY ReconciliationAssumption DEF ReconcileInv, Stepping, Early, Running, At
<1> QED
    BY <1>2, <1>3, <1>4 DEF ReconcileInv

\* A step that changes no file: the registry is read, or the call ends.
LEMMA LoadKeeps ==
    ASSUME ReconcileInv, NEW r \in Reconcilers, Load(r) PROVE ReconcileInv'
<1> DEFINE m == [Resting EXCEPT
                    !.pc = "collect", !.guarded = Guarded, !.upd = registry, !.listed = (intent # "absent"),
                    !.todo = IF intent = "absent" THEN {} ELSE {w \in Workspaces : world[w] = "live"}]
<1>u. /\ Becomes(r, m) /\ ~Running
      /\ UNCHANGED <<rec, intent, gate, ctl, hook, world, proc, handles, registry, receipt>>
      /\ UNCHANGED <<runs, faults, reuse, learned, lost, wronged, unclear>>
    BY DEF Load, controlVars, counters, history
<1>0. FilesOK /\ WorldOK /\ HistoryOK /\ RecordOK
    BY DEF ReconcileInv, TypeOK
<1>m. /\ m.pc = "collect" /\ m.guarded = Guarded /\ m.upd = registry
      /\ m.todo \subseteq Workspaces
      /\ \A w \in Workspaces : w \in m.todo <=> intent # "absent" /\ world[w] = "live"
    BY DEF Resting
<1>t. m \in Reconciliation
    BY <1>0 DEF Resting, Reconciliation, FilesOK, RecordOK, Guarded
<1> HIDE DEF m
<1>7. Later
    BY <1>u, StaysLater
<1>c. ASSUME rcn'[r] = m PROVE CallInv(r)'
    <2>1. Copy(r)'
        BY <1>c, <1>m, <1>u DEF ReconcileInv, Single, Copy, Created
    <2>2. Tracked(r)'
        BY <1>c, <1>m, <1>u, <1>0, ReconciliationAssumption
           DEF ReconcileInv, WorkspaceTraced, Named, Tracked, Mine, HistoryOK
    <2>3. Swept(r)'
        BY <1>c, <1>m DEF Swept
    <2>4. Spared(r)'
        BY <1>c, <1>m, <1>u DEF ReconcileInv, Spared, Shut, Fenced, Guarded
    <2> QED
        BY <2>1, <2>2, <2>3, <2>4 DEF CallInv
<1>f. FilesOK' /\ WorldOK' /\ HistoryOK'
    BY <1>u, <1>0 DEF FilesOK, WorldOK, HistoryOK
<1>3. WorkspaceTraced' /\ FencedRecovery'
    BY <1>u DEF ReconcileInv, WorkspaceTraced, FencedRecovery, Named
<1>4. Single' /\ Shut' /\ Complete'
    BY <1>u DEF ReconcileInv, Single, Created, Shut, Fenced, Complete, Gone, Mine, At, Running
<1> QED
    BY <1>u, <1>t, <1>7, <1>c, <1>f, <1>3, <1>4, Reconciles

LEMMA ReconcilerCrashesKeeps ==
    ASSUME ReconcileInv, NEW r \in Reconcilers, ReconcilerCrashes(r) PROVE ReconcileInv'
<1>u. /\ Becomes(r, Resting) /\ Fault /\ rcn[r].pc # "idle"
      /\ UNCHANGED <<rec, intent, gate, ctl, hook, world, proc, handles, registry, receipt>>
      /\ UNCHANGED <<learned, lost, wronged, unclear>>
    BY DEF ReconcilerCrashes, controlVars, history
<1>n. ~Running
    BY <1>u, Terminal
<1>0. FilesOK /\ WorldOK /\ HistoryOK
    BY DEF ReconcileInv, TypeOK
<1>7. Later
    BY <1>u, StaysLater
<1>c. rcn'[r] = Resting => CallInv(r)'
    BY AtRest
<1>f. FilesOK' /\ WorldOK' /\ HistoryOK'
    BY <1>u, <1>0, ReconciliationAssumption DEF FilesOK, WorldOK, HistoryOK, Fault
<1>3. WorkspaceTraced' /\ FencedRecovery'
    BY <1>u DEF ReconcileInv, WorkspaceTraced, FencedRecovery, Named
<1>4. Single' /\ Shut' /\ Complete'
    BY <1>u DEF ReconcileInv, Single, Created, Shut, Fenced, Complete, Gone, Mine, At, Running
<1> QED
    BY <1>u, <1>n, RestingTyped, <1>7, <1>c, <1>f, <1>3, <1>4, Reconciles

LEMMA CollectKeeps ==
    ASSUME ReconcileInv, NEW r \in Reconcilers, Collect(r) PROVE ReconcileInv'
<1> DEFINE found == ({rec.ws} \ {None}) \cup Discovered(rcn[r].todo) \cup handles
           upd == [x \in Workspaces \cup Pids |->
                      IF rcn[r].upd[x] = "absent" /\ x \in found THEN "OWNED" ELSE rcn[r].upd[x]]
           m == [rcn[r] EXCEPT !.pc = "release", !.upd = upd, !.listed = FALSE,
                               !.todo = {x \in Workspaces \cup Pids : upd[x] = "OWNED"}]
<1>u. /\ Becomes(r, m) /\ rcn[r].pc = "collect"
      /\ intent' = IF rcn[r].listed /\ intent \in Workspaces \ rcn[r].todo THEN "absent" ELSE intent
      /\ UNCHANGED <<rec, gate, ctl, hook, world, proc, handles, registry, receipt>>
      /\ UNCHANGED <<runs, faults, reuse, learned, lost, wronged, unclear>>
    BY DEF Collect, counters, history
<1>n. ~Running
    BY <1>u, Terminal
<1>0. FilesOK /\ WorldOK /\ HistoryOK /\ RecordOK /\ rcn[r] \in Reconciliation
    BY DEF ReconcileInv, TypeOK, CallsOK
<1>i. CallInv(r)
    BY DEF ReconcileInv
<1>p. upd \in Entries
    BY <1>0 DEF Entries, Reconciliation
<1>q. /\ \A x \in Workspaces \cup Pids :
            upd[x] = IF rcn[r].upd[x] = "absent" /\ x \in found THEN "OWNED" ELSE rcn[r].upd[x]
      /\ \A w \in Workspaces : w \in found <=> rec.ws = w \/ (intent = w /\ w \in rcn[r].todo)
      /\ \A p \in Pids : p \in found <=> p \in handles
    BY <1>0, <1>i, <1>u, ReconciliationAssumption DEF Discovered, FilesOK, RecordOK, CallInv, Copy
<1>z. \A x \in Workspaces \cup Pids : rcn[r].upd[x] \in {"absent", "OWNED", "RELEASED"}
    BY <1>0 DEF Reconciliation, Entries
<1> HIDE DEF upd, found
<1>m. /\ m.pc = "release" /\ m.upd = upd /\ m.guarded = rcn[r].guarded
      /\ m.todo = {x \in Workspaces \cup Pids : upd[x] = "OWNED"}
    BY <1>0 DEF Reconciliation
<1>t. m \in Reconciliation
    BY <1>0, <1>p DEF Reconciliation
<1> HIDE DEF m
\* The listing was taken when the workspace was live, so the intent stays.
<1>k. \A w \in Mine : world[w] = "live" /\ intent = w => intent' = w
    BY <1>u, <1>i DEF CallInv, Tracked
<1>7. Later
    BY <1>u, <1>k, <1>0, ReconciliationAssumption DEF Later, Mine, Created, Fenced, HistoryOK
<1>c. ASSUME rcn'[r] = m PROVE CallInv(r)'
    <2>1. Copy(r)'
        BY <1>c, <1>m, <1>u, <1>i, <1>q DEF ReconcileInv, Single, CallInv, Copy, Created
    <2>2. Tracked(r)'
        <3> SUFFICES ASSUME NEW w \in Mine, world[w] = "live" PROVE upd[w] = "OWNED"
            BY <1>c, <1>m, <1>u, <1>0 DEF Tracked, Mine, HistoryOK
        <3>1. w \in Workspaces
            BY <1>0 DEF Mine, HistoryOK
        <3>2. rcn[r].upd[w] # "RELEASED"
            BY <3>1, <1>i DEF CallInv, Copy
        <3>3. rcn[r].upd[w] = "OWNED" \/ w \in found
            BY <3>1, <1>i, <1>q, <1>u DEF CallInv, Tracked
        <3> QED
            BY <3>1, <3>2, <3>3, <1>q, <1>z
    <2>3. Swept(r)'
        BY <1>c, <1>m DEF Swept
    <2>4. Spared(r)'
        BY <1>c, <1>m, <1>u, <1>i, <1>q DEF ReconcileInv, CallInv, Spared, Shut, Fenced
    <2> QED
        BY <2>1, <2>2, <2>3, <2>4 DEF CallInv
<1>f. FilesOK' /\ WorldOK' /\ HistoryOK'
    BY <1>u, <1>0 DEF FilesOK, WorldOK, HistoryOK
<1>3. WorkspaceTraced' /\ FencedRecovery'
    BY <1>u, <1>k DEF ReconcileInv, WorkspaceTraced, FencedRecovery, Named, Mine
<1>4. Single'
    BY <1>u, ReconciliationAssumption DEF ReconcileInv, Single, Created, At
<1>5. Shut' /\ Complete'
    BY <1>u DEF ReconcileInv, Shut, Fenced, Complete, Gone, Mine, At, Running
<1> QED
    BY <1>u, <1>n, <1>t, <1>7, <1>c, <1>f, <1>3, <1>4, <1>5, Reconciles

\* The call r has dealt with x and becomes m.
Handled(r, x, m) ==
    /\ Becomes(r, m) /\ m.pc = rcn[r].pc /\ m.guarded = rcn[r].guarded /\ m.todo = rcn[r].todo \ {x}
    /\ \A y \in (Workspaces \cup Pids) \ {x} : m.upd[y] = rcn[r].upd[y]

LEMMA ReleasedHandles ==
    ASSUME ReconcileInv, NEW r \in Reconcilers, NEW x \in Workspaces \cup Pids, Released(r, x)
    PROVE  \E m \in Reconciliation :
              Handled(r, x, m) /\ m.upd[x] = "RELEASED" /\ m.failed = rcn[r].failed
<1> DEFINE m == [rcn[r] EXCEPT !.todo = @ \ {x}, !.upd = [@ EXCEPT ![x] = "RELEASED"]]
<1>1. rcn[r] \in Reconciliation
    BY DEF ReconcileInv, TypeOK, CallsOK
<1>2. /\ m \in Reconciliation /\ m.pc = rcn[r].pc /\ m.guarded = rcn[r].guarded
      /\ m.todo = rcn[r].todo \ {x} /\ m.upd[x] = "RELEASED" /\ m.failed = rcn[r].failed
      /\ \A y \in (Workspaces \cup Pids) \ {x} : m.upd[y] = rcn[r].upd[y]
    BY <1>1 DEF Reconciliation, Entries
<1>3. Becomes(r, m)
    BY DEF Released
<1> QED
    BY <1>2, <1>3 DEF Handled

LEMMA FailedHandles ==
    ASSUME ReconcileInv, NEW r \in Reconcilers, NEW x \in Workspaces \cup Pids, Failed(r, x)
    PROVE  \E m \in Reconciliation : Handled(r, x, m) /\ m.upd = rcn[r].upd /\ m.failed
<1> DEFINE m == [rcn[r] EXCEPT !.todo = @ \ {x}, !.failed = TRUE]
<1>1. rcn[r] \in Reconciliation
    BY DEF ReconcileInv, TypeOK, CallsOK
<1>2. /\ m \in Reconciliation /\ m.pc = rcn[r].pc /\ m.guarded = rcn[r].guarded
      /\ m.todo = rcn[r].todo \ {x} /\ m.upd = rcn[r].upd /\ m.failed
    BY <1>1 DEF Reconciliation
<1>3. Becomes(r, m)
    BY DEF Failed
<1> QED
    BY <1>2, <1>3 DEF Handled

LEMMA ArchiveKeeps ==
    ASSUME ReconcileInv, NEW r \in Reconcilers, NEW w \in Workspaces, Archive(r, w) PROVE ReconcileInv'
<1>u. /\ rcn[r].pc = "release" /\ w \in rcn[r].todo
      /\ UNCHANGED counters \/ Fault
      /\ UNCHANGED <<rec, intent, gate, ctl, hook, proc, handles, registry, receipt>>
      /\ UNCHANGED <<learned, lost, wronged, unclear>>
    BY DEF Archive, controlVars, history
<1>m. PICK m \in Reconciliation :
          /\ Handled(r, w, m)
          /\ \/ world' = [world EXCEPT ![w] = "archived"] /\ m.upd[w] = "RELEASED" /\ m.failed = rcn[r].failed
             \/ UNCHANGED world /\ m.upd = rcn[r].upd /\ m.failed
    BY ReleasedHandles, FailedHandles DEF Archive
<1>n. ~Running
    BY <1>u, Terminal
<1>0. FilesOK /\ WorldOK /\ HistoryOK
    BY DEF ReconcileInv, TypeOK
<1>i. CallInv(r)
    BY DEF ReconcileInv
<1>w. /\ Created(w)
      /\ world' \in [Workspaces -> {"absent", "live", "archived"}]
      /\ \A v \in Workspaces : world'[v] = world[v] \/ (v = w /\ world'[v] = "archived")
    BY <1>u, <1>m, <1>i, <1>0 DEF CallInv, Copy, WorldOK
<1>7. Later
    BY <1>u, <1>w, <1>0 DEF Later, Mine, Created, Fenced, HistoryOK
<1>c. ASSUME rcn'[r] = m PROVE CallInv(r)'
    <2>1. Copy(r)'
        BY <1>c, <1>m, <1>u, <1>i, <1>w, <1>0 DEF Handled, CallInv, Copy, Created, WorldOK
    <2>2. Tracked(r)'
        BY <1>c, <1>m, <1>u, <1>i, <1>w, <1>0 DEF Handled, CallInv, Tracked, Mine, HistoryOK, WorldOK
    <2>3. Swept(r)'
        BY <1>c, <1>m, <1>u DEF Handled, Swept
    <2>4. Spared(r)'
        BY <1>c, <1>m, <1>u, <1>i, ReconciliationAssumption DEF Handled, CallInv, Spared, Fenced
    <2> QED
        BY <2>1, <2>2, <2>3, <2>4 DEF CallInv
<1>f. FilesOK' /\ WorldOK' /\ HistoryOK'
    BY <1>u, <1>w, <1>0, ReconciliationAssumption DEF FilesOK, WorldOK, HistoryOK, Fault, counters
<1>3. WorkspaceTraced' /\ FencedRecovery'
    BY <1>u, <1>w, <1>0 DEF ReconcileInv, WorkspaceTraced, FencedRecovery, Named, HistoryOK
<1>4. Single'
    BY <1>u, <1>w, <1>0 DEF ReconcileInv, Single, Created, At, WorldOK
<1>5. Shut'
    BY <1>u DEF ReconcileInv, Shut, Fenced, At, Running
<1>6. Complete'
    BY <1>u, <1>7, GoneStays DEF ReconcileInv, Complete
<1> QED
    BY <1>u, <1>n, <1>m, <1>7, <1>c, <1>f, <1>3, <1>4, <1>5, <1>6, Reconciles DEF Handled

\* In a fenced operation a call that signals would have no number in its list.
LEMMA SignalKeeps ==
    ASSUME ReconcileInv, NEW r \in Reconcilers, NEW p \in Pids, Signal(r, p) PROVE ReconcileInv'
<1>u. /\ rcn[r].pc = "release" /\ p \in rcn[r].todo /\ ~rcn[r].guarded
      /\ UNCHANGED counters \/ Fault
      /\ UNCHANGED <<rec, intent, gate, ctl, hook, world, handles, registry, receipt>>
      /\ UNCHANGED <<learned, lost, unclear>>
      /\ proc' \in {proc, [proc EXCEPT ![p] = "free"]}
      /\ wronged' = wronged \/ (Fenced /\ wronged' = wronged \cup {p})
    BY DEF Signal, controlVars, Fenced
<1>m. PICK m \in Reconciliation :
          /\ Handled(r, p, m)
          /\ \/ m.upd[p] = "RELEASED" /\ m.failed = rcn[r].failed
             \/ m.upd = rcn[r].upd /\ m.failed
    BY ReleasedHandles, FailedHandles DEF Signal
<1>n. ~Running
    BY <1>u, Terminal
<1>0. FilesOK /\ WorldOK /\ HistoryOK
    BY DEF ReconcileInv, TypeOK
<1>i. CallInv(r)
    BY DEF ReconcileInv
<1>s. unclear \/ ~Fenced
    BY <1>u, <1>i DEF CallInv, Spared
<1>7. Later
    BY <1>u, StaysLater
<1>c. ASSUME rcn'[r] = m PROVE CallInv(r)'
    <2>1. Copy(r)'
        BY <1>c, <1>m, <1>u, <1>i, ReconciliationAssumption DEF Handled, CallInv, Copy, Created
    <2>2. Tracked(r)'
        BY <1>c, <1>m, <1>u, <1>i, <1>0, ReconciliationAssumption
           DEF Handled, CallInv, Tracked, Mine, HistoryOK
    <2>3. Swept(r)'
        BY <1>c, <1>m, <1>u DEF Handled, Swept
    <2>4. Spared(r)'
        BY <1>s, <1>u DEF Spared, Fenced
    <2> QED
        BY <2>1, <2>2, <2>3, <2>4 DEF CallInv
<1>f. FilesOK' /\ WorldOK' /\ HistoryOK'
    BY <1>u, <1>0, ReconciliationAssumption DEF FilesOK, WorldOK, HistoryOK, Fault, counters
<1>3. WorkspaceTraced' /\ FencedRecovery'
    BY <1>u, <1>s DEF ReconcileInv, WorkspaceTraced, FencedRecovery, Named
<1>4. Single' /\ Shut' /\ Complete'
    BY <1>u DEF ReconcileInv, Single, Created, Shut, Fenced, Complete, Gone, Mine, At, Running
<1> QED
    BY <1>u, <1>n, <1>m, <1>7, <1>c, <1>f, <1>3, <1>4, Reconciles DEF Handled

\* The handles go, or it is on record that a clear failed.
LEMMA FencedClearKeeps ==
    ASSUME ReconcileInv, NEW r \in Reconcilers, FencedClear(r) PROVE ReconcileInv'
<1>u. /\ rcn[r].pc = "release" /\ rcn[r].guarded /\ rcn[r].todo \subseteq Pids
      /\ UNCHANGED counters \/ Fault
      /\ UNCHANGED <<rec, intent, gate, ctl, hook, world, proc, registry, receipt>>
      /\ UNCHANGED <<learned, lost, wronged>>
      /\ handles' = handles \/ handles' = {}
      /\ unclear' = unclear \/ unclear' = TRUE
    BY DEF FencedClear, controlVars
<1>n. ~Running
    BY <1>u, Terminal
<1>0. FilesOK /\ WorldOK /\ HistoryOK /\ rcn[r] \in Reconciliation
    BY DEF ReconcileInv, TypeOK, CallsOK
<1>m. PICK m \in Reconciliation :
          /\ Becomes(r, m) /\ m.pc = "release" /\ m.guarded /\ m.todo = {}
          /\ \/ /\ m.failed = rcn[r].failed
                /\ \A x \in Workspaces \cup Pids :
                      m.upd[x] = IF x \in rcn[r].todo THEN "RELEASED" ELSE rcn[r].upd[x]
             \/ m.upd = rcn[r].upd /\ m.failed /\ unclear'
    <2> DEFINE good == [rcn[r] EXCEPT !.todo = {},
                           !.upd = [x \in Workspaces \cup Pids |->
                                       IF x \in rcn[r].todo THEN "RELEASED" ELSE @[x]]]
               bad == [rcn[r] EXCEPT !.todo = {}, !.failed = TRUE]
    <2>1. /\ good \in Reconciliation /\ good.pc = "release" /\ good.guarded /\ good.todo = {}
          /\ good.failed = rcn[r].failed
          /\ \A x \in Workspaces \cup Pids :
                good.upd[x] = IF x \in rcn[r].todo THEN "RELEASED" ELSE rcn[r].upd[x]
        BY <1>0, <1>u DEF Reconciliation, Entries
    <2>2. /\ bad \in Reconciliation /\ bad.pc = "release" /\ bad.guarded /\ bad.todo = {}
          /\ bad.failed /\ bad.upd = rcn[r].upd
        BY <1>0, <1>u DEF Reconciliation
    <2>3. Becomes(r, good) \/ (Becomes(r, bad) /\ unclear')
        BY DEF FencedClear
    <2> HIDE DEF good, bad
    <2> QED
        BY <2>1, <2>2, <2>3
<1>i. CallInv(r)
    BY DEF ReconcileInv
<1>7. Later
    BY <1>u DEF Later, Mine, Created, Fenced
<1>c. ASSUME rcn'[r] = m PROVE CallInv(r)'
    <2>1. Copy(r)'
        BY <1>c, <1>m, <1>u, <1>i, ReconciliationAssumption DEF CallInv, Copy, Created
    <2>2. Tracked(r)'
        BY <1>c, <1>m, <1>u, <1>i, <1>0, ReconciliationAssumption DEF CallInv, Tracked, Mine, HistoryOK
    <2>3. Swept(r)'
        BY <1>c, <1>m DEF Swept
    <2>4. Spared(r)'
        BY <1>c, <1>m, <1>u, <1>i DEF CallInv, Spared, Fenced
    <2> QED
        BY <2>1, <2>2, <2>3, <2>4 DEF CallInv
<1>f. FilesOK' /\ WorldOK' /\ HistoryOK'
    <2>1. unclear' \in BOOLEAN
        BY <1>u, <1>0 DEF HistoryOK
    <2>2. FilesOK' /\ WorldOK'
        BY <1>u, <1>0 DEF FilesOK, WorldOK
    <2>3. (runs \in 0..MaxRuns /\ faults \in 0..MaxFaults /\ reuse \in 0..MaxReuse)'
        BY <1>u, <1>0, ReconciliationAssumption DEF HistoryOK, Fault, counters
    <2> QED
        BY <2>1, <2>2, <2>3, <1>u, <1>0 DEF HistoryOK
<1>3. WorkspaceTraced' /\ FencedRecovery'
    BY <1>u DEF ReconcileInv, WorkspaceTraced, FencedRecovery, Named
<1>4. Single' /\ Shut'
    BY <1>u DEF ReconcileInv, Single, Created, Shut, Fenced, At, Running
<1>5. Complete'
    BY <1>u, <1>7, GoneStays DEF ReconcileInv, Complete
<1> QED
    BY <1>u, <1>n, <1>m, <1>7, <1>c, <1>f, <1>3, <1>4, <1>5, Reconciles

\* What is still live has failed, so a call without failure has swept it all.
LEMMA ClearTerminalKeeps ==
    ASSUME ReconcileInv, NEW r \in Reconcilers, ClearTerminal(r) PROVE ReconcileInv'
<1>u. /\ rcn[r].pc = "release" /\ rcn[r].todo = {}
      /\ UNCHANGED counters \/ Fault
      /\ UNCHANGED <<rec, intent, gate, ctl, hook, world, proc, registry, receipt>>
      /\ UNCHANGED <<learned, lost, wronged>>
      /\ handles' = handles \/ handles' = {}
      /\ unclear' = unclear \/ unclear' = TRUE
    BY DEF ClearTerminal, controlVars
<1>n. ~Running
    BY <1>u, Terminal
<1>0. FilesOK /\ WorldOK /\ HistoryOK /\ rcn[r] \in Reconciliation
    BY DEF ReconcileInv, TypeOK, CallsOK
<1>m. PICK m \in Reconciliation :
          /\ Becomes(r, m) /\ m.pc = "registry" /\ m.todo = {} /\ m.upd = rcn[r].upd
          /\ (m.failed = rcn[r].failed /\ handles' = {}) \/ (m.failed /\ unclear')
    <2> DEFINE good == [rcn[r] EXCEPT !.pc = "registry", !.guarded = FALSE]
               bad == [rcn[r] EXCEPT !.pc = "registry", !.guarded = FALSE, !.failed = TRUE]
    <2>1. /\ good \in Reconciliation /\ good.pc = "registry" /\ good.todo = {}
          /\ good.failed = rcn[r].failed /\ good.upd = rcn[r].upd
        BY <1>0, <1>u DEF Reconciliation
    <2>2. /\ bad \in Reconciliation /\ bad.pc = "registry" /\ bad.todo = {}
          /\ bad.failed /\ bad.upd = rcn[r].upd
        BY <1>0, <1>u DEF Reconciliation
    <2>3. (Becomes(r, good) /\ handles' = {}) \/ (Becomes(r, bad) /\ unclear')
        BY DEF ClearTerminal
    <2> HIDE DEF good, bad
    <2> QED
        BY <2>1, <2>2, <2>3
<1>i. CallInv(r)
    BY DEF ReconcileInv
<1>7. Later
    BY <1>u DEF Later, Mine, Created, Fenced
<1>c. ASSUME rcn'[r] = m PROVE CallInv(r)'
    <2>1. Copy(r)'
        BY <1>c, <1>m, <1>u, <1>i DEF CallInv, Copy, Created
    <2>2. Tracked(r)'
        BY <1>c, <1>m, <1>u, <1>i DEF CallInv, Tracked, Mine
    <2>3. Swept(r)'
        <3> SUFFICES ASSUME ~m.failed PROVE Gone'
            BY <1>c DEF Swept
        <3>1. ~rcn[r].failed /\ handles' = {}
            BY <1>m
        <3>2. \A w \in Mine : world[w] # "live" /\ Created(w) /\ w \in Workspaces
            BY <3>1, <1>u, <1>i, <1>0 DEF CallInv, Tracked, ReconcileInv, Single, Mine, HistoryOK
        <3> QED
            BY <3>1, <3>2, <1>u, <1>0 DEF Gone, Mine, Created, WorldOK
    <2>4. Spared(r)'
        BY <1>c, <1>m, <1>u, <1>i DEF CallInv, Spared, Fenced
    <2> QED
        BY <2>1, <2>2, <2>3, <2>4 DEF CallInv
<1>f. FilesOK' /\ WorldOK' /\ HistoryOK'
    <2>1. unclear' \in BOOLEAN
        BY <1>u, <1>0 DEF HistoryOK
    <2>2. FilesOK' /\ WorldOK'
        BY <1>u, <1>0 DEF FilesOK, WorldOK
    <2>3. (runs \in 0..MaxRuns /\ faults \in 0..MaxFaults /\ reuse \in 0..MaxReuse)'
        BY <1>u, <1>0, ReconciliationAssumption DEF HistoryOK, Fault, counters
    <2> QED
        BY <2>1, <2>2, <2>3, <1>u, <1>0 DEF HistoryOK
<1>3. WorkspaceTraced' /\ FencedRecovery'
    BY <1>u DEF ReconcileInv, WorkspaceTraced, FencedRecovery, Named
<1>4. Single' /\ Shut'
    BY <1>u DEF ReconcileInv, Single, Created, Shut, Fenced, At, Running
<1>5. Complete'
    BY <1>u, <1>7, GoneStays DEF ReconcileInv, Complete
<1> QED
    BY <1>u, <1>n, <1>m, <1>7, <1>c, <1>f, <1>3, <1>4, <1>5, Reconciles

\* The copy replaces the registry: it has what is live, and no more than is so.
LEMMA WriteRegistryKeeps ==
    ASSUME ReconcileInv, NEW r \in Reconcilers, WriteRegistry(r) PROVE ReconcileInv'
<1> DEFINE m == [rcn[r] EXCEPT !.pc = "receipt", !.upd = Resting.upd]
<1>u. /\ Becomes(r, m) /\ rcn[r].pc = "registry" /\ registry' = rcn[r].upd
      /\ UNCHANGED <<rec, intent, gate, ctl, hook, world, proc, handles, receipt>>
      /\ UNCHANGED <<runs, faults, reuse, learned, lost, wronged, unclear>>
    BY DEF WriteRegistry, controlVars, counters, history
<1>n. ~Running
    BY <1>u, Terminal
<1>0. FilesOK /\ WorldOK /\ HistoryOK /\ rcn[r] \in Reconciliation
    BY DEF ReconcileInv, TypeOK, CallsOK
<1>i. CallInv(r)
    BY DEF ReconcileInv
<1>e. Resting.upd \in Entries /\ \A x \in Workspaces \cup Pids : Resting.upd[x] = "absent"
    BY DEF Resting, Entries
<1> HIDE DEF Resting
<1>m. /\ m \in Reconciliation /\ m.pc = "receipt" /\ m.failed = rcn[r].failed /\ m.todo = rcn[r].todo
      /\ m.upd = Resting.upd
    BY <1>0, <1>e DEF Reconciliation
<1> HIDE DEF m
<1>7. Later
    BY <1>u, StaysLater
<1>c. ASSUME rcn'[r] = m PROVE CallInv(r)'
    <2>1. Copy(r)'
        BY <1>c, <1>m, <1>u, <1>i, <1>e DEF CallInv, Copy, Created
    <2>2. Tracked(r)' /\ Spared(r)'
        BY <1>c, <1>m DEF Tracked, Spared
    <2>3. Swept(r)'
        BY <1>c, <1>m, <1>u, <1>i, <1>7, GoneStays DEF ReconcileInv, CallInv, Swept
    <2> QED
        BY <2>1, <2>2, <2>3 DEF CallInv
<1>f. FilesOK' /\ WorldOK' /\ HistoryOK'
    BY <1>u, <1>0 DEF FilesOK, WorldOK, HistoryOK, Reconciliation
<1>3. WorkspaceTraced' /\ FencedRecovery'
    BY <1>u, <1>i DEF ReconcileInv, CallInv, Tracked, WorkspaceTraced, FencedRecovery, Named, Mine
<1>4. Single'
    BY <1>u, <1>i DEF ReconcileInv, CallInv, Copy, Single, Created, At
<1>5. Shut'
    BY <1>u, <1>i DEF ReconcileInv, CallInv, Spared, Shut, Fenced, At, Running
<1>6. Complete'
    BY <1>u, <1>7, GoneStays DEF ReconcileInv, Complete
<1> QED
    BY <1>u, <1>n, <1>m, <1>7, <1>c, <1>f, <1>3, <1>4, <1>5, <1>6, Reconciles

LEMMA WriteReceiptKeeps ==
    ASSUME ReconcileInv, NEW r \in Reconcilers, WriteReceipt(r) PROVE ReconcileInv'
<1>u. /\ Becomes(r, Resting) /\ rcn[r].pc = "receipt"
      /\ receipt' = IF rcn[r].failed THEN "incomplete" ELSE "complete"
      /\ UNCHANGED <<rec, intent, gate, ctl, hook, world, proc, handles, registry>>
      /\ UNCHANGED <<runs, faults, reuse, learned, lost, wronged, unclear>>
    BY DEF WriteReceipt, controlVars, counters, history
<1>n. ~Running
    BY <1>u, Terminal
<1>0. FilesOK /\ WorldOK /\ HistoryOK
    BY DEF ReconcileInv, TypeOK
<1>7. Later
    BY <1>u, StaysLater
<1>c. rcn'[r] = Resting => CallInv(r)'
    BY AtRest
<1>f. FilesOK' /\ WorldOK' /\ HistoryOK'
    BY <1>u, <1>0 DEF FilesOK, WorldOK, HistoryOK
<1>3. WorkspaceTraced' /\ FencedRecovery'
    BY <1>u DEF ReconcileInv, WorkspaceTraced, FencedRecovery, Named
<1>4. Single' /\ Shut'
    BY <1>u DEF ReconcileInv, Single, Created, Shut, Fenced, At, Running
<1>5. Complete'
    BY <1>u, <1>7, GoneStays DEF ReconcileInv, CallInv, Swept, Complete
<1> QED
    BY <1>u, <1>n, RestingTyped, <1>7, <1>c, <1>f, <1>3, <1>4, <1>5, Reconciles

-----------------------------------------------------------------------------
(***************************************************************************)
(* The theorems.                                                           *)
(***************************************************************************)

LEMMA InitReconciles ==
    Init => ReconcileInv
<1> SUFFICES ASSUME Init PROVE ReconcileInv
    OBVIOUS
<1>1. TypeOK
    <2>1. RecordOK /\ FilesOK /\ WorldOK
        BY DEF Init, RecordOK, FilesOK, WorldOK, Entries
    <2>2. CallsOK /\ HistoryOK
        <3>1. rcn \in [Reconcilers -> Reconciliation] /\ \A r \in Reconcilers : rcn[r] = Resting
            BY RestingTyped DEF Init
        <3>2. HistoryOK
            <4>1. runs = 0 /\ faults = 0 /\ reuse = 0 /\ learned = {} /\ lost = {} /\ wronged = {}
                  /\ unclear = FALSE
                BY DEF Init
            <4>2. runs \in 0..MaxRuns /\ faults \in 0..MaxFaults /\ reuse \in 0..MaxReuse
                BY <4>1, ReconciliationAssumption
            <4>3. unclear \in BOOLEAN
                BY <4>1
            <4> QED
                BY <4>1, <4>2, <4>3 DEF HistoryOK
        <3> QED
            BY <3>1, <3>2 DEF Init, CallsOK, Off, Places
    <2> QED
        BY <2>1, <2>2 DEF TypeOK
<1>2. WorkspaceTraced /\ FencedRecovery /\ Complete
    BY DEF Init, WorkspaceTraced, FencedRecovery, Complete
<1>3. Single
    BY ReconciliationAssumption DEF Init, Single, Created, Off, At
<1>4. Stepping /\ Early /\ Shut
    BY DEF Init, Stepping, Early, Shut, Fenced, Off, At
<1>5. ASSUME NEW r \in Reconcilers PROVE CallInv(r)
    <2>1. Resting.pc = "idle" /\ Resting.todo = {} /\ rcn[r] = Resting
          /\ \A w \in Workspaces : Resting.upd[w] = "absent"
        BY DEF Init, Resting
    <2> HIDE DEF Resting
    <2> QED
        BY <2>1 DEF CallInv, Copy, Tracked, Swept, Spared
<1> QED
    BY <1>1, <1>2, <1>3, <1>4, <1>5 DEF ReconcileInv

LEMMA StutterReconciles ==
    ASSUME ReconcileInv, UNCHANGED vars PROVE ReconcileInv'
<1> USE DEF vars, controlVars, counters, history
<1>1. TypeOK'
    BY DEF ReconcileInv, TypeOK, RecordOK, FilesOK, WorldOK, CallsOK, HistoryOK, Running
<1>2. WorkspaceTraced' /\ Single'
    BY DEF ReconcileInv, WorkspaceTraced, Named, Single, Created, At
<1>3. Stepping' /\ Early' /\ Shut'
    BY DEF ReconcileInv, Stepping, Early, Shut, Fenced, Running, At
<1> QED
    BY <1>1, <1>2, <1>3, StaysLater, Passes

LEMMA NextReconciles ==
    ReconcileInv /\ [Next]_vars => ReconcileInv'
<1> SUFFICES ASSUME ReconcileInv, [Next]_vars PROVE ReconcileInv'
    OBVIOUS
<1>1. CASE ControllerStep
    BY <1>1, ExecuteKeeps, WriteIntentKeeps, AuthorizeKeeps, CreateWorkspaceKeeps, UpgradeIntentKeeps,
       PatchRecordKeeps, ClearIntentKeeps, RegisterWorkspaceKeeps, SpawnKeeps, FinishKeeps,
       ControllerCrashesKeeps DEF ControllerStep
<1>2. CASE Cancel \/ TerminalHook \/ Expire
    BY <1>2, CancelKeeps, TerminalHookKeeps, ExpireKeeps
<1>3. CASE \E p \in Pids : ProcessEnds(p) \/ SiblingTakes(p)
    BY <1>3, NumbersKeep
<1>4. ASSUME NEW r \in Reconcilers, DirectCall(r) \/ Sweep(r) \/ Reconcile(r) \/ ReconcilerCrashes(r)
      PROVE  ReconcileInv'
    <2>1. CASE DirectCall(r) \/ Sweep(r)
        BY <2>1, LoadKeeps DEF DirectCall, Sweep
    <2>2. CASE Reconcile(r)
        BY <2>2, CollectKeeps, ArchiveKeeps, SignalKeeps, FencedClearKeeps, ClearTerminalKeeps,
           WriteRegistryKeeps, WriteReceiptKeeps DEF Reconcile
    <2> QED
        BY <1>4, <2>1, <2>2, ReconcilerCrashesKeeps
<1>5. CASE UNCHANGED vars
    BY <1>5, StutterReconciles
<1> QED
    BY <1>1, <1>2, <1>3, <1>4, <1>5 DEF Next

\* ReconcileInv is an inductive invariant of the workspace's life.
THEOREM ReconcileHolds == Spec => []ReconcileInv
<1> QED
    BY InitReconciles, NextReconciles, PTL DEF Spec

\* The files and the local states of the controller, the terminal hook and the
\* reconciliations stay well formed; the cleanup flag needs a finished clear,
\* and a receipt or a reconciliation a terminal record.
THEOREM ReconciliationTypes == Spec => []TypeOK
<1>1. ReconcileInv => TypeOK
    BY DEF ReconcileInv
<1> QED
    BY <1>1, ReconcileHolds, PTL

\* A live workspace whose identity ensureOperationWorkspace wrote down is named
\* by the intent, the record or the registry, wherever a crash falls and
\* however the unlocked registry writes of reconcileOperationResources
\* interleave, unless an execution erased it or the controller came late.
THEOREM WorkspaceStaysTraced == Spec => []WorkspaceTraced
<1>1. ReconcileInv => WorkspaceTraced
    BY DEF ReconcileInv
<1> QED
    BY <1>1, ReconcileHolds, PTL

\* The complete receipt, on which reconcileTerminalOperationResources stops its
\* sweeps, is written only when no handle and no workspace is left, and nothing
\* that happens later makes it wrong.
THEOREM CompleteReceiptIsTrue == Spec => []CompleteMeansGone
<1>1. ReconcileInv => CompleteMeansGone
    BY DEF ReconcileInv, Complete, Gone, Mine, CompleteMeansGone
<1> QED
    BY <1>1, ReconcileHolds, PTL

\* After a cancellation no reconciliation signals a number that a sibling has
\* taken, wherever the server died in clearCancelProcessHandles.
THEOREM SiblingsUnharmed == Spec => []FencedRecovery
<1>1. ReconcileInv => FencedRecovery
    BY DEF ReconcileInv
<1> QED
    BY <1>1, ReconcileHolds, PTL

=============================================================================
