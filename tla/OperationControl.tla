-------------------------- MODULE OperationControl --------------------------
(***************************************************************************)
(* Pause and resume of an operation (src/operations/state.ts, control.ts,  *)
(* change.ts) together with what a pause must drain: the turns the         *)
(* controller runs in provider sessions under durable write leases         *)
(* (src/runtime/providerLifecycle.ts, supervisorV2.ts, managed.ts).        *)
(*                                                                         *)
(* A pause is asked for in the decision ledger, by any number of people,   *)
(* and applied by the controller at its next checkpoint, once no           *)
(* participant is RUNNING and no lease is ACTIVE or UNCERTAIN.  The ledger,*)
(* the record and the lease table are three files: a controller may stop   *)
(* between any two writes, and the next one starts from what it left.  A   *)
(* provider session is a process of its own: it goes on when its           *)
(* controller dies, and only an observation proves that it is quiet.       *)
(*                                                                         *)
(* The stages with checkpoints run one turn after the other, in one        *)
(* workspace, so one scope of leases is enough; read leases fence nobody   *)
(* here and are left out.  Controllers, sessions and requests are numbered *)
(* in the order in which they come up.                                     *)
(***************************************************************************)
EXTENDS Naturals, FiniteSets

CONSTANTS Controllers,  \* processes that execute the operation
          Sessions,     \* provider sessions
          Roles,        \* durable participant identities
          Actors,       \* people who may pause and resume
          Calls,        \* pause and resume requests
          MaxEpoch,     \* bound on the controller claims
          MaxExec,      \* bound on the execution revisions
          MaxFaults,    \* bound on crashes and failed commands, reads or writes
          Canceller,    \* the owner a cancellation records
          None

ASSUME ControlAssumption ==
    /\ MaxEpoch \in Nat \ {0} /\ MaxExec \in Nat \ {0} /\ MaxFaults \in Nat
    /\ Controllers \cup Sessions \cup Calls \subseteq Nat
    /\ Canceller # None /\ {Canceller, None} \cap Nat = {}
    /\ None \notin [epoch : Nat, exec : Nat]

VARIABLES
    rec,       \* the record: status, phase (PAUSED or any other), epoch, owner,
               \* exec, policy, pause
    part,      \* status of the participant registered for each session
    leases,    \* provider leases of .harness/runtime/snapshot.json
    sess,      \* the provider sessions
    ctl,       \* the controller processes
    dec,       \* the requests and the decisions they leave in the ledger
    launcher,  \* the launcher has yet to write its last patch
    cancel,    \* a cancellation of the operation
    faults,
    excused    \* history: what went wrong that no later drain can see

vars == <<rec, part, leases, sess, ctl, dec, launcher, cancel, faults, excused>>

Terminal == {"SUCCEEDED", "FAILED", "CANCELLED"}
IsTerminal == rec.status \in Terminal

\* currentDecisionBinding
Ident == [epoch |-> rec.epoch, exec |-> rec.exec]

Off == [pc |-> "off", epoch |-> 0, quiet |-> FALSE, call |-> None, role |-> None,
        session |-> None, known |-> FALSE]

Init ==
    /\ rec = [status |-> "QUEUED", phase |-> "active", epoch |-> 1, owner |-> None, exec |-> 1,
              policy |-> FALSE, pause |-> None]
    /\ part = [s \in Sessions |-> "absent"]
    /\ leases = {}
    /\ sess = [s \in Sessions |-> "absent"]
    /\ ctl = [c \in Controllers |-> Off]
    /\ dec = [k \in Calls |-> [st |-> "none"]]
    /\ launcher = TRUE /\ cancel = "none"
    /\ faults = 0 /\ excused = {}

At(c, pc) == ctl[c].pc = pc
Becomes(c, r) == ctl' = [ctl EXCEPT ![c] = r]
Goto(c, pc) == Becomes(c, [ctl[c] EXCEPT !.pc = pc])
Return(c, pc) == Becomes(c, [Off EXCEPT !.pc = pc, !.epoch = ctl[c].epoch])
Stop(c, pc) == Becomes(c, [Off EXCEPT !.pc = pc])
Fault == faults < MaxFaults /\ faults' = faults + 1
Live(c) == ctl[c].pc \notin {"off", "dead", "done"}

\* assertCurrentControllerOwner
Owns(c) == ctl[c].epoch = rec.epoch /\ rec.owner = c

\* requireCurrentOperation of the provider lifecycle.
Current(c) == Owns(c) /\ rec.policy

\* A controller consumes a decision and commits the record under one lock.
Locked == \E c \in Controllers : ctl[c].pc \in {"commitPause", "commitResume"}

OwnerDead ==
    \/ rec.owner \in Controllers /\ ctl[rec.owner].pc \in {"dead", "done"}
    \/ rec.owner = Canceller /\ cancel = "gone"

----------------------------------------------------------------------------
(***************************************************************************)
(* executeOperation.                                                       *)
(***************************************************************************)

\* Mutant: the token is replaced and the epoch kept.
ExecuteUnclaimed(c) ==
    /\ At(c, "off") /\ ~IsTerminal /\ ~Locked
    /\ \A d \in Controllers : d < c => ~At(d, "off")
    /\ rec.owner = None \/ (OwnerDead /\ rec.epoch < MaxEpoch)
    /\ rec' = [rec EXCEPT !.status = "RUNNING", !.owner = c, !.policy = FALSE,
                          !.phase = IF rec.pause = None THEN "active" ELSE "PAUSED"]
    /\ Becomes(c, [Off EXCEPT !.pc = "bind",
                              !.epoch = IF rec.owner = None THEN 1 ELSE rec.epoch + 1])
    /\ launcher' = (launcher /\ rec.owner = None)
    /\ UNCHANGED <<part, leases, sess, dec, cancel, faults, excused>>

\* The first controller inherits the launcher's token; a later one claims the
\* epoch of a dead owner, which drops the policy and makes the launcher's token
\* stale.  The first patch restores PAUSED from the pause record.
Execute(c) ==
    /\ At(c, "off") /\ ~IsTerminal /\ ~Locked
    /\ \A d \in Controllers : d < c => ~At(d, "off")
    /\ rec.owner = None \/ (OwnerDead /\ rec.epoch < MaxEpoch)
    /\ LET e == IF rec.owner = None THEN 1 ELSE rec.epoch + 1
       IN  /\ rec' = [rec EXCEPT !.status = "RUNNING", !.owner = c, !.epoch = e, !.policy = FALSE,
                          !.phase = IF rec.pause = None THEN "active" ELSE "PAUSED"]
           /\ Becomes(c, [Off EXCEPT !.pc = "bind", !.epoch = e])
    /\ excused' = IF \E d \in Controllers : Live(d) THEN excused \cup {"survivor"} ELSE excused
    /\ launcher' = (launcher /\ rec.owner = None)
    /\ UNCHANGED <<part, leases, sess, dec, cancel, faults>>

\* bindBootstrapOperationPolicy, then the record is read again.
Bind(c) ==
    /\ At(c, "bind") /\ ~Locked
    /\ IF Owns(c) THEN /\ rec' = [rec EXCEPT !.policy = TRUE]
                       /\ Goto(c, IF rec.pause = None THEN "work" ELSE "rebind")
                  ELSE Return(c, "fail") /\ UNCHANGED rec
    /\ UNCHANGED <<part, leases, sess, dec, launcher, cancel, faults, excused>>

\* Mutant: a recovered pause keeps the identity it was written under.
RebindNothing(c) ==
    /\ At(c, "rebind") /\ ~Locked
    /\ Goto(c, IF Owns(c) THEN "await" ELSE "fail")
    /\ UNCHANGED <<rec, part, leases, sess, dec, launcher, cancel, faults, excused>>

\* rebindPauseRecordToCurrentIdentity
RebindPause(c) ==
    /\ At(c, "rebind") /\ ~Locked
    /\ IF Owns(c)
       THEN /\ rec' = IF rec.phase = "PAUSED" THEN [rec EXCEPT !.pause = Ident] ELSE rec
            /\ Return(c, "await")
       ELSE Return(c, "fail") /\ UNCHANGED rec
    /\ UNCHANGED <<part, leases, sess, dec, launcher, cancel, faults, excused>>

\* setOperationStage of the next stage writes its name as the phase; authoring
\* may advance the candidate, and with it the execution revision and the policy.
NextStage(c) ==
    /\ At(c, "work") /\ Current(c) /\ ~IsTerminal /\ ~Locked
    /\ \E e \in {rec.exec, rec.exec + 1} :
         e <= MaxExec /\ rec' = [rec EXCEPT !.phase = "active", !.exec = e]
    /\ UNCHANGED <<part, leases, sess, ctl, dec, launcher, cancel, faults, excused>>

\* The catch of executeOperation: the owner ends the operation, whose
\* participants are settled; for anybody else the write is refused.
Fail(c) ==
    /\ At(c, "fail") /\ ~Locked
    /\ IF Owns(c) /\ ~IsTerminal
       THEN /\ rec' = [rec EXCEPT !.status = "FAILED"]
            /\ part' = [s \in Sessions |-> IF part[s] = "absent" THEN "absent" ELSE "terminal"]
       ELSE UNCHANGED <<rec, part>>
    /\ Stop(c, "done")
    /\ UNCHANGED <<leases, sess, dec, launcher, cancel, faults, excused>>

\* A displaced controller, or one whose record is terminal, fails at its next
\* write.
Displaced(c) ==
    /\ At(c, "work") /\ (~Current(c) \/ IsTerminal)
    /\ Return(c, "fail")
    /\ UNCHANGED <<rec, part, leases, sess, dec, launcher, cancel, faults, excused>>

\* The last stage ends and terminalizeOperation commits.
Finish(c) ==
    /\ At(c, "work") /\ Current(c) /\ ~IsTerminal /\ ~Locked
    /\ rec' = [rec EXCEPT !.status = "SUCCEEDED", !.phase = "active"]
    /\ part' = [s \in Sessions |-> IF part[s] = "absent" THEN "absent" ELSE "terminal"]
    /\ Stop(c, "done")
    /\ UNCHANGED <<leases, sess, dec, launcher, cancel, faults, excused>>

Crash(c) ==
    /\ Live(c) /\ Fault
    /\ Stop(c, "dead")
    /\ UNCHANGED <<rec, part, leases, sess, dec, launcher, cancel, excused>>

\* startDetachedOperation patches the phase once the child is spawned, with the
\* token the child has.
LauncherPatches ==
    /\ launcher /\ ~Locked /\ rec.epoch = 1 /\ ~IsTerminal
    /\ launcher' = FALSE
    /\ rec' = [rec EXCEPT !.phase = "active"]
    /\ excused' = IF rec'.pause # None THEN excused \cup {"patched"} ELSE excused
    /\ UNCHANGED <<part, leases, sess, ctl, dec, cancel, faults>>

----------------------------------------------------------------------------
(***************************************************************************)
(* A turn: runWithOperationProviderLease around one provider call.         *)
(***************************************************************************)

\* A turn in a new session, or in one of an earlier turn, whose participant is
\* marked RUNNING unless it is terminal or the write fails, which is ignored.
BeginTurn(c, r, s) ==
    /\ At(c, "work") /\ Current(c) /\ ~IsTerminal /\ ~Locked
    /\ \A t \in Sessions : t < s => sess[t] # "absent"
    /\ \/ /\ part' = IF part[s] = "idle" THEN [part EXCEPT ![s] = "RUNNING"] ELSE part
          /\ UNCHANGED faults
       \/ part[s] = "idle" /\ Fault /\ UNCHANGED part
    /\ Becomes(c, [ctl[c] EXCEPT !.pc = "takeover", !.role = r, !.session = s,
                                 !.known = (sess[s] # "absent")])
    /\ UNCHANGED <<rec, leases, sess, dec, launcher, cancel, excused>>

\* What a turn may take over: the lease of the same participant and revision
\* under an older epoch, whose session is known.
MayTakeOver(c, l) ==
    /\ l.session # None
    /\ l.exec = rec.exec /\ l.role = ctl[c].role /\ l.epoch < ctl[c].epoch
    /\ ctl[c].known => l.session = ctl[c].session

\* Mutant: a session that did not stop counts as stopped.
TakeOverUnseen(c) ==
    /\ At(c, "takeover")
    /\ IF ~Current(c) \/ \E l \in leases : ~MayTakeOver(c, l)
       THEN Goto(c, "endTurn") /\ UNCHANGED leases
       ELSE leases' = {} /\ Goto(c, "acquire")
    /\ UNCHANGED <<rec, part, sess, dec, launcher, cancel, faults, excused>>

\* takeOverPriorLeaseIfQuiescent: any lease of the workspace that may not be
\* taken over ends the turn; the session of another is stopped and observed.
TakeOver(c) ==
    /\ At(c, "takeover")
    /\ IF ~Current(c) \/ \E l \in leases : ~MayTakeOver(c, l)
       THEN Goto(c, "endTurn") /\ UNCHANGED <<sess, faults>>
       ELSE \/ /\ sess' = [s \in Sessions |->
                             IF \E l \in leases : l.session = s THEN "quiet" ELSE sess[s]]
               /\ Goto(c, IF leases = {} THEN "acquire" ELSE "revoke")
               /\ UNCHANGED faults
            \/ /\ \E l \in leases : sess[l.session] = "running"
               /\ Fault /\ Goto(c, "endTurn") /\ UNCHANGED sess
    /\ UNCHANGED <<rec, part, leases, dec, launcher, cancel, excused>>

\* completeProviderLeaseTakeover, after the operation was checked again.
Revoke(c) ==
    /\ At(c, "revoke")
    /\ IF Current(c) /\ \A l \in leases : MayTakeOver(c, l)
       THEN leases' = {} /\ Goto(c, "acquire")
       ELSE Goto(c, "endTurn") /\ UNCHANGED leases
    /\ UNCHANGED <<rec, part, sess, dec, launcher, cancel, faults, excused>>

\* acquireProviderLease: a write lease of another owner fences the workspace,
\* expired or not.  The lease names the session only if the turn knows it.
Acquire(c) ==
    /\ At(c, "acquire")
    /\ IF leases = {}
       THEN /\ leases' = {[by |-> c, epoch |-> ctl[c].epoch, exec |-> rec.exec, role |-> ctl[c].role,
                           session |-> IF ctl[c].known THEN ctl[c].session ELSE None,
                           status |-> "ACTIVE"]}
            /\ Goto(c, "act")
       ELSE Goto(c, "endTurn") /\ UNCHANGED leases
    /\ UNCHANGED <<rec, part, sess, dec, launcher, cancel, faults, excused>>

\* The provider call: the session is created or prompted.
Act(c) ==
    /\ At(c, "act")
    /\ sess' = [sess EXCEPT ![ctl[c].session] = "running"]
    /\ Goto(c, "acting")
    /\ UNCHANGED <<rec, part, leases, dec, launcher, cancel, faults, excused>>

Own(c) == {l \in leases : l.by = c /\ l.epoch = ctl[c].epoch}

\* updateProviderLeaseLifecycle: the lease of the turn names its session.
Named(c) == (leases \ Own(c)) \cup {[l EXCEPT !.session = ctl[c].session] : l \in Own(c)}

\* The call returns, with the session, which is registered as a participant
\* when it is new, and written to the lease if the owner is still current and
\* that write succeeds; or it throws, and a session it created may not be found.
\* A turn whose lease renewal failed leaves everything as it is.
ActEnds(c) ==
    /\ At(c, "acting")
    /\ \/ /\ Becomes(c, [ctl[c] EXCEPT !.pc = "observe", !.known = TRUE])
          /\ part' = IF part[ctl[c].session] = "absent" /\ Owns(c) /\ ~IsTerminal
                     THEN [part EXCEPT ![ctl[c].session] = "idle"] ELSE part
          /\ leases' \in {leases} \cup (IF Current(c) THEN {Named(c)} ELSE {})
          /\ UNCHANGED faults
       \/ Fault /\ Goto(c, "observe") /\ UNCHANGED <<part, leases>>
       \/ Fault /\ Goto(c, "endTurn") /\ UNCHANGED <<part, leases>>
    /\ UNCHANGED <<rec, sess, dec, launcher, cancel, excused>>

\* stopAndObserveQuiescence.  A session that is unknown or does not stop
\* leaves the lease UNCERTAIN; a stale owner leaves it alone.
Observe(c) ==
    /\ At(c, "observe")
    /\ \/ /\ ~Current(c)
          /\ Goto(c, "endTurn") /\ UNCHANGED <<sess, leases, faults>>
       \/ /\ Current(c) /\ ctl[c].known
          /\ sess' = [sess EXCEPT ![ctl[c].session] = "quiet"]
          /\ Goto(c, "release") /\ UNCHANGED <<leases, faults>>
       \/ /\ Current(c)
          /\ IF ctl[c].known THEN sess[ctl[c].session] = "running" /\ Fault ELSE UNCHANGED faults
          /\ leases' = (leases \ Own(c)) \cup
               {[l EXCEPT !.status = "UNCERTAIN",
                          !.session = IF ctl[c].known THEN ctl[c].session ELSE None] : l \in Own(c)}
          /\ Goto(c, "endTurn") /\ UNCHANGED sess
    /\ UNCHANGED <<rec, part, dec, launcher, cancel, excused>>

\* releaseProviderLease, after the operation was checked again.
Release(c) ==
    /\ At(c, "release")
    /\ leases' = IF Current(c) THEN leases \ Own(c) ELSE leases
    /\ Goto(c, "endTurn")
    /\ UNCHANGED <<rec, part, sess, dec, launcher, cancel, faults, excused>>

\* The participant of the turn is COMPLETED or FAILED, or still IDLE after a
\* turn that only created its session; a refused or failed write is ignored.  A
\* failed turn is retried or fails the operation.
EndTurn(c) ==
    /\ At(c, "endTurn") /\ ~Locked
    /\ \/ /\ part' = IF Owns(c) /\ ~IsTerminal /\ part[ctl[c].session] # "absent"
                     THEN [part EXCEPT ![ctl[c].session] = "terminal"] ELSE part
          /\ UNCHANGED faults
       \/ part[ctl[c].session] = "idle" /\ UNCHANGED <<part, faults>>
       \/ part[ctl[c].session] = "RUNNING" /\ Fault /\ UNCHANGED part
    /\ \E pc \in {"work", "fail"} : Return(c, pc)
    /\ UNCHANGED <<rec, leases, sess, dec, launcher, cancel, excused>>

\* A session ends its work by itself.
SessionSettles(s) ==
    /\ sess[s] = "running"
    /\ sess' = [sess EXCEPT ![s] = "quiet"]
    /\ UNCHANGED <<rec, part, leases, ctl, dec, launcher, cancel, faults, excused>>

----------------------------------------------------------------------------
(***************************************************************************)
(* The checkpoint: awaitChangeControlCheckpoint.                           *)
(***************************************************************************)

\* A stage without a turn, or the wait for a product choice, comes to its
\* checkpoint.
ToCheckpoint(c) ==
    /\ At(c, "work")
    /\ Goto(c, "drain")
    /\ UNCHANGED <<rec, part, leases, sess, dec, launcher, cancel, faults, excused>>

Busy(seen) == (\E s \in Sessions : part[s] = "RUNNING") \/ seen # {}

\* Mutant: only leases that report ACTIVE count as writers.
DrainActive(c) ==
    /\ At(c, "drain")
    /\ Becomes(c, [ctl[c] EXCEPT !.pc = "check",
                                 !.quiet = ~Busy({l \in leases : l.status = "ACTIVE"})])
    /\ UNCHANGED <<rec, part, leases, sess, dec, launcher, cancel, faults, excused>>

\* drainOperationWriters returns an empty receipt, or after its deadline the
\* last one.  computeOperationDrainReceipt takes a snapshot it cannot read for
\* one without leases.
Drain(c) ==
    /\ At(c, "drain")
    /\ \/ /\ Becomes(c, [ctl[c] EXCEPT !.pc = "check", !.quiet = ~Busy(leases)])
          /\ UNCHANGED <<faults, excused>>
       \/ /\ leases # {} /\ ~Busy({}) /\ Fault
          /\ Becomes(c, [ctl[c] EXCEPT !.pc = "check", !.quiet = TRUE])
          /\ excused' = excused \cup {"unreadable"}
    /\ UNCHANGED <<rec, part, leases, sess, dec, launcher, cancel>>

\* Mutant: a decision is bound to the operation, not to its identity.
BoundToOperation(k) == TRUE

\* sameHumanDecisionBinding
Bound(k) == dec[k].ident = Ident

\* pendingOperationControl
Pending(cmd) ==
    IF IsTerminal \/ ~rec.policy THEN {}
    ELSE {k \in Calls : dec[k].st = "live" /\ dec[k].cmd = cmd /\ Bound(k)}

Paused == rec.phase = "PAUSED" /\ rec.pause # None

\* pauseOperationIfRequested up to its write: two live requests are an error;
\* without a request, or with a busy receipt, nothing is applied.
Check(c) ==
    /\ At(c, "check")
    /\ LET ks == Pending("PAUSE")
       IN  IF Cardinality(ks) > 1 THEN Return(c, "fail")
           ELSE IF ks = {} \/ ~ctl[c].quiet THEN Return(c, IF Paused THEN "await" ELSE "work")
           ELSE Becomes(c, [ctl[c] EXCEPT !.pc = "pause", !.call = CHOOSE k \in ks : TRUE])
    /\ UNCHANGED <<rec, part, leases, sess, dec, launcher, cancel, faults, excused>>

\* consumeExact refuses an expired or consumed decision.
Consumable(k) == dec[k].st = "live" /\ Bound(k)
Consume(k) == dec' = [dec EXCEPT ![k].st = "consumed"]

\* History: the decision has changed the record.
Applied(k) == dec' = [dec EXCEPT ![k] = [st |-> "applied"]]

\* The write of pauseOperationIfRequested, up to the consumed decision; every
\* refusal fails the operation.
ConsumePause(c) ==
    /\ At(c, "pause") /\ ~Locked
    /\ IF ~Owns(c) \/ rec.status # "RUNNING" THEN Return(c, "fail") /\ UNCHANGED dec
       ELSE IF rec.phase = "PAUSED" \/ rec.pause # None
            THEN Return(c, IF Paused THEN "await" ELSE "work") /\ UNCHANGED dec
       ELSE IF rec.policy /\ Consumable(ctl[c].call)
            THEN Consume(ctl[c].call) /\ Goto(c, "commitPause")
       ELSE Return(c, "fail") /\ UNCHANGED dec
    /\ UNCHANGED <<rec, part, leases, sess, launcher, cancel, faults, excused>>

\* The commit of the PAUSED record.
CommitPause(c) ==
    /\ At(c, "commitPause")
    /\ rec' = [rec EXCEPT !.phase = "PAUSED", !.pause = Ident]
    /\ Applied(ctl[c].call)
    /\ Return(c, "await")
    /\ UNCHANGED <<part, leases, sess, launcher, cancel, faults, excused>>

\* One round of awaitOperationResume: a pause that is gone ends the wait before
\* the owner is checked.
Await(c) ==
    /\ At(c, "await")
    /\ LET ks == Pending("RESUME")
       IN  \/ IsTerminal /\ Return(c, "fail")
           \/ ~IsTerminal /\ ~Paused /\ Return(c, "work")
           \/ /\ ~IsTerminal /\ Paused /\ (~Current(c) \/ Cardinality(ks) > 1)
              /\ Return(c, "fail")
           \/ /\ ~IsTerminal /\ Paused /\ Current(c)
              /\ \E k \in ks :
                    ks = {k} /\ Becomes(c, [ctl[c] EXCEPT !.pc = "resume", !.call = k])
    /\ UNCHANGED <<rec, part, leases, sess, dec, launcher, cancel, faults, excused>>

\* applyOperationResume up to the consumed decision.  A refusal fails the
\* operation unless the pause is gone by then.
ConsumeResume(c) ==
    /\ At(c, "resume") /\ ~Locked
    /\ IF Owns(c) /\ Paused /\ rec.status = "RUNNING" /\ rec.policy /\ rec.pause = Ident
          /\ Consumable(ctl[c].call)
       THEN Consume(ctl[c].call) /\ Goto(c, "commitResume")
       ELSE Return(c, IF Paused THEN "fail" ELSE "work") /\ UNCHANGED dec
    /\ UNCHANGED <<rec, part, leases, sess, launcher, cancel, faults, excused>>

\* The pause is cleared and the saved phase restored.
CommitResume(c) ==
    /\ At(c, "commitResume")
    /\ rec' = [rec EXCEPT !.phase = "active", !.pause = None]
    /\ Applied(ctl[c].call)
    /\ Return(c, "work")
    /\ UNCHANGED <<part, leases, sess, launcher, cancel, faults, excused>>

----------------------------------------------------------------------------
(***************************************************************************)
(* Requests and cancellation.                                              *)
(***************************************************************************)

\* requestOperationPause and requestOperationResume up to the ledger's answer:
\* a live decision of the same person is returned as it is.
Ask(k, a, cmd) ==
    /\ dec[k].st = "none" /\ \A j \in Calls : j < k => dec[j].st # "none"
    /\ rec.status = "RUNNING" /\ rec.policy
    /\ IF cmd = "PAUSE" THEN rec.phase # "PAUSED" /\ rec.pause = None
                        ELSE Paused /\ rec.pause = Ident
    /\ ~\E j \in Pending(cmd) : dec[j].actor = a
    /\ dec' = [dec EXCEPT ![k] = [st |-> "asked", cmd |-> cmd, actor |-> a, ident |-> Ident]]
    /\ UNCHANGED <<rec, part, leases, sess, ctl, launcher, cancel, faults, excused>>

\* The decision is recorded.
Record(k) ==
    /\ dec[k].st = "asked" /\ ~IsTerminal
    /\ dec' = [dec EXCEPT ![k].st = "live"]
    /\ UNCHANGED <<rec, part, leases, sess, ctl, launcher, cancel, faults, excused>>

\* Ten minutes later.
Expire(k) ==
    /\ dec[k].st = "live" /\ ~IsTerminal
    /\ dec' = [dec EXCEPT ![k] = [st |-> "expired"]]
    /\ UNCHANGED <<rec, part, leases, sess, ctl, launcher, cancel, faults, excused>>

\* cancelOperation claims the epoch, which displaces the controller, and binds
\* a policy under it (module OperationCancellation).
CancelClaims ==
    /\ cancel = "none" /\ ~IsTerminal /\ rec.policy /\ ~Locked /\ rec.epoch < MaxEpoch
    /\ cancel' = "claimed"
    /\ rec' = [rec EXCEPT !.owner = Canceller, !.epoch = @ + 1]
    /\ launcher' = FALSE
    /\ UNCHANGED <<part, leases, sess, ctl, dec, faults, excused>>

\* It stops the controllers and the sessions and ends the operation, or reports
\* what it could not stop and leaves the operation RUNNING.
CancelEnds ==
    /\ cancel = "claimed" /\ ~Locked
    /\ \/ /\ rec' = [rec EXCEPT !.status = "CANCELLED", !.phase = "active"]
          /\ ctl' = [c \in Controllers |-> IF Live(c) THEN [Off EXCEPT !.pc = "dead"] ELSE ctl[c]]
          /\ sess' = [s \in Sessions |-> IF sess[s] = "running" THEN "quiet" ELSE sess[s]]
          /\ part' = [s \in Sessions |-> IF part[s] = "absent" THEN "absent" ELSE "terminal"]
          /\ UNCHANGED faults
       \/ /\ rec' = [rec EXCEPT !.phase = "active"]
          /\ Fault /\ UNCHANGED <<ctl, sess, part>>
    /\ cancel' = "over"
    /\ UNCHANGED <<leases, dec, launcher, excused>>

\* The server that ran the cancellation exits, or dies on the way.
CancelServerExits ==
    /\ ~IsTerminal
    /\ \/ cancel = "over" /\ UNCHANGED faults
       \/ cancel = "claimed" /\ Fault
    /\ cancel' = "gone"
    /\ UNCHANGED <<rec, part, leases, sess, ctl, dec, launcher, excused>>

\* What a controller does for a paused operation.
Attend(c) ==
    \/ Bind(c) \/ RebindPause(c) \/ Await(c)
    \/ CommitPause(c) \/ ConsumeResume(c) \/ CommitResume(c)

Work(c) ==
    \/ NextStage(c) \/ Displaced(c) \/ Fail(c) \/ Finish(c)
    \/ \E r \in Roles, s \in Sessions : BeginTurn(c, r, s)
    \/ TakeOver(c) \/ Revoke(c) \/ Acquire(c) \/ Act(c)
    \/ ActEnds(c) \/ Observe(c) \/ Release(c) \/ EndTurn(c)
    \/ ToCheckpoint(c) \/ Drain(c) \/ Check(c) \/ ConsumePause(c)

Next ==
    \/ \E c \in Controllers : Execute(c) \/ Attend(c) \/ Work(c) \/ Crash(c)
    \/ \E s \in Sessions : SessionSettles(s)
    \/ \E k \in Calls : Record(k) \/ Expire(k)
    \/ \E k \in Calls, a \in Actors, cmd \in {"PAUSE", "RESUME"} : Ask(k, a, cmd)
    \/ LauncherPatches \/ CancelClaims \/ CancelEnds \/ CancelServerExits

Spec == Init /\ [][Next]_vars

----------------------------------------------------------------------------
(***************************************************************************)
(* Properties.                                                             *)
(***************************************************************************)

Working == {"work", "takeover", "revoke", "acquire", "act", "acting", "observe", "release",
            "endTurn", "drain", "check", "pause"}
Turn == Working \ {"work", "drain", "check", "pause"}
Pcs == Working \cup {"off", "dead", "done", "bind", "rebind", "fail", "await", "resume",
                     "commitPause", "commitResume"}

Identity == [epoch : 1..MaxEpoch, exec : 1..MaxExec]
Controller == [pc : Pcs, epoch : Nat, quiet : BOOLEAN, call : Calls \cup {None},
               role : Roles \cup {None}, session : Sessions \cup {None}, known : BOOLEAN]
Decision == [st : {"asked", "live", "consumed"}, cmd : {"PAUSE", "RESUME"}, actor : Actors,
             ident : Identity]
            \cup [st : {"none", "expired", "applied"}]

RecordOK ==
    rec \in [status : {"QUEUED", "RUNNING"} \cup Terminal, phase : {"active", "PAUSED"},
            epoch : 1..MaxEpoch, owner : Controllers \cup {Canceller, None}, exec : 1..MaxExec,
            policy : BOOLEAN, pause : Identity \cup {None}]
LeasesOK ==
    leases \subseteq [by : Controllers, epoch : 1..rec.epoch, exec : 1..rec.exec, role : Roles,
                     session : Sessions \cup {None}, status : {"ACTIVE", "UNCERTAIN"}]
ControllersOK ==
    /\ ctl \in [Controllers -> Controller]
    /\ \A c \in Controllers :
          /\ ctl[c].epoch \in 0..rec.epoch /\ (Live(c) => ctl[c].epoch # 0)
          /\ ctl[c].pc \in Turn => ctl[c].role \in Roles /\ ctl[c].session \in Sessions

\* Every variable has its type, and nobody holds an epoch that the record has
\* not reached: neither a controller nor a lease.
TypeOK ==
    /\ RecordOK /\ LeasesOK /\ ControllersOK
    /\ part \in [Sessions -> {"absent", "idle", "RUNNING", "terminal"}]
    /\ sess \in [Sessions -> {"absent", "quiet", "running"}]
    /\ dec \in [Calls -> Decision]
    /\ launcher \in BOOLEAN /\ cancel \in {"none", "claimed", "over", "gone"}
    /\ faults \in 0..MaxFaults
    /\ excused \subseteq {"survivor", "patched", "unreadable"}

RunningSessions == {s \in Sessions : sess[s] = "running"}

\* A PAUSED operation writes nothing: no provider session runs and no
\* participant is RUNNING, also when the pause is one that a later controller
\* found in the record.  Three things can break it, and nothing else: a lease
\* snapshot that could not be read during a drain, the launcher's late patch
\* over a pause, and a controller that survived its own cancellation.  And in
\* every case the owner of a PAUSED record does nothing but wait: it neither
\* runs a stage nor a turn nor a second checkpoint.
PauseDrained ==
    Paused =>
        /\ excused = {} => RunningSessions = {} /\ \A s \in Sessions : part[s] # "RUNNING"
        /\ \A c \in Controllers : Owns(c) => ctl[c].pc \notin Working

\* Two provider sessions never write in the workspace at a time, across crashes,
\* lost sessions, takeovers and failed stops: the lease of a session that was
\* not seen to be quiet stays, and fences every later turn.  A controller that
\* survived its own cancellation is outside of it, since acquireProviderLease
\* does not look at the epoch.
OneWriter == "survivor" \notin excused => Cardinality(RunningSessions) <= 1

\* Whenever the owner waits on a PAUSED record a resume request is possible:
\* the pause names the current identity and the policy is bound.  Otherwise
\* requestOperationResume refuses and the pause would last for ever.
PausedCanResume ==
    Paused => \A c \in Controllers : At(c, "await") /\ Owns(c) => rec.pause = Ident /\ rec.policy

\* The record is paused, and resumed, only by a decision for that command that
\* names the identity of that moment, that was consumed before, and that never
\* changed the record before.
AppliedAsDecided ==
    [][(rec.pause = None) # (rec'.pause = None) =>
         \E k \in Calls :
            /\ dec[k].st = "consumed" /\ dec[k].ident = Ident
            /\ dec[k].cmd = IF rec.pause = None THEN "PAUSE" ELSE "RESUME"
            /\ dec'[k].st = "applied"]_vars
=============================================================================
