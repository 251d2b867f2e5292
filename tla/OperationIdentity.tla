------------------------- MODULE OperationIdentity -------------------------
(***************************************************************************)
(* The execution identity of one durable operation record                  *)
(* (src/operations/state.ts): who controls it (epoch and token), on which  *)
(* candidate and execution revision it works, under which frozen policy,   *)
(* and which sessions are bound to that identity.                          *)
(*                                                                         *)
(* Every action is one mutateOperation call: read, check, commit, all      *)
(* under the operation lock (module OperationLock).  What a process reads  *)
(* outside the lock and uses later - the identity it compiles a policy, a  *)
(* candidate or a session binding against - is its view, and may be stale. *)
(***************************************************************************)
EXTENDS Naturals, FiniteSets

CONSTANTS Procs,        \* processes that may act as controllers
          Sessions,     \* agent sessions of the operation
          Supervisors,  \* the sessions with the role Operation Supervisor
          Digests,      \* execution semantics digests
          MaxEpoch,     \* bound: controller claims explored
          MaxExec,      \* bound: execution revisions explored
          RootDeadline, \* whether the operation's origin carries a hard deadline
          None

Policy == [exec : Nat, cand : Nat, epoch : Nat, provisional : BOOLEAN]
View   == [exec : Nat, cand : Nat, epoch : Nat, policy : Policy \cup {None}]

ASSUME SupervisorsAssumption == Supervisors \subseteq Sessions
ASSUME BoundsAssumption == MaxEpoch \in Nat /\ MaxExec \in Nat \ {0}
ASSUME RootDeadlineAssumption == RootDeadline \in BOOLEAN
ASSUME NoneAssumption == None \notin Procs \cup Digests \cup Policy \cup View

VARIABLES status,      \* OperationStatus
          epoch,       \* controller.epoch; 0 when nobody has claimed
          ownerPid,    \* controller.pid
          ownerKind,   \* controller.ownerId: "none", "controller" or "cancel"
          exec,        \* operationExecutionRevision
          cand,        \* candidateRevision.revision
          semantics,   \* executionSemanticsDigest
          policy,      \* resolvedOperationPolicy
          registered,  \* keys of participants and agents
          binding,     \* executionBinding of each session
          proc,        \* "new", "live" or "dead"
          parent,      \* the process that spawned a detached controller
          held,        \* AEH_CONTROLLER_EPOCH and _TOKEN of a process
          view         \* the identity a process last read

record == <<status, epoch, ownerPid, ownerKind, exec, cand, semantics, policy,
            registered, binding>>
world  == <<proc, parent, held, view>>
vars   == <<status, epoch, ownerPid, ownerKind, exec, cand, semantics, policy,
            registered, binding, proc, parent, held, view>>

\* CANCELLED is counted as FAILED: endings are told apart only so that one
\* replacing another shows, and transitionOperationToTerminal takes any of them.
TerminalStatus == {"SUCCEEDED", "FAILED"}
Participants   == Sessions \ Supervisors

TypeOK ==
    /\ status \in {"QUEUED", "RUNNING"} \cup TerminalStatus
    /\ epoch \in 0..MaxEpoch
    /\ ownerPid \in Procs \cup {None}
    /\ ownerKind \in {"none", "controller", "cancel"}
    /\ exec \in 1..MaxExec
    /\ cand \in 1..exec
    /\ semantics \in Digests \cup {None}
    /\ policy \in Policy \cup {None}
    /\ registered \in SUBSET Sessions
    /\ binding \in [Sessions -> View \cup {None}]
    /\ proc \in [Procs -> {"new", "live", "dead"}]
    /\ parent \in [Procs -> Procs \cup {None}]
    /\ held \in [Procs -> 0..epoch]
    /\ view \in [Procs -> View \cup {None}]

\* saveOperation: a record is created QUEUED at execution revision 1 with the
\* candidate of its source tree, and nobody owns it.
Init ==
    /\ status = "QUEUED"
    /\ epoch = 0 /\ ownerPid = None /\ ownerKind = "none"
    /\ exec = 1 /\ cand = 1
    /\ semantics = None /\ policy = None
    /\ registered = {} /\ binding = [s \in Sessions |-> None]
    /\ proc = [p \in Procs |-> "new"]
    /\ parent = [p \in Procs |-> None]
    /\ held = [p \in Procs |-> 0]
    /\ view = [p \in Procs |-> None]

IsTerminal == status \in TerminalStatus

\* assertCurrentControllerOwner: epoch and token of the caller's environment.
Owner(c) == epoch > 0 /\ held[c] = epoch

\* isProvisionalOperationPolicyV1
Provisional(p) == p # None /\ p.provisional

\* The identity x names is the current one.
Current(x) == x.exec = exec /\ x.cand = cand /\ x.epoch = epoch

\* Participant bindings are dropped; those of supervisor sessions, which live
\* in agents[], are not touched.
Invalidated == [s \in Sessions |-> IF s \in Supervisors THEN binding[s] ELSE None]

----------------------------------------------------------------------------
(***************************************************************************)
(* What mutateOperation checks of the record a callback returns, before it *)
(* commits: assertExecutionIdentityTransition with the revision and policy *)
(* transitions it calls.  n.exec, n.semantics, n.policy and n.binding are  *)
(* the values of the returned record.                                      *)
(***************************************************************************)
CandidateEvent == "operation.candidate.bound"
ClaimEvent     == "operation.controller.claimed"
SemanticsEvent == "operation.execution-semantics.bound"
ChoiceEvent    == "operation.human-decision.semantics-bound"
PolicyEvent    == "operation.policy.bound"
BindingEvent   == "operation.participant.execution-bound"

Rebinds(event, n) ==
    /\ event \in {SemanticsEvent, ChoiceEvent}
    /\ semantics # None \/ Provisional(policy)
    /\ n.semantics # semantics

MayInvalidate(event, n) ==
    \/ event \in {CandidateEvent, ClaimEvent, ChoiceEvent}
    \/ event = SemanticsEvent /\ Rebinds(event, n)

\* assertOperationPolicyTransition
PolicyTransition(event, n) ==
    IF event = PolicyEvent
    THEN n.policy # None /\ policy \in {None, n.policy}
    ELSE n.policy = policy \/ (MayInvalidate(event, n) /\ n.policy = None)

BindingTransition(event, n) ==
    LET changes == {s \in Participants : n.binding[s] # binding[s]}
    IN  \/ changes = {}
        \/ event = BindingEvent /\ \E s \in changes : changes = {s} /\ n.binding[s] # None
        \/ MayInvalidate(event, n) /\ \A s \in changes : n.binding[s] = None

Cleared(n) == n.policy = None /\ \A s \in Participants : n.binding[s] = None

\* assertOperationExecutionRevisionTransition
RevisionTransition(event, n) ==
    n.exec = IF event \in {CandidateEvent, ChoiceEvent}
                \/ (event = SemanticsEvent /\ Rebinds(event, n))
             THEN exec + 1 ELSE exec

IdentityTransition(event, n) ==
    /\ n.semantics # semantics => event \in {SemanticsEvent, ChoiceEvent}
    /\ PolicyTransition(event, n)
    /\ BindingTransition(event, n)
    /\ Rebinds(event, n) => Cleared(n)
    /\ event = ChoiceEvent => n.semantics # semantics /\ n.exec = exec + 1 /\ Cleared(n)
    /\ RevisionTransition(event, n)

\* The record a callback returns when it keeps the execution identity.
Kept == [exec |-> exec, semantics |-> semantics, policy |-> policy, binding |-> binding]

\* commitOperationRecord of an accepted record.  The other checks before it
\* (candidate, controller, terminal fields) are left out: every record the
\* callers build satisfies them, so that they refuse nothing here.
Commit(event, n) ==
    /\ IdentityTransition(event, n)
    /\ exec' = n.exec
    /\ semantics' = n.semantics
    /\ policy' = n.policy
    /\ binding' = n.binding

\* mutateOperation as the current owner calls it on a record that is not
\* terminal; on a terminal one it returns what is stored.
Writes(c) == proc[c] = "live" /\ Owner(c) /\ ~IsTerminal

----------------------------------------------------------------------------
\* loadOperation: a process reads the identity it will work against; callers
\* that find a terminal record return.
Load(c) ==
    /\ proc[c] = "live" /\ ~IsTerminal
    /\ view' = [view EXCEPT ![c] =
                  [exec |-> exec, cand |-> cand, epoch |-> epoch, policy |-> policy]]
    /\ UNCHANGED <<record, proc, parent, held>>

\* claimControllerEpoch without a cause: nobody owns the operation, the caller
\* does, or the recorded controller process is dead.
ClaimAllowed(c) ==
    \/ epoch = 0
    \/ Owner(c)
    \/ ownerPid # None /\ proc[ownerPid] = "dead"

\* Mutant of Claimed: the epoch is not advanced, only the token is replaced.
ClaimedSameEpoch(c, kind) ==
    /\ Commit(ClaimEvent, [Kept EXCEPT !.policy = None, !.binding = Invalidated])
    /\ epoch' = IF epoch = 0 THEN 1 ELSE epoch
    /\ ownerPid' = c
    /\ ownerKind' = kind
    /\ held' = [held EXCEPT ![c] = epoch']
    /\ UNCHANGED <<status, cand, registered, proc, parent, view>>

\* A claim advances the epoch, mints a token, drops the frozen policy and the
\* participants' bindings, and puts epoch and token into the claimer's
\* environment.
Claimed(c, kind) ==
    /\ Commit(ClaimEvent, [Kept EXCEPT !.policy = None, !.binding = Invalidated])
    /\ epoch' = epoch + 1
    /\ ownerPid' = c
    /\ ownerKind' = kind
    /\ held' = [held EXCEPT ![c] = epoch + 1]
    /\ UNCHANGED <<status, cand, registered, proc, parent, view>>

Claim(c) ==
    /\ proc[c] = "live" /\ ~IsTerminal /\ epoch < MaxEpoch
    /\ ClaimAllowed(c)
    /\ Claimed(c, "controller")

\* claimControllerEpoch with cause "cancellation": no owner is probed; the
\* policy must be current and the identity the caller saw when it asked
\* (expectedCancellation) must still be there.
CancelClaim(c) ==
    /\ proc[c] = "live" /\ ~IsTerminal /\ epoch < MaxEpoch
    /\ policy # None /\ Current(policy)
    /\ view[c] # None /\ Current(view[c]) /\ view[c].policy = policy
    /\ Claimed(c, "cancel")

\* The finally of cancelOperation: the epoch and token of the cancellation
\* leave the caller's environment, whether or not it ended the operation.  The
\* values it restores were superseded by the claim and are no authority.
CancelOperationReturns(c) ==
    /\ proc[c] = "live" /\ ownerKind = "cancel" /\ ownerPid = c /\ Owner(c)
    /\ held' = [held EXCEPT ![c] = 0]
    /\ UNCHANGED <<record, proc, parent, view>>

\* startDetachedOperation: the launcher spawns the controller with its own
\* epoch and token, and then records the child's pid (bindControllerProcess).
Spawn(c, d) ==
    /\ proc[c] = "live" /\ held[c] # 0 /\ parent[c] = None
    /\ proc[d] = "new"
    /\ proc' = [proc EXCEPT ![d] = "live"]
    /\ parent' = [parent EXCEPT ![d] = c]
    /\ held' = [held EXCEPT ![d] = held[c]]
    /\ UNCHANGED <<record, view>>

BindControllerProcess(c, d) ==
    /\ Writes(c)
    /\ parent[d] = c /\ held[d] = held[c] /\ ownerPid # d
    /\ ownerPid' = d
    /\ UNCHANGED <<status, epoch, ownerKind, exec, cand, semantics, policy,
                   registered, binding, world>>

\* patchOperation({status: "RUNNING"}) at the start of executeOperation.
StartRunning(c) ==
    /\ Writes(c) /\ status = "QUEUED"
    /\ status' = "RUNNING"
    /\ UNCHANGED <<epoch, ownerPid, ownerKind, exec, cand, semantics, policy,
                   registered, binding, world>>

----------------------------------------------------------------------------
\* Mutant of BindOperationCandidate: the terminal check of a callback that
\* mutateOperation lets through on terminal records is dropped.
BindCandidateAnytime(c) ==
    /\ proc[c] = "live" /\ Owner(c) /\ exec < MaxExec
    /\ view[c] # None /\ view[c].cand = cand
    /\ cand' = cand + 1
    /\ Commit(CandidateEvent, [Kept EXCEPT !.exec = exec + 1, !.policy = None,
                                           !.binding = Invalidated])
    /\ UNCHANGED <<status, epoch, ownerPid, ownerKind, registered, world>>

\* Mutant of BindOperationCandidate: a grandchild of the current candidate.
BindCandidateSkipping(c) ==
    /\ Writes(c) /\ exec < MaxExec
    /\ view[c] # None /\ view[c].cand = cand
    /\ cand' = cand + 2
    /\ Commit(CandidateEvent, [Kept EXCEPT !.exec = exec + 1, !.policy = None,
                                           !.binding = Invalidated])
    /\ UNCHANGED <<status, epoch, ownerPid, ownerKind, registered, world>>

\* bindOperationCandidate, and bindOperationCandidateWithAssemblyReceipt when
\* the candidate is not bound yet: the child of the candidate the caller saw.
BindOperationCandidate(c) ==
    /\ Writes(c) /\ exec < MaxExec
    /\ view[c] # None /\ view[c].cand = cand
    /\ cand' = cand + 1
    /\ Commit(CandidateEvent, [Kept EXCEPT !.exec = exec + 1, !.policy = None,
                                           !.binding = Invalidated])
    /\ UNCHANGED <<status, epoch, ownerPid, ownerKind, registered, world>>

\* Mutant of PolicyStale: only the candidate of the policy is compared.
PolicyStaleByCandidate(p) == p.cand # cand

\* The EXECUTION_POLICY_STALE checks of bindResolvedOperationPolicy.
PolicyStale(p) == p.cand # cand \/ p.exec # exec \/ p.epoch # epoch

\* bindResolvedOperationPolicy of a policy compiled from the caller's view;
\* provisional is the bootstrap policy.
BindResolvedOperationPolicy(c, provisional) ==
    LET p == [exec |-> view[c].exec, cand |-> view[c].cand,
              epoch |-> view[c].epoch, provisional |-> provisional]
    IN  /\ Writes(c)
        /\ view[c] # None /\ ~PolicyStale(p)
        /\ Commit(PolicyEvent, [Kept EXCEPT !.policy = p])
        /\ UNCHANGED <<status, epoch, ownerPid, ownerKind, cand, registered, world>>

\* The record bindOperationExecutionSemantics returns for a new digest: bound
\* semantics or a provisional policy are superseded, first semantics are not.
SemanticsBound(d) ==
    IF semantics # None \/ Provisional(policy)
    THEN [Kept EXCEPT !.semantics = d, !.exec = exec + 1, !.policy = None,
                      !.binding = Invalidated]
    ELSE [Kept EXCEPT !.semantics = d]

\* bindOperationExecutionSemantics; the same digest under a policy that is not
\* provisional changes nothing.
BindOperationExecutionSemantics(c, d) ==
    /\ Writes(c) /\ exec < MaxExec
    /\ d # semantics \/ Provisional(policy)
    /\ Commit(SemanticsEvent, SemanticsBound(d))
    /\ UNCHANGED <<status, epoch, ownerPid, ownerKind, cand, registered, world>>

RegisterOperationAgent(c, s) ==
    /\ Writes(c) /\ s \notin registered
    /\ registered' = registered \cup {s}
    /\ UNCHANGED <<status, epoch, ownerPid, ownerKind, exec, cand, semantics,
                   policy, binding, world>>

\* Mutant of BindingStale: the policy digest is not compared.
BindingStaleButPolicy(b) ==
    policy = None \/ b.cand # cand \/ b.exec # exec \/ b.epoch # epoch

\* The provenance checks of bindOperationParticipantExecution.
BindingStale(b) ==
    \/ policy = None \/ b.policy # policy
    \/ b.cand # cand \/ b.exec # exec \/ b.epoch # epoch

\* bindOperationParticipantExecution of a binding built from the caller's view.
BindOperationParticipantExecution(c, s) ==
    /\ Writes(c) /\ s \in registered
    /\ view[c] # None /\ ~BindingStale(view[c])
    /\ Commit(BindingEvent, [Kept EXCEPT !.binding = [binding EXCEPT ![s] = view[c]]])
    /\ UNCHANGED <<status, epoch, ownerPid, ownerKind, cand, registered, world>>

----------------------------------------------------------------------------
\* transitionOperationToTerminal.  The clock is left open: past the deadline,
\* without terminal evidence or over an economic ceiling a success is refused
\* or turned into FAILED.
TransitionOperationToTerminal(c, s) ==
    /\ Writes(c)
    /\ status' = s
    /\ UNCHANGED <<epoch, ownerPid, ownerKind, exec, cand, semantics, policy,
                   registered, binding, world>>

\* transitionOperationAtHardDeadlineV1: the watchdog needs no ownership, but a
\* deadline, which frozenOperationHardDeadlineAt takes from the bound policy or
\* from the operation's origin.
TransitionOperationAtHardDeadline ==
    /\ ~IsTerminal /\ (policy # None \/ RootDeadline)
    /\ status' = "FAILED"
    /\ UNCHANGED <<epoch, ownerPid, ownerKind, exec, cand, semantics, policy,
                   registered, binding, world>>

----------------------------------------------------------------------------
\* The environment: a process starts on its own, and dies with its
\* environment and everything it has read.
StartProcess(p) ==
    /\ proc[p] = "new"
    /\ proc' = [proc EXCEPT ![p] = "live"]
    /\ UNCHANGED <<record, parent, held, view>>

Crash(p) ==
    /\ proc[p] = "live"
    /\ proc' = [proc EXCEPT ![p] = "dead"]
    /\ held' = [held EXCEPT ![p] = 0]
    /\ view' = [view EXCEPT ![p] = None]
    /\ UNCHANGED <<record, parent>>

Next ==
    \/ \E c \in Procs :
          \/ Load(c) \/ Claim(c) \/ StartRunning(c)
          \/ CancelClaim(c) \/ CancelOperationReturns(c)
          \/ \E d \in Procs : Spawn(c, d) \/ BindControllerProcess(c, d)
          \/ BindOperationCandidate(c)
          \/ \E b \in BOOLEAN : BindResolvedOperationPolicy(c, b)
          \/ \E d \in Digests : BindOperationExecutionSemantics(c, d)
          \/ \E s \in Sessions : RegisterOperationAgent(c, s)
                                 \/ BindOperationParticipantExecution(c, s)
          \/ \E s \in TerminalStatus : TransitionOperationToTerminal(c, s)
          \/ StartProcess(c) \/ Crash(c)
    \/ TransitionOperationAtHardDeadline

Spec == Init /\ [][Next]_vars

----------------------------------------------------------------------------
(***************************************************************************)
(* A frozen policy binds the current candidate, execution revision and     *)
(* controller epoch: whatever moves one of them drops the policy, and a    *)
(* policy compiled from a stale read is refused.                           *)
(***************************************************************************)
PolicyCurrent == policy # None => Current(policy)

(***************************************************************************)
(* Every participant that is bound is bound to the current identity under  *)
(* the frozen policy: no takeover, candidate or change of semantics leaves *)
(* a participant with authority issued before it.                          *)
(***************************************************************************)
BindingsCurrent ==
    \A s \in Participants :
        binding[s] # None => Current(binding[s]) /\ policy # None
                                                 /\ binding[s].policy = policy

\* Processes that descend from the same claim of a launcher.
SameLineage(p, q) ==
    \/ p = q \/ parent[p] = q \/ parent[q] = p
    \/ parent[p] # None /\ parent[p] = parent[q]

(***************************************************************************)
(* An epoch and its token are shared only by the process that claimed them *)
(* and the controllers it spawned: two unrelated processes never both pass *)
(* assertCurrentControllerOwner.                                           *)
(***************************************************************************)
TokenLineage ==
    \A p, q \in Procs : held[p] = held[q] /\ held[p] # 0 => SameLineage(p, q)

(***************************************************************************)
(* A step moves the identity forward by one claim, one candidate or one    *)
(* change of semantics, never backwards and never by two; a new candidate  *)
(* always opens a new execution revision.                                  *)
(***************************************************************************)
Advances ==
    /\ epoch' \in {epoch, epoch + 1}
    /\ exec' \in {exec, exec + 1}
    /\ cand' \in {cand, cand + 1}
    /\ cand' # cand => exec' = exec + 1
    /\ epoch' # epoch => exec' = exec
IdentityAdvances == [][Advances]_vars

(***************************************************************************)
(* A terminal record is final: no late controller, watchdog or claimant    *)
(* changes its status, its identity, its policy or a binding.              *)
(***************************************************************************)
TerminalFinal == [][IsTerminal => UNCHANGED record]_vars
=============================================================================
