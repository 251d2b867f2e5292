--------------------------- MODULE ProductChoice ---------------------------
(***************************************************************************)
(* How a change operation asks a human for a product choice and goes on    *)
(* with the answer: the request and continuation in the operation record   *)
(* (src/operations/state.ts), the controller that waits, consumes and      *)
(* resumes (change.ts), the Control Center that submits answers            *)
(* (control-center/decision.ts) and the ledger of files between them       *)
(* (security/humanDecision.ts).                                            *)
(*                                                                         *)
(* A controller is a process with a program counter; a crash or a takeover *)
(* may come between any two of its steps.  A step is one mutateOperation   *)
(* call (atomic under the operation lock) or one exclusive file creation.  *)
(* Candidate 1 is the candidate of the provisioned workspace.  A policy is *)
(* modelled by the identity it was compiled for: under one identity a      *)
(* second, different policy is refused.                                    *)
(***************************************************************************)
EXTENDS Naturals, FiniteSets

CONSTANTS Procs,       \* controller processes
          Humans,      \* submitters, each with one answer to give
          MaxRequests, \* bound: decision requests issued
          None

ASSUME RequestsAssumption == IsFiniteSet(Procs) /\ MaxRequests \in Nat \ {0}

Requests == 1..MaxRequests
Identity == [cand : Nat, exec : Nat, epoch : Nat]
Binding  == [at : Identity, policy : Identity]
Continuation == [state : {"WAITING", "CHOICE_CONSUMED", "RESUMING"},
                 req : Requests, binding : Binding, sel : Binding \cup {None},
                 applied : BOOLEAN]
Answer == [by : Humans, binding : Binding]
Reading == [req : Requests, binding : Binding]
Submission == [step : {"idle", "reserve", "record", "accepted", "conflict", "crashed"},
               req : 0..MaxRequests, binding : Binding \cup {None}]

ASSUME NoneAssumption ==
    None \notin Procs \cup Identity \cup Binding \cup Continuation \cup Answer \cup Reading

VARIABLES status,   \* OperationStatus
          phase,    \* OperationRecordV2.phase
          id,       \* candidate, execution revision and controller epoch
          owner,    \* the process whose environment holds the current token
          pidAlive, \* whether controller.pid is a live process
          policy,   \* resolvedOperationPolicy
          request,  \* decisionRequest; 0 when there is none
          cont,     \* continuation
          dirty,    \* whether the worktree differs from the candidate
          issued,   \* requests issued so far
          expired,  \* requests whose expiresAt has passed
          reserved, \* product-choice-requests/: the answer of each request
          decided,  \* requests whose HumanDecision file exists
          consumed, \* requests whose decision has its .consumed file
          pc, path, seen,  \* a controller's step, way in, and request it read
          sub       \* the submission of each human

record == <<status, phase, id, owner, pidAlive, policy, request, cont>>
ledger == <<reserved, decided, consumed>>
vars   == <<status, phase, id, owner, pidAlive, policy, request, cont, dirty,
            issued, expired, reserved, decided, consumed, pc, path, seen, sub>>

\* Steps that commit to the record, and so need the current token.
Fencing == {"start", "bootstrap", "enter", "wait", "mark", "resume", "compile",
            "apply", "rebind", "plan", "blueprint", "run-pass", "run-fail",
            "end-pass", "end-fail"}
\* Steps in which the controller works on what was decided.
Working == {"author", "compile", "apply", "rebind", "plan", "blueprint"}
Steps   == Fencing \cup Working \cup {"new", "poll", "consume", "done", "dead"}

RecordOK ==
    /\ status \in {"QUEUED", "RUNNING", "SUCCEEDED", "FAILED"}
    /\ phase \in {"queued", "preparing", "HUMAN_REQUIRED", "REVALIDATING",
                  "spec-authoring", "finished"}
    /\ id \in Identity
    /\ owner \in Procs \cup {None} /\ pidAlive \in BOOLEAN
    /\ policy \in Identity \cup {None}
    /\ request \in 0..issued
    /\ cont \in Continuation \cup {None}
    /\ cont # None => (cont.state = "WAITING" <=> cont.sel = None)

LedgerOK ==
    /\ issued \in 0..MaxRequests
    /\ expired \subseteq 1..issued
    /\ reserved \in [Requests -> Answer \cup {None}]
    /\ consumed \subseteq decided /\ decided \subseteq 1..issued

ProcsOK ==
    /\ dirty \in BOOLEAN
    /\ pc \in [Procs -> Steps]
    /\ path \in [Procs -> {"first", "resumed"}]
    /\ seen \in [Procs -> Reading \cup {None}]

\* The record, the ledger, the controllers and the submitters are well formed;
\* a choice has its binding exactly when it is no longer awaited.
TypeOK == RecordOK /\ LedgerOK /\ ProcsOK /\ sub \in [Humans -> Submission]

Init ==
    /\ status = "QUEUED" /\ phase = "queued"
    /\ id = [cand |-> 1, exec |-> 1, epoch |-> 0]
    /\ owner = None /\ pidAlive = FALSE /\ policy = None
    /\ request = 0 /\ cont = None /\ dirty = FALSE /\ issued = 0 /\ expired = {}
    /\ reserved = [r \in Requests |-> None] /\ decided = {} /\ consumed = {}
    /\ pc = [p \in Procs |-> "new"] /\ path = [p \in Procs |-> "first"]
    /\ seen = [p \in Procs |-> None]
    /\ sub = [h \in Humans |-> [step |-> "idle", req |-> 0, binding |-> None]]

\* currentDecisionBinding, which a policy that is not current refuses.
Here == [at |-> id, policy |-> policy]
Authorized == policy = id

Waiting  == cont # None /\ cont.state = "WAITING"
Consumed == cont # None /\ cont.state # "WAITING"
Applied  == Consumed /\ cont.applied

\* The exact consumption receipt of the continuation's decision
\* (assertConsumedProductChoiceReceipt).
Receipt ==
    /\ cont.req \in decided \cap consumed
    /\ reserved[cont.req] # None /\ reserved[cont.req].binding = cont.sel

\* Bound: a request is left for each process that may still take over.
Spare == issued + Cardinality({p \in Procs : pc[p] = "new"}) < MaxRequests

Goto(p, step) == pc' = [pc EXCEPT ![p] = step]

\* A process at a step that commits, with the current token.
At(p, step) == pc[p] = step /\ owner = p

----------------------------------------------------------------------------
(***************************************************************************)
(* Ownership: the detached launch, the takeover by a later process, the    *)
(* start of executeOperation and the failures that end a controller.       *)
(***************************************************************************)
Claimed(p) ==
    /\ pc[p] = "new" /\ Goto(p, "start")
    /\ id' = [id EXCEPT !.epoch = @ + 1]
    /\ owner' = p /\ policy' = None
    /\ UNCHANGED <<status, phase, request, cont, dirty, issued, expired, ledger,
                   path, seen, sub>>

\* startDetachedOperation: the child runs with the launcher's token.  When the
\* launcher dies before it records the child's pid, the recorded pid is dead.
Launch(p) == id.epoch = 0 /\ pidAlive' \in BOOLEAN /\ Claimed(p)

\* claimControllerEpoch of another process over an owner whose pid is dead.
TakeOver(p) ==
    /\ id.epoch > 0 /\ ~pidAlive /\ status \in {"QUEUED", "RUNNING"}
    /\ pidAlive' = TRUE
    /\ Claimed(p)

StartRunning(p) ==
    /\ At(p, "start") /\ Goto(p, "bootstrap")
    /\ status' = "RUNNING"
    /\ phase' = IF Waiting THEN "HUMAN_REQUIRED" ELSE "preparing"
    /\ UNCHANGED <<id, owner, pidAlive, policy, request, cont, dirty, issued,
                   expired, ledger, path, seen, sub>>

\* transitionOperationToTerminal clears the request and the continuation.
Terminal(s) ==
    /\ status' = s /\ phase' = "finished" /\ request' = 0 /\ cont' = None
    /\ UNCHANGED <<id, owner, pidAlive, policy>>

\* An error reaches the catch of executeOperation: the operation fails, unless
\* its token is no longer this process's; the process exits.
Fails(p) ==
    /\ Goto(p, "done")
    /\ IF owner = p THEN Terminal("FAILED") ELSE UNCHANGED record
    /\ UNCHANGED <<dirty, issued, expired, ledger, path, seen, sub>>

\* assertCurrentControllerOwner in mutateOperation and awaitProductChoice.
Fenced(p) == pc[p] \in Fencing /\ owner # p /\ Fails(p)

Crash(p) ==
    /\ pc[p] \notin {"new", "done", "dead"}
    /\ Goto(p, "dead")
    /\ pidAlive' = (pidAlive /\ owner # p)
    /\ UNCHANGED <<status, phase, id, owner, policy, request, cont, dirty, issued,
                   expired, ledger, path, seen, sub>>

----------------------------------------------------------------------------
(***************************************************************************)
(* bindResolvedOperationPolicy: what a continuation adds to it.            *)
(***************************************************************************)
\* An applied choice lets exactly one later revision of its candidate in.
PolicyAdmitted ==
    Applied => /\ cont.sel.at.cand = id.cand
               /\ id.exec = cont.sel.at.exec + 1
               /\ cont.binding.at.exec = id.exec

\* The checkpoint follows the policy within the epoch of the choice
\* (rewriteProductChoiceCheckpointBinding), never across a takeover.
Rewritten ==
    IF Applied /\ cont.sel.at.epoch = id.epoch
    THEN [cont EXCEPT !.binding = [at |-> id, policy |-> id]] ELSE cont

BindPolicy(p, from, to) ==
    /\ At(p, from) /\ PolicyAdmitted
    /\ policy' = id /\ cont' = Rewritten
    /\ Goto(p, to)
    /\ UNCHANGED <<status, phase, id, owner, pidAlive, request, dirty, issued,
                   expired, ledger, path, seen, sub>>

\* bindBootstrapOperationPolicy at the start of every controller.
Bootstrap(p) == BindPolicy(p, "bootstrap", "enter")

BootstrapRefused(p) == At(p, "bootstrap") /\ ~PolicyAdmitted /\ Fails(p)

----------------------------------------------------------------------------
(***************************************************************************)
(* Requests.                                                               *)
(***************************************************************************)
\* A request and a WAITING continuation under the current binding, with a new
\* id; the checkpoint is written before the record exposes it.
NewRequest(r) ==
    /\ r \in Requests /\ Authorized
    /\ request' = r /\ issued' = r /\ phase' = "HUMAN_REQUIRED"
    /\ cont' = [state |-> "WAITING", req |-> r, binding |-> Here, sel |-> None,
                applied |-> FALSE]
    /\ UNCHANGED <<status, id, owner, pidAlive, policy>>

\* Mutant of Asks: the id of the request that is replaced is used again.
AsksAgain(p) ==
    /\ NewRequest(IF cont = None THEN issued + 1 ELSE cont.req)
    /\ Goto(p, "wait")
    /\ UNCHANGED <<dirty, expired, ledger, seen, sub>>

Asks(p) ==
    /\ NewRequest(issued + 1)
    /\ Goto(p, "wait")
    /\ UNCHANGED <<dirty, expired, ledger, seen, sub>>

\* assertStaleConsumedChoiceEligible, when the saved binding is not current.
Reconfirmable ==
    /\ Applied
    /\ cont.sel.at.cand = id.cand /\ cont.binding.at.cand = id.cand
    /\ id.exec = cont.sel.at.exec + 1 /\ cont.binding.at.exec = id.exec
    /\ cont.sel.at.epoch <= id.epoch

\* runChangeOperation without a saved continuation: authoring starts.
EnterFresh(p) ==
    /\ At(p, "enter") /\ ~dirty /\ cont = None
    /\ path' = [path EXCEPT ![p] = "first"]
    /\ Goto(p, "author")
    /\ UNCHANGED <<record, dirty, issued, expired, ledger, seen, sub>>

\* resumeProductChoiceContinuation, nobody has answered: the takeover made the
\* request stale, and reissueOperationProductChoice replaces it.
EnterWaiting(p) ==
    /\ At(p, "enter") /\ ~dirty /\ Waiting
    /\ cont.binding.at.cand = id.cand /\ cont.binding.at.exec = id.exec
    /\ path' = [path EXCEPT ![p] = "resumed"]
    /\ Asks(p)

\* Mutant of EnterConsumed: the consumed choice is taken as it was saved.
EnterTrusting(p) ==
    /\ At(p, "enter") /\ ~dirty /\ Consumed
    /\ path' = [path EXCEPT ![p] = "resumed"]
    /\ Goto(p, "author")
    /\ UNCHANGED <<record, dirty, issued, expired, ledger, seen, sub>>

\* ... the choice was consumed under an earlier epoch: it is asked again
\* (reconfirmStaleConsumedProductChoice).
EnterConsumed(p) ==
    /\ At(p, "enter") /\ ~dirty /\ Consumed
    /\ cont.binding # Here /\ Reconfirmable /\ Receipt
    /\ path' = [path EXCEPT ![p] = "resumed"]
    /\ Asks(p)

\* The workspace check of the controller and the refusals of reconfirmation.
EnterRefused(p) ==
    /\ At(p, "enter")
    /\ dirty \/ (Consumed /\ ~(Reconfirmable /\ Receipt))
    /\ Fails(p)

\* runSpecManagerUntilReady, the Spec Manager is BLOCKED on a product choice:
\* suspendOperationForProductChoice.
Suspend(p) ==
    /\ At(p, "author") /\ Spare
    /\ status = "RUNNING" /\ phase # "HUMAN_REQUIRED"
    /\ cont # None => cont.state = "RESUMING" /\ request = 0
    /\ Asks(p)
    /\ UNCHANGED path

\* ... or READY: its artifacts are persisted into the worktree, which need not
\* change it, before the next commit shows whether the token is still current.
AuthorReady(p) ==
    /\ pc[p] = "author" /\ Goto(p, "compile")
    /\ dirty' \in {dirty, TRUE}
    /\ UNCHANGED <<record, issued, expired, ledger, path, seen, sub>>

----------------------------------------------------------------------------
(***************************************************************************)
(* awaitProductChoice: load the record, look the answer up in the ledger,  *)
(* consume it, and record that it was consumed.                            *)
(***************************************************************************)
StillWaiting == status = "RUNNING" /\ phase = "HUMAN_REQUIRED" /\ Waiting /\ request = cont.req

\* A current, unexpired request is looked up ...
Wait(p) ==
    /\ At(p, "wait") /\ StillWaiting /\ cont.binding = Here /\ request \notin expired
    /\ seen' = [seen EXCEPT ![p] = [req |-> request, binding |-> Here]]
    /\ Goto(p, "poll")
    /\ UNCHANGED <<record, dirty, issued, expired, ledger, path, sub>>

\* ... and an expired one is reissued.
ReissueExpired(p) ==
    /\ At(p, "wait") /\ StillWaiting /\ request \in expired
    /\ Asks(p)
    /\ UNCHANGED path

\* Mutant of Poll: a reservation without its decision file is not repaired.
PollUnrepaired(p) ==
    /\ pc[p] = "poll"
    /\ LET answer == reserved[seen[p].req]
       IN  IF answer # None /\ seen[p].req \in decided
           THEN answer.binding = seen[p].binding /\ Goto(p, "consume")
           ELSE Goto(p, "wait")
    /\ UNCHANGED <<record, dirty, issued, expired, ledger, path, seen, sub>>

\* Mutant of Poll: the answer is marked in the record before it is consumed.
PollMarksFirst(p) ==
    /\ pc[p] = "poll"
    /\ LET answer == reserved[seen[p].req]
       IN  IF answer = None
           THEN Goto(p, "wait") /\ UNCHANGED decided
           ELSE /\ answer.binding = seen[p].binding
                /\ decided' = decided \cup {seen[p].req}
                /\ Goto(p, "mark")
    /\ UNCHANGED <<record, dirty, issued, expired, reserved, consumed, path, seen, sub>>

\* productChoiceForRequest: the reservation holds the whole decision, and its
\* ledger file is written if the submitter has not done so.
Poll(p) ==
    /\ pc[p] = "poll"
    /\ LET answer == reserved[seen[p].req]
       IN  IF answer = None
           THEN Goto(p, "wait") /\ UNCHANGED decided
           ELSE /\ answer.binding = seen[p].binding
                /\ decided' = decided \cup {seen[p].req}
                /\ Goto(p, "consume")
    /\ UNCHANGED <<record, dirty, issued, expired, reserved, consumed, path, seen, sub>>

\* consumeExact: the marker is created exclusively, by whoever gets here; a
\* decision expires with its request.
ConsumeExact(p) ==
    /\ pc[p] = "consume" /\ seen[p].req \notin consumed \cup expired
    /\ consumed' = consumed \cup {seen[p].req}
    /\ Goto(p, "mark")
    /\ UNCHANGED <<record, dirty, issued, expired, reserved, decided, path, seen, sub>>

ConsumeRefused(p) ==
    pc[p] = "consume" /\ seen[p].req \in consumed \cup expired /\ Fails(p)

Markable(p) ==
    /\ StillWaiting /\ request = seen[p].req
    /\ cont.binding = Here /\ Authorized
    /\ request \notin expired

\* Mutant of MarkConsumed: the binding of the decision is not saved.
MarkUnbound(p) ==
    /\ At(p, "mark") /\ Markable(p)
    /\ phase' = "REVALIDATING" /\ request' = 0
    /\ cont' = [cont EXCEPT !.state = "CHOICE_CONSUMED"]
    /\ Goto(p, "resume")
    /\ UNCHANGED <<status, id, owner, pidAlive, policy, dirty, issued, expired,
                   ledger, path, seen, sub>>

\* markOperationProductChoiceConsumed
MarkConsumed(p) ==
    /\ At(p, "mark") /\ Markable(p)
    /\ phase' = "REVALIDATING" /\ request' = 0
    /\ cont' = [cont EXCEPT !.state = "CHOICE_CONSUMED", !.sel = Here]
    /\ Goto(p, "resume")
    /\ UNCHANGED <<status, id, owner, pidAlive, policy, dirty, issued, expired,
                   ledger, path, seen, sub>>

\* The request expired after its consumption, or the answer came from a
\* delegate whose grant no longer verifies.
MarkRefused(p) == At(p, "mark") /\ Fails(p)

----------------------------------------------------------------------------
(***************************************************************************)
(* The chosen answer becomes requirements and a new execution revision.    *)
(***************************************************************************)
\* assertCurrentConsumedProductChoiceBinding with the checkpoint load.
ChoiceCurrent ==
    /\ Authorized /\ cont.binding = Here
    /\ cont.sel.at.cand = id.cand /\ cont.sel.at.epoch = id.epoch
    /\ IF cont.applied THEN id.exec = cont.sel.at.exec + 1 ELSE cont.sel = Here

\* resumeOperationProductChoice: back to authoring, or on to planning once the
\* choice is applied.
Resume(p) ==
    /\ At(p, "resume") /\ Consumed /\ ChoiceCurrent
    /\ phase' = "spec-authoring"
    /\ cont' = [cont EXCEPT !.state = "RESUMING"]
    /\ Goto(p, IF cont.applied THEN "plan" ELSE "author")
    /\ UNCHANGED <<status, id, owner, pidAlive, policy, request, dirty, issued,
                   expired, ledger, path, seen, sub>>

\* OpenSpec compilation.  On the first path advanceCandidateForControllerAuthoring
\* then binds the changed worktree as a new candidate and a bootstrap policy
\* for it; the resumed path has no such step.
Compile(p) ==
    /\ At(p, "compile") /\ Goto(p, "apply")
    /\ IF path[p] = "first" /\ dirty
       THEN /\ id' = [id EXCEPT !.cand = @ + 1, !.exec = @ + 1]
            /\ policy' = id' /\ dirty' = FALSE
       ELSE UNCHANGED <<id, policy, dirty>>
    /\ UNCHANGED <<status, phase, owner, pidAlive, request, cont, issued, expired,
                   ledger, path, seen, sub>>

\* Nothing was chosen: planning starts.
NothingToApply(p) ==
    /\ At(p, "apply") /\ cont = None /\ Goto(p, "plan")
    /\ UNCHANGED <<record, dirty, issued, expired, ledger, path, seen, sub>>

\* bindProductChoiceExecutionSemantics: one new execution revision, no policy;
\* the checkpoint keeps the digest of the policy it was saved under.
BindSemantics(p) ==
    /\ At(p, "apply") /\ Consumed /\ ChoiceCurrent
    /\ id' = [id EXCEPT !.exec = @ + 1]
    /\ policy' = None
    /\ cont' = [cont EXCEPT !.state = "CHOICE_CONSUMED", !.applied = TRUE,
                            !.binding = [at |-> id', policy |-> cont.binding.policy]]
    /\ Goto(p, "rebind")
    /\ UNCHANGED <<status, phase, owner, pidAlive, request, dirty, issued, expired,
                   ledger, path, seen, sub>>

\* loadOperationProductChoiceCheckpoint: the saved binding is not current.
ApplyRefused(p) == At(p, "apply") /\ Consumed /\ ~ChoiceCurrent /\ Fails(p)

\* The prior policy recompiled for the new revision.
Rebind(p) == BindPolicy(p, "rebind", "resume")

----------------------------------------------------------------------------
(***************************************************************************)
(* runTask and the end of the operation.                                   *)
(***************************************************************************)
\* Planning is configured off, or the plan has no work units.
RunUnplanned(p) ==
    /\ At(p, "plan")
    /\ \E result \in {"run-pass", "run-fail"} : Goto(p, result)
    /\ UNCHANGED <<record, dirty, issued, expired, ledger, path, seen, sub>>

\* executePlannerWaves: bindOperationExecutionSemantics of the work graph
\* supersedes the policy; its blueprint binds the next one.
PlanWaves(p) ==
    /\ At(p, "plan") /\ Goto(p, "blueprint")
    /\ id' = [id EXCEPT !.exec = @ + 1]
    /\ policy' = None
    /\ UNCHANGED <<status, phase, owner, pidAlive, request, cont, dirty, issued,
                   expired, ledger, path, seen, sub>>

CompileBlueprint(p) ==
    \E result \in {"run-pass", "run-fail"} : BindPolicy(p, "blueprint", result)

\* The refusal is caught: the plan is rejected and the run fails.
BlueprintRefused(p) ==
    /\ At(p, "blueprint") /\ ~PolicyAdmitted /\ Goto(p, "run-fail")
    /\ UNCHANGED <<record, dirty, issued, expired, ledger, path, seen, sub>>

\* completeOperationProductChoice, when a resumed choice is still saved.
Complete(p) ==
    /\ owner = p /\ pc[p] \in {"run-pass", "run-fail"}
    /\ Goto(p, IF pc[p] = "run-pass" THEN "end-pass" ELSE "end-fail")
    /\ cont' = None /\ request' = 0
    /\ UNCHANGED <<status, phase, id, owner, pidAlive, policy, dirty, issued,
                   expired, ledger, path, seen, sub>>

Finish(p) ==
    /\ owner = p /\ pc[p] \in {"end-pass", "end-fail"}
    /\ Terminal(IF pc[p] = "end-pass" THEN "SUCCEEDED" ELSE "FAILED")
    /\ Goto(p, "done")
    /\ UNCHANGED <<dirty, issued, expired, ledger, path, seen, sub>>

----------------------------------------------------------------------------
(***************************************************************************)
(* The Control Center: load and check the record, reserve the request,     *)
(* write the decision file.                                                *)
(***************************************************************************)
Submit(h) ==
    /\ sub[h].step = "idle"
    /\ StillWaiting /\ request \notin expired
    /\ Authorized /\ cont.binding = Here
    /\ sub' = [sub EXCEPT ![h] = [step |-> "reserve", req |-> request, binding |-> Here]]
    /\ UNCHANGED <<record, dirty, issued, expired, ledger, pc, path, seen>>

Told(h, step) == sub' = [sub EXCEPT ![h].step = step]

\* Mutant of Reserve: the reservation is written, not created exclusively.
ReserveOverwriting(h) ==
    /\ sub[h].step = "reserve"
    /\ reserved' = [reserved EXCEPT ![sub[h].req] = [by |-> h, binding |-> sub[h].binding]]
    /\ Told(h, "record")
    /\ UNCHANGED <<record, dirty, issued, expired, decided, consumed, pc, path, seen>>

\* writeExclusive of the reservation.
Reserve(h) ==
    /\ sub[h].step = "reserve"
    /\ IF reserved[sub[h].req] = None
       THEN /\ reserved' = [reserved EXCEPT ![sub[h].req] =
                              [by |-> h, binding |-> sub[h].binding]]
            /\ Told(h, "record")
       ELSE Told(h, "conflict") /\ UNCHANGED reserved
    /\ UNCHANGED <<record, dirty, issued, expired, decided, consumed, pc, path, seen>>

\* writeExclusive of the decision, which the waiting controller may have
\* written meanwhile.
RecordDecision(h) ==
    /\ sub[h].step = "record"
    /\ decided' = decided \cup {sub[h].req}
    /\ Told(h, IF sub[h].req \in decided THEN "conflict" ELSE "accepted")
    /\ UNCHANGED <<record, dirty, issued, expired, reserved, consumed, pc, path, seen>>

SubmitterCrash(h) ==
    /\ sub[h].step \in {"reserve", "record"}
    /\ Told(h, "crashed")
    /\ UNCHANGED <<record, dirty, issued, expired, ledger, pc, path, seen>>

\* The expiry of the current request passes.
Expire ==
    /\ request \notin expired \cup {0} /\ Spare
    /\ expired' = expired \cup {request}
    /\ UNCHANGED <<record, dirty, issued, ledger, pc, path, seen, sub>>

----------------------------------------------------------------------------
Controller(p) ==
    \/ StartRunning(p) \/ Fenced(p)
    \/ Bootstrap(p) \/ BootstrapRefused(p)
    \/ EnterFresh(p) \/ EnterWaiting(p) \/ EnterConsumed(p) \/ EnterRefused(p)
    \/ Suspend(p) \/ AuthorReady(p)
    \/ Wait(p) \/ ReissueExpired(p) \/ Poll(p)
    \/ ConsumeExact(p) \/ ConsumeRefused(p) \/ MarkConsumed(p) \/ MarkRefused(p)
    \/ Resume(p) \/ Compile(p) \/ NothingToApply(p) \/ BindSemantics(p)
    \/ ApplyRefused(p) \/ Rebind(p)
    \/ RunUnplanned(p) \/ PlanWaves(p) \/ CompileBlueprint(p) \/ BlueprintRefused(p)
    \/ Complete(p) \/ Finish(p)

Submitter(h) == Submit(h) \/ Reserve(h) \/ RecordDecision(h) \/ SubmitterCrash(h)

Next ==
    \/ \E p \in Procs : Launch(p) \/ TakeOver(p) \/ Crash(p) \/ Controller(p)
    \/ \E h \in Humans : Submitter(h)
    \/ Expire

Spec == Init /\ [][Next]_vars

\* A live controller process keeps taking steps.
FairSpec == Spec /\ \A p \in Procs : WF_vars(Controller(p))

----------------------------------------------------------------------------
(***************************************************************************)
(* Properties.                                                             *)
(***************************************************************************)

\* A record that says a choice was consumed is backed by the ledger: the
\* decision file, its consumption receipt, and a reservation under exactly the
\* binding the record saved, whatever crashed in between.
ReceiptBacked == Consumed => Receipt

\* The owner never works on with a choice that was given to an earlier
\* controller: the choice it holds is consumed, and was given in its epoch.
WorkUsesCurrentChoice ==
    \A p \in Procs :
        pc[p] \in Working /\ owner = p /\ cont # None
            => Consumed /\ cont.sel.at.epoch = id.epoch

\* A submitter that was told "accepted" is the one whose answer the ledger
\* holds for that request; a concurrent submitter never replaces it.
AcceptedStands ==
    \A h \in Humans :
        sub[h].step = "accepted" => reserved[sub[h].req].by = h

\* Consent is fresh: when a request opens - first, reissued or reconfirmed -
\* the ledger holds no answer to it that could be replayed.
FreshConsent ==
    [][request' \notin {0, request}
         => reserved[request'] = None /\ request' \notin consumed]_vars

\* An answer to the open request is taken, even when its submitter died
\* between the two ledger files, unless the controller that waits dies.
AnswerTaken ==
    \A r \in Requests :
        (request = r /\ reserved[r] # None)
            ~> (request # r \/ (owner # None /\ pc[owner] = "dead"))
=============================================================================
