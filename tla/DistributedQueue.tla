-------------------------- MODULE DistributedQueue --------------------------
(***************************************************************************)
(* The distributed worker queue on its filesystem backing store            *)
(* (src/distributed/queue.ts) with the two parties that use it: the        *)
(* dispatcher of a delegated job (dispatchDistributedDelegation) and the   *)
(* polling workers (runDistributedWorkerLoop, executeClaimedJob).          *)
(*                                                                         *)
(* A job is a file in pending/.  A worker claims it by renaming the file   *)
(* to leased/<leaseId> and overwriting it with a lease envelope, prepares  *)
(* a runtime session, publishes it in prepared/<job>, waits until the      *)
(* dispatcher has bound that session in released/<job>, runs the agent,    *)
(* writes completed/<job> and removes its lease.  Every claim first        *)
(* returns the jobs of expired leases to pending/.  There is no lock: a    *)
(* process reads a file, awaits, and acts on what it read, so every file   *)
(* operation is a step of its own here.                                    *)
(*                                                                         *)
(* prepared/ and released/ are written with flag "wx", hence at most once  *)
(* for a job whoever holds its lease; completed/ is simply overwritten.    *)
(* The HTTP provider runs the same functions inside the queue server; a    *)
(* lost answer leaves the files as a crash of its worker does.             *)
(***************************************************************************)
EXTENDS Naturals

CONSTANTS Jobs,       \* jobs a dispatcher may submit (ids are fresh UUIDs)
          Workers,    \* worker processes
          MaxLeases,  \* bound on the claims of a behaviour
          None

VARIABLES
    pending,    \* the jobs with a file in pending/
    leased,     \* leased/: lease id -> file, or None
    claims,     \* number of lease ids handed out
    prepared,   \* prepared/: job -> published session, or None
    released,   \* released/: job -> session the dispatcher bound, or None
    completed,  \* completed/: job -> result, or None
    pc,         \* the workers: where each is,
    job,        \*   the job it works on or returns, or None,
    lease,      \*   the lease it holds or reclaims, or None,
    status,     \*   and the status of its result, or None
    dpc,        \* the dispatchers, one for a job: where each is
    ready,      \*   and the session it was told of, or None
    executed    \* history: the runs of an agent, as <<job, session>>

files == <<pending, leased, prepared, released, completed>>
memory == <<job, lease, status>>
dispatchers == <<dpc, ready>>
vars == <<files, claims, pc, memory, dispatchers, executed>>

Leases == 1 .. MaxLeases

\* A lease file is "bare" between the rename and the write of the envelope:
\* it still holds the job, which has no expiresAt.
LeaseFile == [job : Jobs, worker : Workers, form : {"bare", "whole"}, expired : BOOLEAN]

\* A runtime session, known by the lease and the worker it was prepared for.
Session == [lease : Leases, worker : Workers]

\* The result names its worker; a PASS carries the binding of its session.
Result == [status : {"PASS", "FAIL"}, session : Session]

WorkerPhases ==
    {"idle", "expired", "returned", "read", "renamed", "leased", "publishing", "waiting",
     "running", "settled", "completing", "recorded", "down"}

DispatchPhases ==
    {"new", "submitted", "binding", "releasing", "released", "accepted", "failed", "error"}

ASSUME QueueAssumption ==
    /\ MaxLeases \in Nat
    /\ None \notin Workers /\ None \notin Jobs /\ None \notin Leases
    /\ None \notin {"PASS", "FAIL"}
    /\ None \notin LeaseFile /\ None \notin Session /\ None \notin Result

Init ==
    /\ pending = {}
    /\ leased = [l \in Leases |-> None]
    /\ claims = 0
    /\ prepared = [j \in Jobs |-> None]
    /\ released = [j \in Jobs |-> None]
    /\ completed = [j \in Jobs |-> None]
    /\ pc = [w \in Workers |-> "idle"]
    /\ job = [w \in Workers |-> None]
    /\ lease = [w \in Workers |-> None]
    /\ status = [w \in Workers |-> None]
    /\ dpc = [j \in Jobs |-> "new"]
    /\ ready = [j \in Jobs |-> None]
    /\ executed = {}

\* readLease finds the envelope of a lease.
Holds(l) == leased[l] # None /\ leased[l].form = "whole"

\* The session a worker prepares under its lease.
SessionOf(w) == [lease |-> lease[w], worker |-> w]

Goto(w, phase) == pc' = [pc EXCEPT ![w] = phase]

\* A worker takes up a job and a lease id, or lets go of them.
Takes(w, j, l) == job' = [job EXCEPT ![w] = j] /\ lease' = [lease EXCEPT ![w] = l]

Forgets(w) ==
    /\ job' = [job EXCEPT ![w] = None]
    /\ lease' = [lease EXCEPT ![w] = None]
    /\ status' = [status EXCEPT ![w] = None]

Removed(l) == leased' = [leased EXCEPT ![l] = None]

-----------------------------------------------------------------------------
(***************************************************************************)
(* Claiming: reclaimExpired, then the first pending file that can be       *)
(* renamed.                                                                *)
(***************************************************************************)

\* reclaimExpired reads a lease whose expiresAt has passed.
FindExpired(w, l) ==
    /\ pc[w] = "idle"
    /\ Holds(l) /\ leased[l].expired
    /\ Goto(w, "expired") /\ Takes(w, leased[l].job, l)
    /\ UNCHANGED <<files, claims, status, dispatchers, executed>>

\* Mutant: the lease is removed before the job is written back.
ReturnLate(w) ==
    /\ pc[w] = "expired"
    /\ Removed(lease[w])
    /\ Goto(w, "returned")
    /\ UNCHANGED <<memory, pending, claims, prepared, released, completed, dispatchers, executed>>

\* It writes the job back to pending/ ("wx": an existing file is left alone) ...
ReturnJob(w) ==
    /\ pc[w] = "expired"
    /\ pending' = pending \cup {job[w]}
    /\ Goto(w, "returned")
    /\ UNCHANGED <<memory, leased, claims, prepared, released, completed, dispatchers, executed>>

\* ... and removes the lease, then goes on with its scan.
DropExpired(w) ==
    /\ pc[w] = "returned"
    /\ Removed(lease[w])
    /\ Goto(w, "idle") /\ Forgets(w)
    /\ UNCHANGED <<pending, claims, prepared, released, completed, dispatchers, executed>>

\* claimDistributedJob reads a pending file and makes up a lease id ...
ReadPending(w, j) ==
    /\ pc[w] = "idle"
    /\ j \in pending
    /\ claims < MaxLeases
    /\ claims' = claims + 1
    /\ Goto(w, "read") /\ Takes(w, j, claims + 1)
    /\ UNCHANGED <<files, status, dispatchers, executed>>

\* ... renames the file, unless another worker took it (ENOENT) ...
RenamePending(w) ==
    LET j == job[w] IN
    /\ pc[w] = "read"
    /\ \/ /\ j \in pending
          /\ pending' = pending \ {j}
          /\ leased' = [leased EXCEPT ![lease[w]] =
                            [job |-> j, worker |-> w, form |-> "bare", expired |-> FALSE]]
          /\ Goto(w, "renamed")
          /\ UNCHANGED memory
       \/ /\ j \notin pending
          /\ Goto(w, "idle") /\ Forgets(w)
          /\ UNCHANGED <<pending, leased>>
    /\ UNCHANGED <<claims, prepared, released, completed, dispatchers, executed>>

\* ... and overwrites the renamed file with the envelope.
WriteEnvelope(w) ==
    /\ pc[w] = "renamed"
    /\ leased' = [leased EXCEPT ![lease[w]].form = "whole"]
    /\ Goto(w, "leased")
    /\ UNCHANGED <<memory, pending, claims, prepared, released, completed, dispatchers, executed>>

-----------------------------------------------------------------------------
(***************************************************************************)
(* executeClaimedJob.  Whatever goes wrong in it becomes a FAIL result.    *)
(***************************************************************************)

Settled(w, outcome) == Goto(w, "settled") /\ status' = [status EXCEPT ![w] = outcome]

\* Sandbox, clone, candidate or session preparation fails; the wait for the
\* release times out; the agent fails, escapes its scope or is not bound.
ExecutionFails(w) ==
    /\ pc[w] \in {"leased", "waiting", "running"}
    /\ Settled(w, "FAIL")
    /\ UNCHANGED <<job, lease, files, claims, dispatchers, executed>>

\* publishDistributedSessionReady reads the lease ...
CheckPublish(w) ==
    /\ pc[w] = "leased"
    /\ \/ Holds(lease[w]) /\ Goto(w, "publishing") /\ UNCHANGED status
       \/ ~Holds(lease[w]) /\ Settled(w, "FAIL")
    /\ UNCHANGED <<job, lease, files, claims, dispatchers, executed>>

\* ... and writes prepared/<job> unless that file exists.
Publish(w) ==
    LET j == job[w] IN
    /\ pc[w] = "publishing"
    /\ \/ /\ prepared[j] = None
          /\ prepared' = [prepared EXCEPT ![j] = SessionOf(w)]
          /\ Goto(w, "waiting")
          /\ UNCHANGED status
       \/ /\ prepared[j] # None
          /\ Settled(w, "FAIL")
          /\ UNCHANGED prepared
    /\ UNCHANGED <<job, lease, pending, leased, claims, released, completed, dispatchers, executed>>

\* Mutant: the worker does not wait for the dispatcher's binding.
RunUnreleased(w) ==
    /\ pc[w] = "waiting"
    /\ Goto(w, "running")
    /\ executed' = executed \cup {<<job[w], SessionOf(w)>>}
    /\ UNCHANGED <<memory, files, claims, dispatchers>>

\* waitForDistributedExecutionRelease finds a release: its own runs the
\* agent, another lease's is DISTRIBUTED_EXECUTION_RELEASE_OWNER_MISMATCH.
SeeRelease(w) ==
    LET j == job[w] IN
    /\ pc[w] = "waiting"
    /\ released[j] # None
    /\ \/ /\ released[j] = SessionOf(w)
          /\ Goto(w, "running")
          /\ UNCHANGED status
          /\ executed' = executed \cup {<<j, SessionOf(w)>>}
       \/ /\ released[j] # SessionOf(w)
          /\ Settled(w, "FAIL")
          /\ UNCHANGED executed
    /\ UNCHANGED <<job, lease, files, claims, dispatchers>>

AgentPasses(w) ==
    /\ pc[w] = "running"
    /\ Settled(w, "PASS")
    /\ UNCHANGED <<job, lease, files, claims, dispatchers, executed>>

\* completeDistributedJob reads the lease; when it is gone the worker loop
\* ends with DISTRIBUTED_QUEUE_LEASE_NOT_FOUND ...
CheckComplete(w) ==
    /\ pc[w] = "settled"
    /\ \/ Holds(lease[w]) /\ Goto(w, "completing") /\ UNCHANGED memory
       \/ ~Holds(lease[w]) /\ Goto(w, "down") /\ Forgets(w)
    /\ UNCHANGED <<files, claims, dispatchers, executed>>

\* ... writes the result, over one that is there ...
RecordResult(w) ==
    /\ pc[w] = "completing"
    /\ completed' = [completed EXCEPT ![job[w]] =
                        [status |-> status[w], session |-> SessionOf(w)]]
    /\ Goto(w, "recorded")
    /\ UNCHANGED <<memory, pending, leased, claims, prepared, released, dispatchers, executed>>

\* ... and removes the lease.
DropLease(w) ==
    /\ pc[w] = "recorded"
    /\ Removed(lease[w])
    /\ Goto(w, "idle") /\ Forgets(w)
    /\ UNCHANGED <<pending, claims, prepared, released, completed, dispatchers, executed>>

-----------------------------------------------------------------------------
(***************************************************************************)
(* dispatchDistributedDelegation.                                          *)
(***************************************************************************)

Ends(j, phase) == dpc' = [dpc EXCEPT ![j] = phase]

Submit(j) ==
    /\ dpc[j] = "new"
    /\ pending' = pending \cup {j}
    /\ Ends(j, "submitted")
    /\ UNCHANGED <<leased, claims, prepared, released, completed, pc, memory, ready, executed>>

\* The wait for the session or for the result times out, the binding of the
\* session cannot be prepared, the receipt of its result is refused, or the
\* controller dies: a later one dispatches a new job.
DispatchFails(j) ==
    /\ dpc[j] \in {"submitted", "binding", "releasing", "released"}
    /\ Ends(j, "error")
    /\ UNCHANGED <<files, claims, pc, memory, ready, executed>>

\* waitForDistributedSessionReady and validateDistributedSessionReady.
SeeReady(j) ==
    /\ dpc[j] = "submitted"
    /\ prepared[j] # None
    /\ Ends(j, "binding")
    /\ ready' = [ready EXCEPT ![j] = prepared[j]]
    /\ UNCHANGED <<files, claims, pc, memory, executed>>

\* releaseDistributedExecutionBinding reads the lease of the session ...
CheckRelease(j) ==
    /\ dpc[j] = "binding"
    /\ Ends(j, IF Holds(ready[j].lease) THEN "releasing" ELSE "error")
    /\ UNCHANGED <<files, claims, pc, memory, ready, executed>>

\* ... and writes released/<job>, which only this dispatcher writes.
Release(j) ==
    /\ dpc[j] = "releasing"
    /\ released' = [released EXCEPT ![j] = ready[j]]
    /\ Ends(j, "released")
    /\ UNCHANGED <<pending, leased, claims, prepared, completed, pc, memory, ready, executed>>

\* Mutant: a failed run is accepted as well.
SeeAnyResult(j) ==
    /\ dpc[j] = "released"
    /\ completed[j] # None
    /\ Ends(j, IF completed[j].session.worker # ready[j].worker THEN "error" ELSE "accepted")
    /\ UNCHANGED <<files, claims, pc, memory, ready, executed>>

\* waitForDistributedResult: the result must come from the worker of the
\* session, and a PASS must carry the binding that was released.
SeeResult(j) ==
    LET result == completed[j] IN
    /\ dpc[j] = "released"
    /\ result # None
    /\ Ends(j, IF \/ result.session.worker # ready[j].worker
                  \/ result.status = "PASS" /\ result.session # ready[j]
               THEN "error"
               ELSE IF result.status = "PASS" THEN "accepted" ELSE "failed")
    /\ UNCHANGED <<files, claims, pc, memory, ready, executed>>

-----------------------------------------------------------------------------

\* The expiresAt of an envelope passes; no step renews it.
Expire(l) ==
    /\ Holds(l) /\ ~leased[l].expired
    /\ leased' = [leased EXCEPT ![l].expired = TRUE]
    /\ UNCHANGED <<pending, claims, prepared, released, completed, pc, memory, dispatchers, executed>>

\* A worker dies at any point and loses what it holds in memory.
Crash(w) ==
    /\ pc[w] # "down"
    /\ Goto(w, "down") /\ Forgets(w)
    /\ UNCHANGED <<files, claims, dispatchers, executed>>

Restart(w) ==
    /\ pc[w] = "down"
    /\ Goto(w, "idle")
    /\ UNCHANGED <<memory, files, claims, dispatchers, executed>>

Work(w) ==
    \/ \E l \in Leases : FindExpired(w, l)
    \/ ReturnJob(w) \/ DropExpired(w)
    \/ \E j \in Jobs : ReadPending(w, j)
    \/ RenamePending(w) \/ WriteEnvelope(w)
    \/ ExecutionFails(w) \/ CheckPublish(w) \/ Publish(w)
    \/ SeeRelease(w) \/ AgentPasses(w)
    \/ CheckComplete(w) \/ RecordResult(w) \/ DropLease(w)

Dispatch(j) ==
    \/ Submit(j) \/ DispatchFails(j) \/ SeeReady(j)
    \/ CheckRelease(j) \/ Release(j) \/ SeeResult(j)

Next ==
    \/ \E w \in Workers : Work(w) \/ Crash(w) \/ Restart(w)
    \/ \E j \in Jobs : Dispatch(j)
    \/ \E l \in Leases : Expire(l)

Spec == Init /\ [][Next]_vars

-----------------------------------------------------------------------------
(***************************************************************************)
(* Properties.                                                             *)
(***************************************************************************)

TypeOK ==
    /\ pending \subseteq Jobs
    /\ leased \in [Leases -> LeaseFile \cup {None}]
    /\ claims \in 0 .. MaxLeases
    /\ prepared \in [Jobs -> Session \cup {None}]
    /\ released \in [Jobs -> Session \cup {None}]
    /\ completed \in [Jobs -> Result \cup {None}]
    /\ pc \in [Workers -> WorkerPhases]
    /\ job \in [Workers -> Jobs \cup {None}]
    /\ lease \in [Workers -> Leases \cup {None}]
    /\ status \in [Workers -> {"PASS", "FAIL", None}]
    /\ dpc \in [Jobs -> DispatchPhases]
    /\ ready \in [Jobs -> Session \cup {None}]
    /\ executed \subseteq (Jobs \X Session)

\* However often a job is reclaimed and claimed again, and although two
\* workers may hold leases of it at once, its agent runs at most once, and
\* only under the session its dispatcher has bound.
RunsBoundOnce ==
    \A r \in executed :
        /\ released[r[1]] = r[2]
        /\ \A q \in executed : q[1] = r[1] => q = r

\* A result the dispatcher accepts is that of a run of the session it bound.
AcceptedWasRun == \A j \in Jobs : dpc[j] = "accepted" => <<j, ready[j]>> \in executed

\* A submitted job is always somewhere: pending, leased or completed.  A
\* crash at any point of a claim, a reclaim or a completion leaves one of
\* its files.
JobVisible ==
    \A j \in Jobs : dpc[j] # "new" =>
        \/ j \in pending
        \/ completed[j] # None
        \/ \E l \in Leases : leased[l] # None /\ leased[l].job = j

=============================================================================
