----------------------- MODULE DistributedQueueProofs -----------------------
(***************************************************************************)
(* For any number of jobs, workers and claims: the agent of a job runs at  *)
(* most once and only as its dispatcher bound it, an accepted result is    *)
(* that run's, and no crash removes a job from the queue's directories.    *)
(***************************************************************************)
EXTENDS DistributedQueue, TLAPS

(***************************************************************************)
(* The argument.  released[j] is written once, by the one dispatcher of j, *)
(* before that dispatcher reaches "released" (OneRelease); a worker runs   *)
(* only the session it finds there, so every run is the released one       *)
(* (RunsReleased).  A PASS, in a worker's memory or in completed/, is the  *)
(* outcome of a run (PassesRan).  A job stays visible because a lease that *)
(* a reclaimer is about to remove never is the only file of its job:       *)
(* it was returned to pending/ first, and whoever takes it from there      *)
(* leaves a file that nobody is about to remove (Anchored).                *)
(***************************************************************************)

OneRelease ==
    \A j \in Jobs :
        /\ dpc[j] \in {"new", "submitted", "binding", "releasing"} => released[j] = None
        /\ dpc[j] \in {"released", "accepted", "failed"} => released[j] = ready[j]
        /\ dpc[j] \in {"binding", "releasing", "released", "accepted"} => ready[j] # None

RunsReleased == \A r \in executed : released[r[1]] = r[2]

PassesRan ==
    /\ \A w \in Workers :
          pc[w] = "running" \/ status[w] = "PASS" => <<job[w], SessionOf(w)>> \in executed
    /\ \A j \in Jobs :
          (completed[j] # None /\ completed[j].status = "PASS")
              => <<j, completed[j].session>> \in executed
    /\ AcceptedWasRun

\* What a worker has in memory at each phase.
MemoryOK ==
    \A w \in Workers :
        /\ pc[w] \notin {"idle", "down"} => job[w] \in Jobs /\ lease[w] \in Leases
        /\ pc[w] \in {"settled", "completing", "recorded"} <=> status[w] # None

\* Lease ids are fresh: the file a worker is about to create is not there,
\* and nobody else knows its id before the envelope is written.
FreshLeases ==
    /\ \A l \in Leases : l > claims => leased[l] = None
    /\ \A w \in Workers : lease[w] \in Leases => lease[w] <= claims
    /\ \A w \in Workers : pc[w] = "read" => leased[lease[w]] = None
    /\ \A w \in Workers : pc[w] \in {"read", "renamed"} =>
          \A v \in Workers : lease[v] = lease[w] => v = w

\* The lease a worker holds or reclaims is that of its job, and is bare only
\* before its envelope is written.
LeaseJobs ==
    \A w \in Workers :
        /\ pc[w] = "renamed" => leased[lease[w]] # None /\ leased[lease[w]].form = "bare"
        /\ (pc[w] \notin {"idle", "down", "read"} /\ leased[lease[w]] # None) =>
               leased[lease[w]].job = job[w]
        /\ (pc[w] \notin {"idle", "down", "read", "renamed"} /\ leased[lease[w]] # None) =>
               leased[lease[w]].form = "whole"

\* l will be removed, by a reclaimer that has returned its job or by the
\* worker that has recorded its result.
Doomed(l) == \E w \in Workers : pc[w] \in {"returned", "recorded"} /\ lease[w] = l

Anchored ==
    \A j \in Jobs : dpc[j] # "new" =>
        \/ j \in pending
        \/ completed[j] # None
        \/ \E l \in Leases : leased[l] # None /\ leased[l].job = j /\ ~Doomed(l)

QueueInv ==
    /\ TypeOK
    /\ OneRelease
    /\ RunsReleased
    /\ PassesRan
    /\ MemoryOK
    /\ FreshLeases
    /\ LeaseJobs
    /\ Anchored

-----------------------------------------------------------------------------

LEMMA QueueInvInit == Init => QueueInv
BY QueueAssumption DEF Init, QueueInv, TypeOK, OneRelease, RunsReleased, PassesRan, MemoryOK,
   FreshLeases, LeaseJobs, Anchored, AcceptedWasRun, WorkerPhases, DispatchPhases, Leases

LEMMA SessionType ==
    ASSUME NEW w \in Workers, lease[w] \in Leases
    PROVE  SessionOf(w) \in Session
BY DEF SessionOf, Session

LEMMA LeaseFileType ==
    /\ \A j \in Jobs, w \in Workers :
          [job |-> j, worker |-> w, form |-> "bare", expired |-> FALSE] \in LeaseFile
    /\ \A f \in LeaseFile : f.job \in Jobs /\ f.worker \in Workers
    /\ \A f \in LeaseFile :
          /\ [f EXCEPT !.form = "whole"] \in LeaseFile
          /\ [f EXCEPT !.form = "whole"].job = f.job
          /\ [f EXCEPT !.form = "whole"].form = "whole"
          /\ [f EXCEPT !.expired = TRUE] \in LeaseFile
          /\ [f EXCEPT !.expired = TRUE].job = f.job
          /\ [f EXCEPT !.expired = TRUE].form = f.form
BY DEF LeaseFile

LEMMA TypeStep == TypeOK /\ MemoryOK /\ LeaseJobs /\ [Next]_vars => TypeOK'
<1> SUFFICES ASSUME TypeOK /\ MemoryOK /\ LeaseJobs, [Next]_vars PROVE TypeOK'
    OBVIOUS
<1> USE QueueAssumption DEF TypeOK, WorkerPhases, DispatchPhases, MemoryOK, LeaseJobs, files,
   memory, dispatchers
<1>1. ASSUME NEW w \in Workers, NEW l \in Leases, FindExpired(w, l) PROVE TypeOK'
    BY <1>1, LeaseFileType DEF FindExpired, Holds, Goto, Takes
<1>2. ASSUME NEW w \in Workers, NEW j \in Jobs, ReadPending(w, j) PROVE TypeOK'
    BY <1>2 DEF ReadPending, Goto, Takes, Leases
<1>3. ASSUME NEW w \in Workers, ReturnJob(w) PROVE TypeOK'
    BY <1>3 DEF ReturnJob, Goto
<1>4. ASSUME NEW w \in Workers, DropExpired(w) PROVE TypeOK'
    BY <1>4 DEF DropExpired, Removed, Goto, Forgets
<1>5. ASSUME NEW w \in Workers, RenamePending(w) PROVE TypeOK'
    <2>1. CASE job[w] \in pending
        BY <1>5, <2>1, LeaseFileType DEF RenamePending, Goto
    <2>2. CASE job[w] \notin pending
        BY <1>5, <2>2 DEF RenamePending, Goto, Forgets
    <2> QED
        BY <2>1, <2>2
<1>6. ASSUME NEW w \in Workers, WriteEnvelope(w) PROVE TypeOK'
    <2>1. lease[w] \in Leases /\ leased[lease[w]] \in LeaseFile
        BY <1>6 DEF WriteEnvelope
    <2>2. leased' = [leased EXCEPT ![lease[w]] = [leased[lease[w]] EXCEPT !.form = "whole"]]
        BY <1>6 DEF WriteEnvelope
    <2>3. leased' \in [Leases -> LeaseFile \cup {None}]
        BY <2>1, <2>2, LeaseFileType
    <2> QED
        BY <1>6, <2>3 DEF WriteEnvelope, Goto
<1>7. ASSUME NEW w \in Workers, ExecutionFails(w) PROVE TypeOK'
    BY <1>7 DEF ExecutionFails, Settled, Goto
<1>8. ASSUME NEW w \in Workers, CheckPublish(w) PROVE TypeOK'
    <2>1. CASE Holds(lease[w])
        BY <1>8, <2>1 DEF CheckPublish, Settled, Goto
    <2>2. CASE ~Holds(lease[w])
        BY <1>8, <2>2 DEF CheckPublish, Settled, Goto
    <2> QED
        BY <2>1, <2>2
<1>9. ASSUME NEW w \in Workers, Publish(w) PROVE TypeOK'
    <2>1. CASE prepared[job[w]] = None
        BY <1>9, <2>1, SessionType DEF Publish, Goto
    <2>2. CASE prepared[job[w]] # None
        BY <1>9, <2>2 DEF Publish, Settled, Goto
    <2> QED
        BY <2>1, <2>2
<1>10. ASSUME NEW w \in Workers, SeeRelease(w) PROVE TypeOK'
    <2>1. CASE released[job[w]] = SessionOf(w)
        BY <1>10, <2>1, SessionType DEF SeeRelease, Goto
    <2>2. CASE released[job[w]] # SessionOf(w)
        BY <1>10, <2>2 DEF SeeRelease, Settled, Goto
    <2> QED
        BY <2>1, <2>2
<1>11. ASSUME NEW w \in Workers, AgentPasses(w) PROVE TypeOK'
    BY <1>11 DEF AgentPasses, Settled, Goto
<1>12. ASSUME NEW w \in Workers, CheckComplete(w) PROVE TypeOK'
    <2>1. CASE Holds(lease[w])
        BY <1>12, <2>1 DEF CheckComplete, Goto, Forgets
    <2>2. CASE ~Holds(lease[w])
        BY <1>12, <2>2 DEF CheckComplete, Goto, Forgets
    <2> QED
        BY <2>1, <2>2
<1>13. ASSUME NEW w \in Workers, RecordResult(w) PROVE TypeOK'
    <2>1. SessionOf(w) \in Session /\ status[w] \in {"PASS", "FAIL"} /\ job[w] \in Jobs
        BY <1>13, SessionType DEF RecordResult
    <2>2. [status |-> status[w], session |-> SessionOf(w)] \in Result
        BY <2>1 DEF Result
    <2> QED
        BY <1>13, <2>1, <2>2 DEF RecordResult, Goto
<1>14. ASSUME NEW w \in Workers, DropLease(w) PROVE TypeOK'
    BY <1>14 DEF DropLease, Removed, Goto, Forgets
<1>15. ASSUME NEW w \in Workers, Crash(w) PROVE TypeOK'
    BY <1>15 DEF Crash, Goto, Forgets
<1>16. ASSUME NEW w \in Workers, Restart(w) PROVE TypeOK'
    BY <1>16 DEF Restart, Goto
<1>17. ASSUME NEW j \in Jobs, Submit(j) PROVE TypeOK'
    BY <1>17 DEF Submit, Ends
<1>18. ASSUME NEW j \in Jobs, DispatchFails(j) PROVE TypeOK'
    BY <1>18 DEF DispatchFails, Ends
<1>19. ASSUME NEW j \in Jobs, SeeReady(j) PROVE TypeOK'
    BY <1>19 DEF SeeReady, Ends
<1>20. ASSUME NEW j \in Jobs, CheckRelease(j) PROVE TypeOK'
    BY <1>20 DEF CheckRelease, Ends
<1>21. ASSUME NEW j \in Jobs, Release(j) PROVE TypeOK'
    BY <1>21 DEF Release, Ends
<1>22. ASSUME NEW j \in Jobs, SeeResult(j) PROVE TypeOK'
    BY <1>22 DEF SeeResult, Ends
<1>23. ASSUME NEW l \in Leases, Expire(l) PROVE TypeOK'
    <2>1. leased[l] \in LeaseFile
        BY <1>23 DEF Expire, Holds
    <2>2. leased' = [leased EXCEPT ![l] = [leased[l] EXCEPT !.expired = TRUE]]
        BY <1>23 DEF Expire
    <2>3. leased' \in [Leases -> LeaseFile \cup {None}]
        BY <2>1, <2>2, LeaseFileType
    <2> QED
        BY <1>23, <2>3 DEF Expire
<1>24. CASE UNCHANGED vars
    BY <1>24 DEF vars
<1> QED
    BY <1>1, <1>2, <1>3, <1>4, <1>5, <1>6, <1>7, <1>8, <1>9, <1>10, <1>11, <1>12, <1>13, <1>14,
       <1>15, <1>16, <1>17, <1>18, <1>19, <1>20, <1>21, <1>22, <1>23, <1>24 DEF Next, Work, Dispatch

LEMMA MemoryStep == TypeOK /\ MemoryOK /\ [Next]_vars => MemoryOK'
<1> SUFFICES ASSUME TypeOK /\ MemoryOK, [Next]_vars PROVE MemoryOK'
    OBVIOUS
<1> USE QueueAssumption DEF files, memory, dispatchers, TypeOK, MemoryOK, WorkerPhases
<1>1. ASSUME NEW w \in Workers, NEW l \in Leases, FindExpired(w, l) PROVE MemoryOK'
    BY <1>1, LeaseFileType DEF FindExpired, Holds, Goto, Takes
<1>2. ASSUME NEW w \in Workers, NEW j \in Jobs, ReadPending(w, j) PROVE MemoryOK'
    BY <1>2 DEF ReadPending, Goto, Takes, Leases
<1>3. ASSUME NEW w \in Workers, ReturnJob(w) PROVE MemoryOK'
    BY <1>3 DEF ReturnJob, Goto
<1>4. ASSUME NEW w \in Workers, DropExpired(w) PROVE MemoryOK'
    BY <1>4 DEF DropExpired, Removed, Goto, Forgets
<1>5. ASSUME NEW w \in Workers, RenamePending(w) PROVE MemoryOK'
    <2>1. CASE job[w] \in pending
        BY <1>5, <2>1 DEF RenamePending, Goto, Forgets
    <2>2. CASE job[w] \notin pending
        BY <1>5, <2>2 DEF RenamePending, Goto, Forgets
    <2> QED
        BY <2>1, <2>2
<1>6. ASSUME NEW w \in Workers, WriteEnvelope(w) PROVE MemoryOK'
    BY <1>6 DEF WriteEnvelope, Goto
<1>7. ASSUME NEW w \in Workers, ExecutionFails(w) PROVE MemoryOK'
    BY <1>7 DEF ExecutionFails, Settled, Goto
<1>8. ASSUME NEW w \in Workers, CheckPublish(w) PROVE MemoryOK'
    <2>1. CASE Holds(lease[w])
        BY <1>8, <2>1 DEF CheckPublish, Settled, Goto
    <2>2. CASE ~Holds(lease[w])
        BY <1>8, <2>2 DEF CheckPublish, Settled, Goto
    <2> QED
        BY <2>1, <2>2
<1>9. ASSUME NEW w \in Workers, Publish(w) PROVE MemoryOK'
    <2>1. CASE prepared[job[w]] = None
        BY <1>9, <2>1 DEF Publish, Settled, Goto
    <2>2. CASE prepared[job[w]] # None
        BY <1>9, <2>2 DEF Publish, Settled, Goto
    <2> QED
        BY <2>1, <2>2
<1>10. ASSUME NEW w \in Workers, SeeRelease(w) PROVE MemoryOK'
    <2>1. CASE released[job[w]] = SessionOf(w)
        BY <1>10, <2>1 DEF SeeRelease, Settled, Goto
    <2>2. CASE released[job[w]] # SessionOf(w)
        BY <1>10, <2>2 DEF SeeRelease, Settled, Goto
    <2> QED
        BY <2>1, <2>2
<1>11. ASSUME NEW w \in Workers, AgentPasses(w) PROVE MemoryOK'
    BY <1>11 DEF AgentPasses, Settled, Goto
<1>12. ASSUME NEW w \in Workers, CheckComplete(w) PROVE MemoryOK'
    <2>1. CASE Holds(lease[w])
        BY <1>12, <2>1 DEF CheckComplete, Goto, Forgets
    <2>2. CASE ~Holds(lease[w])
        BY <1>12, <2>2 DEF CheckComplete, Goto, Forgets
    <2> QED
        BY <2>1, <2>2
<1>13. ASSUME NEW w \in Workers, RecordResult(w) PROVE MemoryOK'
    BY <1>13 DEF RecordResult, Goto
<1>14. ASSUME NEW w \in Workers, DropLease(w) PROVE MemoryOK'
    BY <1>14 DEF DropLease, Removed, Goto, Forgets
<1>15. ASSUME NEW w \in Workers, Crash(w) PROVE MemoryOK'
    BY <1>15 DEF Crash, Goto, Forgets
<1>16. ASSUME NEW w \in Workers, Restart(w) PROVE MemoryOK'
    BY <1>16 DEF Restart, Goto
<1>17. ASSUME NEW j \in Jobs, Submit(j) PROVE MemoryOK'
    BY <1>17 DEF Submit, Ends
<1>18. ASSUME NEW j \in Jobs, DispatchFails(j) PROVE MemoryOK'
    BY <1>18 DEF DispatchFails, Ends
<1>19. ASSUME NEW j \in Jobs, SeeReady(j) PROVE MemoryOK'
    BY <1>19 DEF SeeReady, Ends
<1>20. ASSUME NEW j \in Jobs, CheckRelease(j) PROVE MemoryOK'
    BY <1>20 DEF CheckRelease, Ends
<1>21. ASSUME NEW j \in Jobs, Release(j) PROVE MemoryOK'
    BY <1>21 DEF Release, Ends
<1>22. ASSUME NEW j \in Jobs, SeeResult(j) PROVE MemoryOK'
    BY <1>22 DEF SeeResult, Ends
<1>23. ASSUME NEW l \in Leases, Expire(l) PROVE MemoryOK'
    BY <1>23 DEF Expire, Holds
<1>24. CASE UNCHANGED vars
    BY <1>24 DEF vars
<1> QED
    BY <1>1, <1>2, <1>3, <1>4, <1>5, <1>6, <1>7, <1>8, <1>9, <1>10, <1>11, <1>12, <1>13, <1>14,
       <1>15, <1>16, <1>17, <1>18, <1>19, <1>20, <1>21, <1>22, <1>23, <1>24 DEF Next, Work, Dispatch

LEMMA ReleaseStep == TypeOK /\ OneRelease /\ [Next]_vars => OneRelease'
<1> SUFFICES ASSUME TypeOK /\ OneRelease, [Next]_vars PROVE OneRelease'
    OBVIOUS
<1> USE QueueAssumption DEF files, memory, dispatchers, TypeOK, OneRelease
<1>1. ASSUME NEW w \in Workers, NEW l \in Leases, FindExpired(w, l) PROVE OneRelease'
    BY <1>1 DEF FindExpired, Holds, Goto, Takes
<1>2. ASSUME NEW w \in Workers, NEW j \in Jobs, ReadPending(w, j) PROVE OneRelease'
    BY <1>2 DEF ReadPending, Goto, Takes
<1>3. ASSUME NEW w \in Workers, ReturnJob(w) PROVE OneRelease'
    BY <1>3 DEF ReturnJob, Goto
<1>4. ASSUME NEW w \in Workers, DropExpired(w) PROVE OneRelease'
    BY <1>4 DEF DropExpired, Removed, Goto, Forgets
<1>5. ASSUME NEW w \in Workers, RenamePending(w) PROVE OneRelease'
    <2>1. CASE job[w] \in pending
        BY <1>5, <2>1 DEF RenamePending, Goto, Forgets
    <2>2. CASE job[w] \notin pending
        BY <1>5, <2>2 DEF RenamePending, Goto, Forgets
    <2> QED
        BY <2>1, <2>2
<1>6. ASSUME NEW w \in Workers, WriteEnvelope(w) PROVE OneRelease'
    BY <1>6 DEF WriteEnvelope, Goto
<1>7. ASSUME NEW w \in Workers, ExecutionFails(w) PROVE OneRelease'
    BY <1>7 DEF ExecutionFails, Settled, Goto
<1>8. ASSUME NEW w \in Workers, CheckPublish(w) PROVE OneRelease'
    <2>1. CASE Holds(lease[w])
        BY <1>8, <2>1 DEF CheckPublish, Settled, Goto
    <2>2. CASE ~Holds(lease[w])
        BY <1>8, <2>2 DEF CheckPublish, Settled, Goto
    <2> QED
        BY <2>1, <2>2
<1>9. ASSUME NEW w \in Workers, Publish(w) PROVE OneRelease'
    <2>1. CASE prepared[job[w]] = None
        BY <1>9, <2>1 DEF Publish, Settled, Goto
    <2>2. CASE prepared[job[w]] # None
        BY <1>9, <2>2 DEF Publish, Settled, Goto
    <2> QED
        BY <2>1, <2>2
<1>10. ASSUME NEW w \in Workers, SeeRelease(w) PROVE OneRelease'
    <2>1. CASE released[job[w]] = SessionOf(w)
        BY <1>10, <2>1 DEF SeeRelease, Settled, Goto
    <2>2. CASE released[job[w]] # SessionOf(w)
        BY <1>10, <2>2 DEF SeeRelease, Settled, Goto
    <2> QED
        BY <2>1, <2>2
<1>11. ASSUME NEW w \in Workers, AgentPasses(w) PROVE OneRelease'
    BY <1>11 DEF AgentPasses, Settled, Goto
<1>12. ASSUME NEW w \in Workers, CheckComplete(w) PROVE OneRelease'
    <2>1. CASE Holds(lease[w])
        BY <1>12, <2>1 DEF CheckComplete, Goto, Forgets
    <2>2. CASE ~Holds(lease[w])
        BY <1>12, <2>2 DEF CheckComplete, Goto, Forgets
    <2> QED
        BY <2>1, <2>2
<1>13. ASSUME NEW w \in Workers, RecordResult(w) PROVE OneRelease'
    BY <1>13 DEF RecordResult, Goto
<1>14. ASSUME NEW w \in Workers, DropLease(w) PROVE OneRelease'
    BY <1>14 DEF DropLease, Removed, Goto, Forgets
<1>15. ASSUME NEW w \in Workers, Crash(w) PROVE OneRelease'
    BY <1>15 DEF Crash, Goto, Forgets
<1>16. ASSUME NEW w \in Workers, Restart(w) PROVE OneRelease'
    BY <1>16 DEF Restart, Goto
<1>17. ASSUME NEW j \in Jobs, Submit(j) PROVE OneRelease'
    BY <1>17 DEF Submit, Ends
<1>18. ASSUME NEW j \in Jobs, DispatchFails(j) PROVE OneRelease'
    BY <1>18 DEF DispatchFails, Ends
<1>19. ASSUME NEW j \in Jobs, SeeReady(j) PROVE OneRelease'
    BY <1>19 DEF SeeReady, Ends
<1>20. ASSUME NEW j \in Jobs, CheckRelease(j) PROVE OneRelease'
    BY <1>20 DEF CheckRelease, Ends
<1>21. ASSUME NEW j \in Jobs, Release(j) PROVE OneRelease'
    BY <1>21 DEF Release, Ends
<1>22. ASSUME NEW j \in Jobs, SeeResult(j) PROVE OneRelease'
    BY <1>22 DEF SeeResult, Ends
<1>23. ASSUME NEW l \in Leases, Expire(l) PROVE OneRelease'
    BY <1>23 DEF Expire, Holds
<1>24. CASE UNCHANGED vars
    BY <1>24 DEF vars
<1> QED
    BY <1>1, <1>2, <1>3, <1>4, <1>5, <1>6, <1>7, <1>8, <1>9, <1>10, <1>11, <1>12, <1>13, <1>14,
       <1>15, <1>16, <1>17, <1>18, <1>19, <1>20, <1>21, <1>22, <1>23, <1>24 DEF Next, Work, Dispatch

LEMMA FreshStep == TypeOK /\ MemoryOK /\ LeaseJobs /\ FreshLeases /\ [Next]_vars => FreshLeases'
<1> SUFFICES ASSUME TypeOK /\ MemoryOK /\ LeaseJobs /\ FreshLeases, [Next]_vars PROVE FreshLeases'
    OBVIOUS
<1> USE QueueAssumption DEF files, memory, dispatchers, TypeOK, FreshLeases, MemoryOK, LeaseJobs
<1>1. ASSUME NEW w \in Workers, NEW l \in Leases, FindExpired(w, l) PROVE FreshLeases'
    <2>1. /\ pc' = [pc EXCEPT ![w] = "expired"] /\ lease' = [lease EXCEPT ![w] = l]
          /\ UNCHANGED <<leased, claims>>
          /\ leased[l] # None /\ leased[l].form = "whole"
        BY <1>1 DEF FindExpired, Holds, Goto, Takes
    <2>2. l <= claims
        BY <2>1 DEF Leases
    <2>3. \A v \in Workers : pc[v] \in {"read", "renamed"} => lease[v] # l
        BY <2>1
    <2>4. \A v \in Workers : lease'[v] \in Leases => lease'[v] <= claims'
        BY <2>1, <2>2
    <2> QED
        BY <2>1, <2>3, <2>4
<1>2. ASSUME NEW w \in Workers, NEW j \in Jobs, ReadPending(w, j) PROVE FreshLeases'
    <2>1. /\ pc' = [pc EXCEPT ![w] = "read"]
          /\ lease' = [lease EXCEPT ![w] = claims + 1]
          /\ claims' = claims + 1 /\ claims \in Nat /\ claims + 1 \in Leases
          /\ UNCHANGED leased
        BY <1>2 DEF ReadPending, Goto, Takes, Leases
    <2>2. \A v \in Workers : lease[v] \in Leases => lease[v] < claims + 1 /\ lease[v] # claims + 1
        BY <2>1 DEF Leases
    <2>3. \A v \in Workers : lease[v] # claims + 1
        BY <2>1, <2>2
    <2>4. \A l \in Leases : l > claims' => leased'[l] = None
        BY <2>1 DEF Leases
    <2>5. \A v \in Workers : lease'[v] \in Leases => lease'[v] <= claims'
        BY <2>1, <2>2 DEF Leases
    <2>6. leased[claims + 1] = None
        BY <2>1 DEF Leases
    <2>7. \A v \in Workers : pc'[v] = "read" => leased'[lease'[v]] = None
        BY <2>1, <2>6
    <2>8. \A v \in Workers : pc'[v] \in {"read", "renamed"} =>
              \A u \in Workers : lease'[u] = lease'[v] => u = v
        BY <2>1, <2>3
    <2> QED
        BY <2>4, <2>5, <2>7, <2>8
<1>3. ASSUME NEW w \in Workers, ReturnJob(w) PROVE FreshLeases'
    BY <1>3 DEF ReturnJob, Goto
<1>4. ASSUME NEW w \in Workers, DropExpired(w) PROVE FreshLeases'
    BY <1>4 DEF DropExpired, Removed, Goto, Forgets
<1>5. ASSUME NEW w \in Workers, RenamePending(w) PROVE FreshLeases'
    <2>1. CASE job[w] \in pending
        <3>1. /\ lease[w] \in Leases /\ lease[w] <= claims
              /\ pc' = [pc EXCEPT ![w] = "renamed"]
              /\ UNCHANGED <<lease, claims>>
              /\ \A l \in Leases : l # lease[w] => leased'[l] = leased[l]
            BY <1>5, <2>1 DEF RenamePending, Goto
        <3>2. \A l \in Leases : l > claims' => leased'[l] = None
            <4> SUFFICES ASSUME NEW l \in Leases, l > claims PROVE leased'[l] = None
                BY <3>1
            <4>1. l # lease[w]
                BY <3>1 DEF Leases
            <4> QED
                BY <3>1, <4>1
        <3>3. \A v \in Workers : lease'[v] \in Leases => lease'[v] <= claims'
            BY <3>1
        <3>4. \A v \in Workers : pc'[v] = "read" => leased'[lease'[v]] = None
            BY <1>5, <3>1 DEF RenamePending
        <3>5. \A v \in Workers : pc'[v] \in {"read", "renamed"} =>
                  \A u \in Workers : lease'[u] = lease'[v] => u = v
            BY <1>5, <3>1 DEF RenamePending
        <3> QED
            BY <3>2, <3>3, <3>4, <3>5
    <2>2. CASE job[w] \notin pending
        BY <1>5, <2>2 DEF RenamePending, Goto, Forgets
    <2> QED
        BY <2>1, <2>2
<1>6. ASSUME NEW w \in Workers, WriteEnvelope(w) PROVE FreshLeases'
    BY <1>6 DEF WriteEnvelope, Goto, Leases
<1>7. ASSUME NEW w \in Workers, ExecutionFails(w) PROVE FreshLeases'
    BY <1>7 DEF ExecutionFails, Settled, Goto
<1>8. ASSUME NEW w \in Workers, CheckPublish(w) PROVE FreshLeases'
    <2>1. CASE Holds(lease[w])
        BY <1>8, <2>1 DEF CheckPublish, Settled, Goto
    <2>2. CASE ~Holds(lease[w])
        BY <1>8, <2>2 DEF CheckPublish, Settled, Goto
    <2> QED
        BY <2>1, <2>2
<1>9. ASSUME NEW w \in Workers, Publish(w) PROVE FreshLeases'
    <2>1. CASE prepared[job[w]] = None
        BY <1>9, <2>1 DEF Publish, Settled, Goto
    <2>2. CASE prepared[job[w]] # None
        BY <1>9, <2>2 DEF Publish, Settled, Goto
    <2> QED
        BY <2>1, <2>2
<1>10. ASSUME NEW w \in Workers, SeeRelease(w) PROVE FreshLeases'
    <2>1. CASE released[job[w]] = SessionOf(w)
        BY <1>10, <2>1 DEF SeeRelease, Settled, Goto
    <2>2. CASE released[job[w]] # SessionOf(w)
        BY <1>10, <2>2 DEF SeeRelease, Settled, Goto
    <2> QED
        BY <2>1, <2>2
<1>11. ASSUME NEW w \in Workers, AgentPasses(w) PROVE FreshLeases'
    BY <1>11 DEF AgentPasses, Settled, Goto
<1>12. ASSUME NEW w \in Workers, CheckComplete(w) PROVE FreshLeases'
    <2>1. CASE Holds(lease[w])
        BY <1>12, <2>1 DEF CheckComplete, Goto, Forgets
    <2>2. CASE ~Holds(lease[w])
        BY <1>12, <2>2 DEF CheckComplete, Goto, Forgets
    <2> QED
        BY <2>1, <2>2
<1>13. ASSUME NEW w \in Workers, RecordResult(w) PROVE FreshLeases'
    BY <1>13 DEF RecordResult, Goto
<1>14. ASSUME NEW w \in Workers, DropLease(w) PROVE FreshLeases'
    BY <1>14 DEF DropLease, Removed, Goto, Forgets
<1>15. ASSUME NEW w \in Workers, Crash(w) PROVE FreshLeases'
    BY <1>15 DEF Crash, Goto, Forgets
<1>16. ASSUME NEW w \in Workers, Restart(w) PROVE FreshLeases'
    BY <1>16 DEF Restart, Goto
<1>17. ASSUME NEW j \in Jobs, Submit(j) PROVE FreshLeases'
    BY <1>17 DEF Submit, Ends
<1>18. ASSUME NEW j \in Jobs, DispatchFails(j) PROVE FreshLeases'
    BY <1>18 DEF DispatchFails, Ends
<1>19. ASSUME NEW j \in Jobs, SeeReady(j) PROVE FreshLeases'
    BY <1>19 DEF SeeReady, Ends
<1>20. ASSUME NEW j \in Jobs, CheckRelease(j) PROVE FreshLeases'
    BY <1>20 DEF CheckRelease, Ends
<1>21. ASSUME NEW j \in Jobs, Release(j) PROVE FreshLeases'
    BY <1>21 DEF Release, Ends
<1>22. ASSUME NEW j \in Jobs, SeeResult(j) PROVE FreshLeases'
    BY <1>22 DEF SeeResult, Ends
<1>23. ASSUME NEW l \in Leases, Expire(l) PROVE FreshLeases'
    BY <1>23 DEF Expire, Holds, Leases
<1>24. CASE UNCHANGED vars
    BY <1>24 DEF vars
<1> QED
    BY <1>1, <1>2, <1>3, <1>4, <1>5, <1>6, <1>7, <1>8, <1>9, <1>10, <1>11, <1>12, <1>13, <1>14,
       <1>15, <1>16, <1>17, <1>18, <1>19, <1>20, <1>21, <1>22, <1>23, <1>24 DEF Next, Work, Dispatch

LEMMA RunsStep == TypeOK /\ OneRelease /\ RunsReleased /\ [Next]_vars => RunsReleased'
<1> SUFFICES ASSUME TypeOK /\ OneRelease /\ RunsReleased, [Next]_vars PROVE RunsReleased'
    OBVIOUS
<1> USE QueueAssumption DEF files, memory, dispatchers, TypeOK, OneRelease, RunsReleased
<1>1. ASSUME NEW w \in Workers, NEW l \in Leases, FindExpired(w, l) PROVE RunsReleased'
    BY <1>1 DEF FindExpired, Holds, Goto, Takes
<1>2. ASSUME NEW w \in Workers, NEW j \in Jobs, ReadPending(w, j) PROVE RunsReleased'
    BY <1>2 DEF ReadPending, Goto, Takes
<1>3. ASSUME NEW w \in Workers, ReturnJob(w) PROVE RunsReleased'
    BY <1>3 DEF ReturnJob, Goto
<1>4. ASSUME NEW w \in Workers, DropExpired(w) PROVE RunsReleased'
    BY <1>4 DEF DropExpired, Removed, Goto, Forgets
<1>5. ASSUME NEW w \in Workers, RenamePending(w) PROVE RunsReleased'
    <2>1. CASE job[w] \in pending
        BY <1>5, <2>1 DEF RenamePending, Goto, Forgets
    <2>2. CASE job[w] \notin pending
        BY <1>5, <2>2 DEF RenamePending, Goto, Forgets
    <2> QED
        BY <2>1, <2>2
<1>6. ASSUME NEW w \in Workers, WriteEnvelope(w) PROVE RunsReleased'
    BY <1>6 DEF WriteEnvelope, Goto
<1>7. ASSUME NEW w \in Workers, ExecutionFails(w) PROVE RunsReleased'
    BY <1>7 DEF ExecutionFails, Settled, Goto
<1>8. ASSUME NEW w \in Workers, CheckPublish(w) PROVE RunsReleased'
    <2>1. CASE Holds(lease[w])
        BY <1>8, <2>1 DEF CheckPublish, Settled, Goto
    <2>2. CASE ~Holds(lease[w])
        BY <1>8, <2>2 DEF CheckPublish, Settled, Goto
    <2> QED
        BY <2>1, <2>2
<1>9. ASSUME NEW w \in Workers, Publish(w) PROVE RunsReleased'
    <2>1. CASE prepared[job[w]] = None
        BY <1>9, <2>1 DEF Publish, Settled, Goto
    <2>2. CASE prepared[job[w]] # None
        BY <1>9, <2>2 DEF Publish, Settled, Goto
    <2> QED
        BY <2>1, <2>2
<1>10. ASSUME NEW w \in Workers, SeeRelease(w) PROVE RunsReleased'
    <2>1. CASE released[job[w]] = SessionOf(w)
        BY <1>10, <2>1 DEF SeeRelease, Settled, Goto
    <2>2. CASE released[job[w]] # SessionOf(w)
        BY <1>10, <2>2 DEF SeeRelease, Settled, Goto
    <2> QED
        BY <2>1, <2>2
<1>11. ASSUME NEW w \in Workers, AgentPasses(w) PROVE RunsReleased'
    BY <1>11 DEF AgentPasses, Settled, Goto
<1>12. ASSUME NEW w \in Workers, CheckComplete(w) PROVE RunsReleased'
    <2>1. CASE Holds(lease[w])
        BY <1>12, <2>1 DEF CheckComplete, Goto, Forgets
    <2>2. CASE ~Holds(lease[w])
        BY <1>12, <2>2 DEF CheckComplete, Goto, Forgets
    <2> QED
        BY <2>1, <2>2
<1>13. ASSUME NEW w \in Workers, RecordResult(w) PROVE RunsReleased'
    BY <1>13 DEF RecordResult, Goto
<1>14. ASSUME NEW w \in Workers, DropLease(w) PROVE RunsReleased'
    BY <1>14 DEF DropLease, Removed, Goto, Forgets
<1>15. ASSUME NEW w \in Workers, Crash(w) PROVE RunsReleased'
    BY <1>15 DEF Crash, Goto, Forgets
<1>16. ASSUME NEW w \in Workers, Restart(w) PROVE RunsReleased'
    BY <1>16 DEF Restart, Goto
<1>17. ASSUME NEW j \in Jobs, Submit(j) PROVE RunsReleased'
    BY <1>17 DEF Submit, Ends
<1>18. ASSUME NEW j \in Jobs, DispatchFails(j) PROVE RunsReleased'
    BY <1>18 DEF DispatchFails, Ends
<1>19. ASSUME NEW j \in Jobs, SeeReady(j) PROVE RunsReleased'
    BY <1>19 DEF SeeReady, Ends
<1>20. ASSUME NEW j \in Jobs, CheckRelease(j) PROVE RunsReleased'
    BY <1>20 DEF CheckRelease, Ends
<1>21. ASSUME NEW j \in Jobs, Release(j) PROVE RunsReleased'
    BY <1>21 DEF Release, Ends
<1>22. ASSUME NEW j \in Jobs, SeeResult(j) PROVE RunsReleased'
    BY <1>22 DEF SeeResult, Ends
<1>23. ASSUME NEW l \in Leases, Expire(l) PROVE RunsReleased'
    BY <1>23 DEF Expire, Holds
<1>24. CASE UNCHANGED vars
    BY <1>24 DEF vars
<1> QED
    BY <1>1, <1>2, <1>3, <1>4, <1>5, <1>6, <1>7, <1>8, <1>9, <1>10, <1>11, <1>12, <1>13, <1>14,
       <1>15, <1>16, <1>17, <1>18, <1>19, <1>20, <1>21, <1>22, <1>23, <1>24 DEF Next, Work, Dispatch

LEMMA PassesStep == TypeOK /\ OneRelease /\ MemoryOK /\ PassesRan /\ [Next]_vars => PassesRan'
<1> SUFFICES ASSUME TypeOK /\ OneRelease /\ MemoryOK /\ PassesRan, [Next]_vars PROVE PassesRan'
    OBVIOUS
<1> USE QueueAssumption DEF files, memory, dispatchers, TypeOK, OneRelease, MemoryOK, PassesRan,
   AcceptedWasRun, SessionOf
<1>1. ASSUME NEW w \in Workers, NEW l \in Leases, FindExpired(w, l) PROVE PassesRan'
    BY <1>1 DEF FindExpired, Holds, Goto, Takes
<1>2. ASSUME NEW w \in Workers, NEW j \in Jobs, ReadPending(w, j) PROVE PassesRan'
    BY <1>2 DEF ReadPending, Goto, Takes
<1>3. ASSUME NEW w \in Workers, ReturnJob(w) PROVE PassesRan'
    BY <1>3 DEF ReturnJob, Goto
<1>4. ASSUME NEW w \in Workers, DropExpired(w) PROVE PassesRan'
    BY <1>4 DEF DropExpired, Removed, Goto, Forgets
<1>5. ASSUME NEW w \in Workers, RenamePending(w) PROVE PassesRan'
    <2>1. CASE job[w] \in pending
        BY <1>5, <2>1 DEF RenamePending, Goto, Forgets
    <2>2. CASE job[w] \notin pending
        BY <1>5, <2>2 DEF RenamePending, Goto, Forgets
    <2> QED
        BY <2>1, <2>2
<1>6. ASSUME NEW w \in Workers, WriteEnvelope(w) PROVE PassesRan'
    BY <1>6 DEF WriteEnvelope, Goto
<1>7. ASSUME NEW w \in Workers, ExecutionFails(w) PROVE PassesRan'
    BY <1>7 DEF ExecutionFails, Settled, Goto
<1>8. ASSUME NEW w \in Workers, CheckPublish(w) PROVE PassesRan'
    <2>1. CASE Holds(lease[w])
        BY <1>8, <2>1 DEF CheckPublish, Settled, Goto
    <2>2. CASE ~Holds(lease[w])
        BY <1>8, <2>2 DEF CheckPublish, Settled, Goto
    <2> QED
        BY <2>1, <2>2
<1>9. ASSUME NEW w \in Workers, Publish(w) PROVE PassesRan'
    <2>1. CASE prepared[job[w]] = None
        BY <1>9, <2>1 DEF Publish, Settled, Goto
    <2>2. CASE prepared[job[w]] # None
        BY <1>9, <2>2 DEF Publish, Settled, Goto
    <2> QED
        BY <2>1, <2>2
<1>10. ASSUME NEW w \in Workers, SeeRelease(w) PROVE PassesRan'
    <2>1. CASE released[job[w]] = SessionOf(w)
        BY <1>10, <2>1 DEF SeeRelease, Settled, Goto
    <2>2. CASE released[job[w]] # SessionOf(w)
        BY <1>10, <2>2 DEF SeeRelease, Settled, Goto
    <2> QED
        BY <2>1, <2>2
<1>11. ASSUME NEW w \in Workers, AgentPasses(w) PROVE PassesRan'
    BY <1>11 DEF AgentPasses, Settled, Goto
<1>12. ASSUME NEW w \in Workers, CheckComplete(w) PROVE PassesRan'
    <2>1. CASE Holds(lease[w])
        BY <1>12, <2>1 DEF CheckComplete, Goto, Forgets
    <2>2. CASE ~Holds(lease[w])
        BY <1>12, <2>2 DEF CheckComplete, Goto, Forgets
    <2> QED
        BY <2>1, <2>2
<1>13. ASSUME NEW w \in Workers, RecordResult(w) PROVE PassesRan'
    BY <1>13 DEF RecordResult, Goto
<1>14. ASSUME NEW w \in Workers, DropLease(w) PROVE PassesRan'
    BY <1>14 DEF DropLease, Removed, Goto, Forgets
<1>15. ASSUME NEW w \in Workers, Crash(w) PROVE PassesRan'
    BY <1>15 DEF Crash, Goto, Forgets
<1>16. ASSUME NEW w \in Workers, Restart(w) PROVE PassesRan'
    BY <1>16 DEF Restart, Goto
<1>17. ASSUME NEW j \in Jobs, Submit(j) PROVE PassesRan'
    BY <1>17 DEF Submit, Ends
<1>18. ASSUME NEW j \in Jobs, DispatchFails(j) PROVE PassesRan'
    BY <1>18 DEF DispatchFails, Ends
<1>19. ASSUME NEW j \in Jobs, SeeReady(j) PROVE PassesRan'
    BY <1>19 DEF SeeReady, Ends
<1>20. ASSUME NEW j \in Jobs, CheckRelease(j) PROVE PassesRan'
    BY <1>20 DEF CheckRelease, Ends
<1>21. ASSUME NEW j \in Jobs, Release(j) PROVE PassesRan'
    BY <1>21 DEF Release, Ends
<1>22. ASSUME NEW j \in Jobs, SeeResult(j) PROVE PassesRan'
    BY <1>22 DEF SeeResult, Ends
<1>23. ASSUME NEW l \in Leases, Expire(l) PROVE PassesRan'
    BY <1>23 DEF Expire, Holds
<1>24. CASE UNCHANGED vars
    BY <1>24 DEF vars
<1> QED
    BY <1>1, <1>2, <1>3, <1>4, <1>5, <1>6, <1>7, <1>8, <1>9, <1>10, <1>11, <1>12, <1>13, <1>14,
       <1>15, <1>16, <1>17, <1>18, <1>19, <1>20, <1>21, <1>22, <1>23, <1>24 DEF Next, Work, Dispatch

LEMMA LeaseStep == TypeOK /\ MemoryOK /\ FreshLeases /\ LeaseJobs /\ [Next]_vars => LeaseJobs'
<1> SUFFICES ASSUME TypeOK /\ MemoryOK /\ FreshLeases /\ LeaseJobs, [Next]_vars PROVE LeaseJobs'
    OBVIOUS
<1> USE QueueAssumption DEF files, memory, dispatchers, TypeOK, MemoryOK, FreshLeases, LeaseJobs
<1>1. ASSUME NEW w \in Workers, NEW l \in Leases, FindExpired(w, l) PROVE LeaseJobs'
    BY <1>1, LeaseFileType DEF FindExpired, Holds, Goto, Takes
<1>2. ASSUME NEW w \in Workers, NEW j \in Jobs, ReadPending(w, j) PROVE LeaseJobs'
    BY <1>2 DEF ReadPending, Goto, Takes
<1>3. ASSUME NEW w \in Workers, ReturnJob(w) PROVE LeaseJobs'
    BY <1>3 DEF ReturnJob, Goto
<1>4. ASSUME NEW w \in Workers, DropExpired(w) PROVE LeaseJobs'
    BY <1>4 DEF DropExpired, Removed, Goto, Forgets
<1>5. ASSUME NEW w \in Workers, RenamePending(w) PROVE LeaseJobs'
    <2>1. CASE job[w] \in pending
        <3> DEFINE f == [job |-> job[w], worker |-> w, form |-> "bare", expired |-> FALSE]
        <3>1. /\ lease[w] \in Leases /\ job[w] \in Jobs /\ pc[w] = "read"
              /\ pc' = [pc EXCEPT ![w] = "renamed"]
              /\ leased' = [leased EXCEPT ![lease[w]] = f]
              /\ UNCHANGED <<job, lease>>
            BY <1>5, <2>1 DEF RenamePending, Goto
        <3>2. f # None /\ f.form = "bare" /\ f.job = job[w]
            BY <3>1, LeaseFileType
        <3> HIDE DEF f
        <3>3. \A v \in Workers : v # w => lease[v] # lease[w]
            BY <3>1
        <3> QED
            BY <3>1, <3>2, <3>3
    <2>2. CASE job[w] \notin pending
        BY <1>5, <2>2 DEF RenamePending, Goto, Forgets
    <2> QED
        BY <2>1, <2>2
<1>6. ASSUME NEW w \in Workers, WriteEnvelope(w) PROVE LeaseJobs'
    <2> DEFINE f == [leased[lease[w]] EXCEPT !.form = "whole"]
    <2>1. /\ lease[w] \in Leases /\ leased[lease[w]] \in LeaseFile /\ pc[w] = "renamed"
          /\ leased[lease[w]].job = job[w]
          /\ leased[lease[w]].form = "bare"
        BY <1>6 DEF WriteEnvelope
    <2>2. /\ leased' = [leased EXCEPT ![lease[w]] = f]
          /\ pc' = [pc EXCEPT ![w] = "leased"]
          /\ UNCHANGED <<job, lease>>
        BY <1>6 DEF WriteEnvelope, Goto
    <2>3. f # None /\ f.form = "whole" /\ f.job = job[w]
        BY <2>1, LeaseFileType
    <2> HIDE DEF f
    <2>4. \A v \in Workers : v # w => lease[v] # lease[w]
        BY <2>1
    <2> QED
        BY <2>1, <2>2, <2>3, <2>4
<1>7. ASSUME NEW w \in Workers, ExecutionFails(w) PROVE LeaseJobs'
    BY <1>7 DEF ExecutionFails, Settled, Goto
<1>8. ASSUME NEW w \in Workers, CheckPublish(w) PROVE LeaseJobs'
    <2>1. CASE Holds(lease[w])
        BY <1>8, <2>1 DEF CheckPublish, Settled, Goto
    <2>2. CASE ~Holds(lease[w])
        BY <1>8, <2>2 DEF CheckPublish, Settled, Goto
    <2> QED
        BY <2>1, <2>2
<1>9. ASSUME NEW w \in Workers, Publish(w) PROVE LeaseJobs'
    <2>1. CASE prepared[job[w]] = None
        BY <1>9, <2>1 DEF Publish, Settled, Goto
    <2>2. CASE prepared[job[w]] # None
        BY <1>9, <2>2 DEF Publish, Settled, Goto
    <2> QED
        BY <2>1, <2>2
<1>10. ASSUME NEW w \in Workers, SeeRelease(w) PROVE LeaseJobs'
    <2>1. CASE released[job[w]] = SessionOf(w)
        BY <1>10, <2>1 DEF SeeRelease, Settled, Goto
    <2>2. CASE released[job[w]] # SessionOf(w)
        BY <1>10, <2>2 DEF SeeRelease, Settled, Goto
    <2> QED
        BY <2>1, <2>2
<1>11. ASSUME NEW w \in Workers, AgentPasses(w) PROVE LeaseJobs'
    BY <1>11 DEF AgentPasses, Settled, Goto
<1>12. ASSUME NEW w \in Workers, CheckComplete(w) PROVE LeaseJobs'
    <2>1. CASE Holds(lease[w])
        BY <1>12, <2>1 DEF CheckComplete, Goto, Forgets
    <2>2. CASE ~Holds(lease[w])
        BY <1>12, <2>2 DEF CheckComplete, Goto, Forgets
    <2> QED
        BY <2>1, <2>2
<1>13. ASSUME NEW w \in Workers, RecordResult(w) PROVE LeaseJobs'
    BY <1>13 DEF RecordResult, Goto
<1>14. ASSUME NEW w \in Workers, DropLease(w) PROVE LeaseJobs'
    BY <1>14 DEF DropLease, Removed, Goto, Forgets
<1>15. ASSUME NEW w \in Workers, Crash(w) PROVE LeaseJobs'
    BY <1>15 DEF Crash, Goto, Forgets
<1>16. ASSUME NEW w \in Workers, Restart(w) PROVE LeaseJobs'
    BY <1>16 DEF Restart, Goto
<1>17. ASSUME NEW j \in Jobs, Submit(j) PROVE LeaseJobs'
    BY <1>17 DEF Submit, Ends
<1>18. ASSUME NEW j \in Jobs, DispatchFails(j) PROVE LeaseJobs'
    BY <1>18 DEF DispatchFails, Ends
<1>19. ASSUME NEW j \in Jobs, SeeReady(j) PROVE LeaseJobs'
    BY <1>19 DEF SeeReady, Ends
<1>20. ASSUME NEW j \in Jobs, CheckRelease(j) PROVE LeaseJobs'
    BY <1>20 DEF CheckRelease, Ends
<1>21. ASSUME NEW j \in Jobs, Release(j) PROVE LeaseJobs'
    BY <1>21 DEF Release, Ends
<1>22. ASSUME NEW j \in Jobs, SeeResult(j) PROVE LeaseJobs'
    BY <1>22 DEF SeeResult, Ends
<1>23. ASSUME NEW l \in Leases, Expire(l) PROVE LeaseJobs'
    BY <1>23 DEF Expire, Holds
<1>24. CASE UNCHANGED vars
    BY <1>24 DEF vars
<1> QED
    BY <1>1, <1>2, <1>3, <1>4, <1>5, <1>6, <1>7, <1>8, <1>9, <1>10, <1>11, <1>12, <1>13, <1>14,
       <1>15, <1>16, <1>17, <1>18, <1>19, <1>20, <1>21, <1>22, <1>23, <1>24 DEF Next, Work, Dispatch

LEMMA AnchorStep == TypeOK /\ MemoryOK /\ FreshLeases /\ LeaseJobs /\ Anchored /\ [Next]_vars => Anchored'
<1> SUFFICES ASSUME TypeOK /\ MemoryOK /\ FreshLeases /\ LeaseJobs /\ Anchored, [Next]_vars PROVE Anchored'
    OBVIOUS
<1> USE QueueAssumption DEF files, memory, dispatchers, TypeOK, MemoryOK, FreshLeases, LeaseJobs,
   Anchored, Doomed
<1>1. ASSUME NEW w \in Workers, NEW l \in Leases, FindExpired(w, l) PROVE Anchored'
    BY <1>1 DEF FindExpired, Holds, Goto, Takes
<1>2. ASSUME NEW w \in Workers, NEW j \in Jobs, ReadPending(w, j) PROVE Anchored'
    BY <1>2 DEF ReadPending, Goto, Takes
<1>3. ASSUME NEW w \in Workers, ReturnJob(w) PROVE Anchored'
    BY <1>3 DEF ReturnJob, Goto
<1>4. ASSUME NEW w \in Workers, DropExpired(w) PROVE Anchored'
    BY <1>4 DEF DropExpired, Removed, Goto, Forgets
<1>5. ASSUME NEW w \in Workers, RenamePending(w) PROVE Anchored'
    <2>1. CASE job[w] \in pending
        <3> DEFINE f == [job |-> job[w], worker |-> w, form |-> "bare", expired |-> FALSE]
        <3>1. /\ lease[w] \in Leases /\ job[w] \in Jobs /\ pc[w] = "read"
              /\ leased[lease[w]] = None
              /\ pc' = [pc EXCEPT ![w] = "renamed"]
              /\ pending' = pending \ {job[w]}
              /\ leased' = [leased EXCEPT ![lease[w]] = f]
              /\ UNCHANGED <<job, lease, completed, dpc>>
            BY <1>5, <2>1 DEF RenamePending, Goto
        <3>2. f # None /\ f.job = job[w]
            BY <3>1, LeaseFileType
        <3> HIDE DEF f
        <3>3. ~Doomed(lease[w])'
            BY <3>1
        <3>4. \A l \in Leases : (leased[l] # None /\ ~Doomed(l)) =>
                  leased'[l] = leased[l] /\ ~Doomed(l)'
            BY <3>1
        <3> QED
            BY <3>1, <3>2, <3>3, <3>4
    <2>2. CASE job[w] \notin pending
        BY <1>5, <2>2 DEF RenamePending, Goto, Forgets
    <2> QED
        BY <2>1, <2>2
<1>6. ASSUME NEW w \in Workers, WriteEnvelope(w) PROVE Anchored'
    <2> DEFINE f == [leased[lease[w]] EXCEPT !.form = "whole"]
    <2>1. lease[w] \in Leases /\ leased[lease[w]] \in LeaseFile /\ pc[w] = "renamed"
        BY <1>6 DEF WriteEnvelope
    <2>2. /\ leased' = [leased EXCEPT ![lease[w]] = f]
          /\ pc' = [pc EXCEPT ![w] = "leased"]
          /\ UNCHANGED <<pending, completed, dpc, lease>>
        BY <1>6 DEF WriteEnvelope, Goto
    <2>3. f # None /\ f.job = leased[lease[w]].job
        <3>1. f \in LeaseFile /\ f.job = leased[lease[w]].job
            BY <2>1, LeaseFileType
        <3> QED
            BY <3>1
    <2> HIDE DEF f
    <2>4. \A l \in Leases : Doomed(l)' => Doomed(l)
        BY <2>1, <2>2
    <2>5. \A l \in Leases : leased[l] # None =>
              leased'[l] # None /\ leased'[l].job = leased[l].job
        BY <2>2, <2>3
    <2> QED
        BY <2>2, <2>4, <2>5
<1>7. ASSUME NEW w \in Workers, ExecutionFails(w) PROVE Anchored'
    BY <1>7 DEF ExecutionFails, Settled, Goto
<1>8. ASSUME NEW w \in Workers, CheckPublish(w) PROVE Anchored'
    <2>1. CASE Holds(lease[w])
        BY <1>8, <2>1 DEF CheckPublish, Settled, Goto
    <2>2. CASE ~Holds(lease[w])
        BY <1>8, <2>2 DEF CheckPublish, Settled, Goto
    <2> QED
        BY <2>1, <2>2
<1>9. ASSUME NEW w \in Workers, Publish(w) PROVE Anchored'
    <2>1. CASE prepared[job[w]] = None
        BY <1>9, <2>1 DEF Publish, Settled, Goto
    <2>2. CASE prepared[job[w]] # None
        BY <1>9, <2>2 DEF Publish, Settled, Goto
    <2> QED
        BY <2>1, <2>2
<1>10. ASSUME NEW w \in Workers, SeeRelease(w) PROVE Anchored'
    <2>1. CASE released[job[w]] = SessionOf(w)
        BY <1>10, <2>1 DEF SeeRelease, Settled, Goto
    <2>2. CASE released[job[w]] # SessionOf(w)
        BY <1>10, <2>2 DEF SeeRelease, Settled, Goto
    <2> QED
        BY <2>1, <2>2
<1>11. ASSUME NEW w \in Workers, AgentPasses(w) PROVE Anchored'
    BY <1>11 DEF AgentPasses, Settled, Goto
<1>12. ASSUME NEW w \in Workers, CheckComplete(w) PROVE Anchored'
    <2>1. CASE Holds(lease[w])
        BY <1>12, <2>1 DEF CheckComplete, Goto, Forgets
    <2>2. CASE ~Holds(lease[w])
        BY <1>12, <2>2 DEF CheckComplete, Goto, Forgets
    <2> QED
        BY <2>1, <2>2
<1>13. ASSUME NEW w \in Workers, RecordResult(w) PROVE Anchored'
    <2> DEFINE f == [status |-> status[w], session |-> SessionOf(w)]
    <2>1. /\ job[w] \in Jobs /\ lease[w] \in Leases /\ pc[w] = "completing"
          /\ completed' = [completed EXCEPT ![job[w]] = f]
          /\ pc' = [pc EXCEPT ![w] = "recorded"]
          /\ UNCHANGED <<pending, leased, dpc, lease>>
        BY <1>13 DEF RecordResult, Goto
    <2>2. f # None
        <3>1. f \in Result
            BY <1>13, SessionType DEF RecordResult, Result
        <3> QED
            BY <3>1
    <2> HIDE DEF f
    <2>3. \A l \in Leases : Doomed(l)' => Doomed(l) \/ l = lease[w]
        BY <2>1
    <2>4. leased[lease[w]] # None => leased[lease[w]].job = job[w]
        BY <2>1
    <2>5. completed'[job[w]] # None
        BY <2>1, <2>2
    <2>6. ASSUME NEW j \in Jobs, dpc[j] # "new", j # job[w]
          PROVE \/ j \in pending
                \/ completed'[j] # None
                \/ \E l \in Leases : leased'[l] # None /\ leased'[l].job = j /\ ~Doomed(l)'
        BY <2>1, <2>3, <2>4, <2>6
    <2> QED
        BY <2>1, <2>5, <2>6
<1>14. ASSUME NEW w \in Workers, DropLease(w) PROVE Anchored'
    BY <1>14 DEF DropLease, Removed, Goto, Forgets
<1>15. ASSUME NEW w \in Workers, Crash(w) PROVE Anchored'
    BY <1>15 DEF Crash, Goto, Forgets
<1>16. ASSUME NEW w \in Workers, Restart(w) PROVE Anchored'
    BY <1>16 DEF Restart, Goto
<1>17. ASSUME NEW j \in Jobs, Submit(j) PROVE Anchored'
    BY <1>17 DEF Submit, Ends
<1>18. ASSUME NEW j \in Jobs, DispatchFails(j) PROVE Anchored'
    BY <1>18 DEF DispatchFails, Ends
<1>19. ASSUME NEW j \in Jobs, SeeReady(j) PROVE Anchored'
    BY <1>19 DEF SeeReady, Ends
<1>20. ASSUME NEW j \in Jobs, CheckRelease(j) PROVE Anchored'
    BY <1>20 DEF CheckRelease, Ends
<1>21. ASSUME NEW j \in Jobs, Release(j) PROVE Anchored'
    BY <1>21 DEF Release, Ends
<1>22. ASSUME NEW j \in Jobs, SeeResult(j) PROVE Anchored'
    BY <1>22 DEF SeeResult, Ends
<1>23. ASSUME NEW l \in Leases, Expire(l) PROVE Anchored'
    <2> DEFINE f == [leased[l] EXCEPT !.expired = TRUE]
    <2>1. leased[l] \in LeaseFile
        BY <1>23 DEF Expire, Holds
    <2>2. /\ leased' = [leased EXCEPT ![l] = f]
          /\ UNCHANGED <<pending, completed, dpc, lease, pc>>
        BY <1>23 DEF Expire
    <2>3. f # None /\ f.job = leased[l].job
        <3>1. f \in LeaseFile /\ f.job = leased[l].job
            BY <2>1, LeaseFileType
        <3> QED
            BY <3>1
    <2> HIDE DEF f
    <2>4. \A k \in Leases : leased[k] # None =>
              leased'[k] # None /\ leased'[k].job = leased[k].job
        BY <2>2, <2>3
    <2> QED
        BY <2>2, <2>4
<1>24. CASE UNCHANGED vars
    BY <1>24 DEF vars
<1> QED
    BY <1>1, <1>2, <1>3, <1>4, <1>5, <1>6, <1>7, <1>8, <1>9, <1>10, <1>11, <1>12, <1>13, <1>14,
       <1>15, <1>16, <1>17, <1>18, <1>19, <1>20, <1>21, <1>22, <1>23, <1>24 DEF Next, Work, Dispatch

-----------------------------------------------------------------------------

LEMMA QueueInvStep == QueueInv /\ [Next]_vars => QueueInv'
BY TypeStep, MemoryStep, ReleaseStep, FreshStep, RunsStep, PassesStep, LeaseStep, AnchorStep
   DEF QueueInv

LEMMA QueueInvariant == Spec => []QueueInv
BY QueueInvInit, QueueInvStep, PTL DEF Spec

\* Whatever is crashed, expired or claimed again: the agent of a job runs at
\* most once (executeClaimedJob), under the session its dispatcher released.
THEOREM AgentRunsOnce == Spec => [](TypeOK /\ RunsBoundOnce)
<1>1. QueueInv => TypeOK /\ RunsBoundOnce
    <2> SUFFICES ASSUME QueueInv PROVE RunsBoundOnce
        BY DEF QueueInv
    <2>1. \A r, q \in executed : q[1] = r[1] => q[2] = r[2]
        BY DEF QueueInv, RunsReleased
    <2>2. \A r \in executed : r = <<r[1], r[2]>>
        BY DEF QueueInv, TypeOK
    <2> QED
        BY <2>1, <2>2 DEF QueueInv, RunsReleased, RunsBoundOnce
<1> QED
    BY <1>1, QueueInvariant, PTL

\* A result that dispatchDistributedDelegation accepts is the outcome of a
\* run of the session it released.
THEOREM AcceptedResultWasRun == Spec => []AcceptedWasRun
<1>1. QueueInv => AcceptedWasRun
    BY DEF QueueInv, PassesRan
<1> QED
    BY <1>1, QueueInvariant, PTL

\* No crash, in a claim, a reclaim or a completion, removes a job from the
\* directories of the queue.
THEOREM JobStaysVisible == Spec => []JobVisible
<1>1. QueueInv => JobVisible
    BY DEF QueueInv, Anchored, JobVisible
<1> QED
    BY <1>1, QueueInvariant, PTL
=============================================================================
