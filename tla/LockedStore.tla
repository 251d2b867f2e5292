---------------------------- MODULE LockedStore ----------------------------
(***************************************************************************)
(* The operation record written under its lock file: OperationLock and     *)
(* OperationStore put together as mutateOperation, saveOperation and       *)
(* loadOperation of src/operations/state.ts put them, each of which passes *)
(* the work on the record to withOperationLock as its action.              *)
(*                                                                         *)
(* The action starts when the pid is in the lock file, its result or error *)
(* is what releases the lock, and a process that dies in it leaves both    *)
(* the lock file and the half-written record.  The store's variable "lock" *)
(* is no file here: it is the holder that OperationStore believes in.      *)
(*                                                                         *)
(* The history variable "harmed" turns TRUE when a live holder's file is   *)
(* removed by somebody else.  From there on two callers can be inside, and *)
(* each works on a record it read before the other one changed it, which   *)
(* the steps of OperationStore do not describe: from then on only the lock *)
(* is followed, and what is stated about the record is stated up to that   *)
(* moment.                                                                 *)
(***************************************************************************)
EXTENDS OperationLock, OperationStore

ASSUME CallersAssumption == Procs = Callers

VARIABLE harmed   \* history: a live holder has been robbed of its lock file

lockedVars == <<lockVars, vars, harmed>>

LockedInit == LockInit /\ Init /\ harmed = FALSE

----------------------------------------------------------------------------
\* Steps of withOperationLock before and after the action it was given.
Outside(c) ==
    /\ \/ Call(c) \/ Open(c) \/ Release(c) \/ Rethrow(c)
       \/ ReadPid(c) \/ Stat(c) \/ Judge(c) \/ Recover(c)
    /\ UNCHANGED vars

\* The pid is written and the action starts, whatever it is.
Enters(c) == WritePid(c) /\ \E k \in Calls : Begin(c, k)

\* A step of the action after which it goes on.
Works(c) ==
    /\ Running(c) /\ step[c] = "inside"
    /\ Step(c) /\ pc'[c] # "idle"
    /\ UNCHANGED lockVars

\* The last step of the action; it ends with a result when the commit is
\* settled, or when loadOperation has the record.
Ends(c) == step[c] = "inside" /\ Step(c) /\ pc'[c] = "idle"

Succeeds(c) ==
    \/ pc[c] = "settle"
    \/ call[c] = "load" /\ (pc[c] = "recovered" \/ file.pending = None)

Returns(c) == ActionReturns(c) /\ Ends(c) /\ Succeeds(c)

\* The pid cannot be written, a file operation of the action fails, or the
\* action refuses.
Throws(c) ==
    /\ ActionThrows(c)
    /\ \/ step[c] = "opened" /\ UNCHANGED vars
       \/ step[c] = "inside" /\ Fail(c)
       \/ Ends(c) /\ ~Succeeds(c)

CallerStep(c) == Outside(c) \/ Enters(c) \/ Works(c) \/ Returns(c) \/ Throws(c)

----------------------------------------------------------------------------
\* A process dies with its callers: the one inside its action leaves what
\* an interrupted operation on the record leaves.
ProcessDies(p) ==
    /\ Dies(p)
    /\ IF \E c \in Callers : PidOf[c] = p /\ pc[c] # "idle"
       THEN \E c \in Callers : PidOf[c] = p /\ Crash(c)
       ELSE UNCHANGED vars

\* Whether the step has robbed somebody.
Watches == harmed' = (robbed' # {})

\* Until the first robbery lock and record move together; after it only the
\* lock is followed.
LockedNext ==
    \/ ~harmed /\ \E c \in Callers : CallerStep(c) /\ Watches
    \/ ~harmed /\ \E p \in Pids : ProcessDies(p) /\ Watches
    \/ ~harmed /\ GrowOld /\ Watches /\ UNCHANGED vars
    \/ harmed /\ LockNext /\ UNCHANGED <<vars, harmed>>

LockedSpec == LockedInit /\ [][LockedNext]_lockedVars

----------------------------------------------------------------------------
(***************************************************************************)
(* The lock gives the record the exclusion OperationStore assumes: until a *)
(* live holder is robbed, every step that callers in several processes     *)
(* take on record, outbox and event log through the lock file is a step of *)
(* OperationStore, taken by the one caller the lock admits.                *)
(***************************************************************************)
LockGivesStore == Init /\ [][harmed' \/ Next]_vars
=============================================================================
