--------------------------- MODULE OperationLock ---------------------------
(***************************************************************************)
(* The file lock that serialises every writer of an operation record:      *)
(* withOperationLock and canRecoverLock of src/operations/state.ts.        *)
(*                                                                         *)
(* A caller is one asynchronous context of one process.  Each await of the *)
(* code is a step boundary here: open, write the pid, run the action, rm;  *)
(* and, for a waiter, the read and the stat of the lock file, the verdict  *)
(* on what they returned, and the rm of a lock judged stale.               *)
(***************************************************************************)
EXTENDS Naturals, FiniteSets

CONSTANTS Callers,    \* asynchronous contexts that want the lock
          Pids,       \* processes of the host
          PidOf,      \* the process each caller runs in
          NoFile      \* no lock file at the path

LockFile == [by : Callers, pid : BOOLEAN, old : BOOLEAN]

ASSUME PidOfAssumption == PidOf \in [Callers -> Pids]
ASSUME NoFileAssumption == NoFile \notin LockFile
ASSUME PidsAssumption == Pids \cap {"unread", "blank"} = {}

VARIABLES path,     \* the file at the lock path: its creator, whether the pid
                    \* is in it yet, whether its mtime is past STALE_LOCK_MS
          step,       \* where each caller is in withOperationLock
          read,     \* what a waiter's readFile returned
          stat,     \* what a waiter's stat returned
          alive,    \* processes that have not died
          robbed    \* history: callers whose lock file somebody else removed

lockVars == <<path, step, read, stat, alive, robbed>>

LockPhases == {"idle", "try", "opened", "inside", "release", "rethrow",
           "probe", "recover"}

\* The phases in which a caller relies on the lock file being its own.
Owning == {"opened", "inside", "release"}

ReadResults == {"unread", "blank"} \cup Pids
StatResults == {"unread", "missing", "fresh", "old"}

LockTypeOK ==
    /\ path \in LockFile \cup {NoFile}
    /\ step \in [Callers -> LockPhases]
    /\ read \in [Callers -> ReadResults]
    /\ stat \in [Callers -> StatResults]
    /\ alive \in SUBSET Pids
    /\ robbed \in SUBSET Callers

LockInit ==
    /\ path = NoFile
    /\ step = [c \in Callers |-> "idle"]
    /\ read = [c \in Callers |-> "unread"]
    /\ stat = [c \in Callers |-> "unread"]
    /\ alive = Pids
    /\ robbed = {}

Running(c) == PidOf[c] \in alive

Moves(c, phase) == step' = [step EXCEPT ![c] = phase]

(***************************************************************************)
(* fs.rm(lock, {force: true}): whatever file is at the path goes, whoever  *)
(* created it.                                                             *)
(***************************************************************************)
Remove(c) ==
    /\ path' = NoFile
    /\ robbed' = IF /\ path # NoFile
                    /\ path.by # c
                    /\ Running(path.by)
                    /\ step[path.by] \in Owning
                 THEN robbed \cup {path.by} ELSE robbed

----------------------------------------------------------------------------
\* withOperationLock(file, action) is called.
Call(c) ==
    /\ Running(c) /\ step[c] = "idle"
    /\ Moves(c, "try")
    /\ UNCHANGED <<path, read, stat, alive, robbed>>

\* Mutant of Open: flag "w", which truncates the file of another holder.
OpenTruncating(c) ==
    /\ Running(c) /\ step[c] = "try"
    /\ path' = [by |-> c, pid |-> FALSE, old |-> FALSE]
    /\ Moves(c, "opened")
    /\ robbed' = robbed \ {c}
    /\ UNCHANGED <<read, stat, alive>>

\* fs.open(lock, "wx"): creates the file, or fails with EEXIST.
Open(c) ==
    /\ Running(c) /\ step[c] = "try"
    /\ \/ /\ path = NoFile
          /\ path' = [by |-> c, pid |-> FALSE, old |-> FALSE]
          /\ Moves(c, "opened")
          /\ robbed' = robbed \ {c}
       \/ /\ path # NoFile
          /\ Moves(c, "probe")
          /\ UNCHANGED <<path, robbed>>
    /\ UNCHANGED <<read, stat, alive>>

\* handle.writeFile(pid): written through the handle, so a file that has been
\* removed from the path meanwhile is not brought back.
WritePid(c) ==
    /\ Running(c) /\ step[c] = "opened"
    /\ path' = IF path # NoFile /\ path.by = c
               THEN [path EXCEPT !.pid = TRUE, !.old = FALSE] ELSE path
    /\ Moves(c, "inside")
    /\ UNCHANGED <<read, stat, alive, robbed>>

\* The action returns, or it (or writeFile) throws; the inner finally closes
\* the handle and removes the lock file in both cases.
ActionReturns(c) ==
    /\ Running(c) /\ step[c] = "inside"
    /\ Moves(c, "release")
    /\ UNCHANGED <<path, read, stat, alive, robbed>>

Release(c) ==
    /\ Running(c) /\ step[c] = "release"
    /\ Remove(c)
    /\ Moves(c, "idle")
    /\ UNCHANGED <<read, stat, alive>>

ActionThrows(c) ==
    /\ Running(c) /\ step[c] \in {"opened", "inside"}
    /\ Remove(c)
    /\ Moves(c, "rethrow")
    /\ UNCHANGED <<read, stat, alive>>

\* The outer catch finds the handle set: it removes the file a second time
\* and rethrows.
Rethrow(c) ==
    /\ Running(c) /\ step[c] = "rethrow"
    /\ Remove(c)
    /\ Moves(c, "idle")
    /\ UNCHANGED <<read, stat, alive>>

----------------------------------------------------------------------------
\* canRecoverLock: readFile and stat are started together and end in any order.
ReadPid(c) ==
    /\ Running(c) /\ step[c] = "probe" /\ read[c] = "unread"
    /\ read' = [read EXCEPT ![c] =
                  IF path # NoFile /\ path.pid THEN PidOf[path.by] ELSE "blank"]
    /\ UNCHANGED <<path, step, stat, alive, robbed>>

Stat(c) ==
    /\ Running(c) /\ step[c] = "probe" /\ stat[c] = "unread"
    /\ stat' = [stat EXCEPT ![c] = CASE path = NoFile -> "missing"
                                     [] path # NoFile /\ path.old -> "old"
                                     [] OTHER -> "fresh"]
    /\ UNCHANGED <<path, step, read, alive, robbed>>

\* Mutant of CanRecover: the owner's death is not looked at.
CanRecoverByAge(c) ==
    stat[c] = "missing" \/ (read[c] = "blank" /\ stat[c] = "old")

\* The verdict of canRecoverLock: a missing file (stat threw), a dead owner, or
\* a file without a pid that is older than STALE_LOCK_MS.
CanRecover(c) ==
    \/ stat[c] = "missing"
    \/ read[c] \in Pids /\ read[c] \notin alive
    \/ read[c] = "blank" /\ stat[c] = "old"

\* A lock that is not recoverable is waited for, until LOCK_TIMEOUT_MS is over.
Judge(c) ==
    /\ Running(c) /\ step[c] = "probe"
    /\ read[c] # "unread" /\ stat[c] # "unread"
    /\ \/ CanRecover(c) /\ Moves(c, "recover")
       \/ ~CanRecover(c) /\ Moves(c, "try")
       \/ ~CanRecover(c) /\ Moves(c, "idle")
    /\ read' = [read EXCEPT ![c] = "unread"]
    /\ stat' = [stat EXCEPT ![c] = "unread"]
    /\ UNCHANGED <<path, alive, robbed>>

\* A lock judged recoverable is removed and the loop starts over.
Recover(c) ==
    /\ Running(c) /\ step[c] = "recover"
    /\ Remove(c)
    /\ Moves(c, "try")
    /\ UNCHANGED <<read, stat, alive>>

----------------------------------------------------------------------------
\* Time: the file's mtime falls behind by more than STALE_LOCK_MS.
GrowOld ==
    /\ path # NoFile /\ ~path.old
    /\ path' = [path EXCEPT !.old = TRUE]
    /\ UNCHANGED <<step, read, stat, alive, robbed>>

\* A process dies with every caller in it; its lock file stays.
Dies(p) ==
    /\ p \in alive /\ alive # {p}
    /\ alive' = alive \ {p}
    /\ UNCHANGED <<path, step, read, stat, robbed>>

LockStep(c) ==
    \/ Open(c) \/ WritePid(c) \/ ActionReturns(c) \/ Release(c)
    \/ ActionThrows(c) \/ Rethrow(c)
    \/ ReadPid(c) \/ Stat(c) \/ Judge(c) \/ Recover(c)

LockNext ==
    \/ \E c \in Callers : Call(c) \/ LockStep(c)
    \/ GrowOld
    \/ \E p \in Pids : Dies(p)

LockSpec == LockInit /\ [][LockNext]_lockVars

\* The runtime resolves every pending promise of a live process.
LockFairness == \A c \in Callers : WF_lockVars(LockStep(c))
LockFairSpec == LockSpec /\ LockFairness

----------------------------------------------------------------------------
Holds(c) == Running(c) /\ step[c] = "inside"

(***************************************************************************)
(* Callers serialise on the durable file lock: two live callers are never  *)
(* inside their actions together.  The comment on                          *)
(* withOperationCoordinationLock states it; the code does not keep it.     *)
(***************************************************************************)
MutualExclusion == \A c, d \in Callers : Holds(c) /\ Holds(d) => c = d

(***************************************************************************)
(* Exclusion is lost only through a removal of a live holder's file (by    *)
(* the recovery of a waiter or by the second rm of a failed action):       *)
(* as long as a holder has not been robbed, the file at the path is its    *)
(* own, and no second unrobbed caller is inside.                           *)
(***************************************************************************)
ExclusionUnlessRobbed ==
    \A c \in Callers :
        Running(c) /\ step[c] \in Owning /\ c \notin robbed
            => path # NoFile /\ path.by = c

(***************************************************************************)
(* A lock left behind by a dead process does not block for ever: a live    *)
(* caller that tries while the file names a dead pid sees it go, unless    *)
(* that caller's own process dies.                                         *)
(***************************************************************************)
OrphanLockRecovered ==
    \A c \in Callers :
        (step[c] = "try" /\ path # NoFile /\ path.pid /\ ~Running(path.by))
            ~> (path = NoFile \/ Running(path.by) \/ ~Running(c))
=============================================================================
