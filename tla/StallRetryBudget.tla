-------------------------- MODULE StallRetryBudget --------------------------
(***************************************************************************)
(* The durable stall-retry ledger of one phase of one operation            *)
(* (src/operations/stallRetryBudget.ts) and the drives that spend it: the  *)
(* loops of runDiscovery, runPlanning and the Spec Manager (change.ts) and *)
(* of consolidateWithOperationSupervisor (supervisor.ts).  A drive is one  *)
(* invocation of such a loop; two are alive at once when a controller was  *)
(* taken over and the old one has not noticed.                             *)
(*                                                                         *)
(* The ledger is a file with the number of stall-killed attempts and the   *)
(* identities of the markers already counted.  Before an attempt a drive   *)
(* writes a pending marker beside it; afterwards it either counts the      *)
(* attempt and removes its marker, or just removes it.  A marker whose     *)
(* drive died is an orphan: once it is older than any attempt can live,    *)
(* whoever loads or claims next counts it and disposes of it.  Markers     *)
(* older than the binding of attempts ("legacy") are first renamed to a    *)
(* grave and verified there.                                               *)
(*                                                                         *)
(* The steps are the file operations between which a process can die.      *)
(* Sections under withLock exclude each other; the lock of a dead process  *)
(* counts as free, for the next acquirer removes it (canRecoverLock).      *)
(* Phases share only that lock, so one phase is modelled.                  *)
(***************************************************************************)
EXTENDS Naturals, FiniteSets

CONSTANTS Drives,        \* invocations of the phase that may be alive at once
          Cap,           \* STALL_RETRY_MAX_ATTEMPTS_PER_PHASE
          StallRetries,  \* *_STALL_MAX_RETRIES of the calling loop
          HintRetries,   \* hinted retries of the Spec Manager loop
          MaxCrashes,    \* bound on the deaths of drives
          MaxClean,      \* bound on the attempts that end clean
          None

ASSUME StallAssumption ==
    /\ IsFiniteSet(Drives) /\ Drives # {}
    /\ Cap \in Nat \ {0}
    /\ {StallRetries, HintRetries, MaxCrashes, MaxClean} \subseteq Nat
    /\ None \notin Nat /\ None \notin Drives
    /\ None \notin [gen : Nat, attempt : Nat]

VARIABLES
    stalls,      \* ledger: the stall-killed attempts counted
    consumed,    \* ledger: the tombstones, identities of counted markers
    pending,     \* the pending marker, or None
    graves,      \* markers renamed to <pending>.grave-<uuid>
    quarantine,  \* markers parked as <pending>.quarantine-<uuid>
    aged,        \* the generations older than their staleness bound
    lock,        \* the drive inside a locked section, or None
    drive,       \* the drives: program counter and local variables
    nextGen,     \* next nonce; generation 0 is the legacy marker
    crashes,     \* deaths so far
    clean,       \* clean attempts so far
    spent,       \* history: attempts that did not end affirmatively clean
    recorded,    \* history: attempts counted by recordStallRetryStall
    reconciled,  \* history: markers counted as orphans
    recounted    \* history: markers counted as orphans a second time

ledger == <<stalls, consumed>>
files == <<pending, graves, quarantine>>
bounds == <<crashes, clean>>
history == <<spent, recorded, reconciled, recounted>>
vars == <<ledger, files, aged, lock, drive, nextGen, bounds, history>>

Marker == [gen : Nat, attempt : Nat]
LegacyMarker == [gen |-> 0, attempt |-> 0]

\* Where a drive is.  From "run" to "clear" it owns a counted attempt.
Attempting == {"run", "record", "count", "supersede", "clear"}
Phases == {"idle", "stat", "snap", "relock", "verify", "destroy", "read", "claim"} \cup Attempting

Idle == [pc |-> "idle", mode |-> "entry", persisted |-> 0, retries |-> 0, hints |-> 0,
         attempt |-> 0, gen |-> 0, snap |-> None, taken |-> None, tries |-> 0, again |-> "no"]

Init ==
    /\ stalls = 0 /\ consumed = {}
    /\ pending \in {None, LegacyMarker}
    /\ graves = {} /\ quarantine = {} /\ aged = {}
    /\ lock = None
    /\ drive = [d \in Drives |-> Idle]
    /\ nextGen = 1
    /\ crashes = 0 /\ clean = 0
    /\ spent = {} /\ recorded = {} /\ reconciled = {} /\ recounted = {}

(***************************************************************************)
(* Helpers.                                                                *)
(***************************************************************************)

At(d, p) == drive[d].pc = p

\* The local variables of the drive d.
Becomes(d, r) == drive' = [drive EXCEPT ![d] = r]

Goto(d, p) == Becomes(d, [drive[d] EXCEPT !.pc = p])

\* The loop is left, with an error or with a result.
Stop(d) == Becomes(d, Idle)

IsLegacy(m) == m.gen = 0

\* isStalePendingMarker, isOldLegacyMarkerByMtime.
IsOrphan(m) == m # None /\ m.gen \in aged

\* writePendingAtomic by claimStallRetryAttempt; the attempt is launched.
NewClaim(d) ==
    /\ pending' = [gen |-> nextGen, attempt |-> drive[d].attempt]
    /\ nextGen' = nextGen + 1
    /\ Becomes(d, [drive[d] EXCEPT !.pc = "run", !.gen = nextGen, !.snap = None, !.taken = None])

\* The orphan is off the marker path: refuse, write the new claim, or read
\* the durable count.
Continue(d, refuse) ==
    \/ refuse /\ pending' = None /\ UNCHANGED nextGen /\ Stop(d)
    \/ ~refuse /\ drive[d].mode = "claim" /\ NewClaim(d)
    \/ /\ ~refuse /\ drive[d].mode # "claim"
       /\ pending' = None /\ UNCHANGED nextGen
       /\ Becomes(d, [drive[d] EXCEPT !.pc = "read", !.snap = None, !.taken = None])

\* Mutant: the marker is counted without a tombstone.
CountUntracked(d, m) ==
    /\ m.gen \notin consumed /\ stalls < Cap
    /\ stalls' = stalls + 1
    /\ reconciled' = reconciled \cup {m.gen}
    /\ recounted' = recounted \cup ({m.gen} \cap reconciled)
    /\ lock' = d
    /\ Becomes(d, [drive[d] EXCEPT !.pc = "destroy", !.snap = m])
    /\ UNCHANGED <<consumed, files, nextGen, spent, recorded>>

\* The durable +1 with its tombstone, written together.
CountOrphan(d, m) ==
    /\ m.gen \notin consumed /\ stalls < Cap
    /\ stalls' = stalls + 1
    /\ consumed' = consumed \cup {m.gen}
    /\ reconciled' = reconciled \cup {m.gen}
    /\ recounted' = recounted \cup ({m.gen} \cap reconciled)
    /\ lock' = d
    /\ Becomes(d, [drive[d] EXCEPT !.pc = "destroy", !.snap = m])
    /\ UNCHANGED <<files, nextGen, spent, recorded>>

\* A replayed marker, or any marker at the cap, is destroyed uncounted.
DropOrphan(d, m) ==
    /\ m.gen \in consumed \/ stalls >= Cap
    /\ graves' = graves \ {m}
    /\ Continue(d, stalls >= Cap)
    /\ lock' = None
    /\ UNCHANGED <<ledger, quarantine, history>>

\* TAKE: whatever is at the marker path is renamed to a grave.
TakeGrave(d, m) ==
    /\ graves' = graves \cup {pending}
    /\ pending' = None
    /\ lock' = d
    /\ Becomes(d, [drive[d] EXCEPT !.pc = "verify", !.snap = m, !.taken = pending])
    /\ UNCHANGED <<ledger, quarantine, nextGen, history>>

\* The orphan m, decided on and still at the marker path.
SettleOrphan(d, m) ==
    \/ ~IsLegacy(m) /\ (CountOrphan(d, m) \/ DropOrphan(d, m))
    \/ IsLegacy(m) /\ TakeGrave(d, m)

(***************************************************************************)
(* loadStallRetryStalls.                                                   *)
(***************************************************************************)

Start(d) ==
    /\ At(d, "idle")
    /\ Goto(d, "stat")
    /\ UNCHANGED <<ledger, files, aged, lock, nextGen, bounds, history>>

StatMarker(d) ==
    /\ At(d, "stat")
    /\ Goto(d, IF pending = None THEN "read" ELSE "snap")
    /\ UNCHANGED <<ledger, files, aged, lock, nextGen, bounds, history>>

\* The decision snapshot, taken outside the lock.  A marker that is gone,
\* young or unreadable refuses.
SnapshotMarker(d) ==
    /\ At(d, "snap")
    /\ \/ /\ IsOrphan(pending)
          /\ Becomes(d, [drive[d] EXCEPT !.pc = "relock", !.snap = pending])
       \/ ~IsOrphan(pending) /\ Stop(d)
    /\ UNCHANGED <<ledger, files, aged, lock, nextGen, bounds, history>>

\* Inside the lock: the marker is gone, replaced, or still the decided one.
\* A legacy marker is taken without that comparison.
EnterReconcile(d) ==
    LET m == drive[d].snap IN
    /\ At(d, "relock") /\ lock = None
    /\ \/ /\ pending = None
          /\ Becomes(d, [drive[d] EXCEPT !.pc = "read", !.snap = None])
          /\ UNCHANGED <<ledger, files, lock, nextGen, history>>
       \/ /\ pending # None /\ pending # m /\ ~IsLegacy(m)
          /\ IF drive[d].tries < 2
             THEN Becomes(d, [drive[d] EXCEPT !.pc = "snap", !.snap = None, !.tries = @ + 1])
             ELSE Stop(d)
          /\ UNCHANGED <<ledger, files, lock, nextGen, history>>
       \/ /\ pending # None
          /\ pending = m \/ IsLegacy(m)
          /\ SettleOrphan(d, m)
    /\ UNCHANGED <<aged, bounds>>

\* VERIFY: the grave must hold the marker decided on.
VerifyGrave(d) ==
    LET m == drive[d].snap IN
    /\ At(d, "verify")
    /\ \/ /\ drive[d].taken # m
          /\ quarantine' = quarantine \cup {drive[d].taken}
          /\ graves' = graves \ {drive[d].taken}
          /\ lock' = None
          /\ Stop(d)
          /\ UNCHANGED <<ledger, pending, nextGen, history>>
       \/ drive[d].taken = m /\ (CountOrphan(d, m) \/ DropOrphan(d, m))
    /\ UNCHANGED <<aged, bounds>>

\* The counted marker or grave is removed.  A claim that has brought the
\* count to the cap launches nothing.
DestroyOrphan(d) ==
    /\ At(d, "destroy")
    /\ graves' = graves \ {drive[d].snap}
    /\ Continue(d, drive[d].mode = "claim" /\ stalls >= Cap)
    /\ lock' = None
    /\ UNCHANGED <<ledger, quarantine, aged, bounds, history>>

\* Mutant: the count is checked on entry only, not before every attempt.
ReadCountOnEntry(d) ==
    /\ At(d, "read")
    /\ \/ stalls >= Cap /\ drive[d].mode = "entry" /\ Stop(d)
       \/ /\ stalls < Cap /\ drive[d].mode = "entry"
          /\ Becomes(d, [drive[d] EXCEPT !.pc = "stat", !.mode = "gate",
                                         !.persisted = stalls, !.tries = 0])
       \/ /\ drive[d].mode = "gate"
          /\ Becomes(d, [drive[d] EXCEPT !.pc = "claim", !.mode = "claim", !.tries = 0,
                             !.attempt = drive[d].persisted + drive[d].retries + 1])
    /\ UNCHANGED <<ledger, files, aged, lock, nextGen, bounds, history>>

\* readLedgerCount, once on entry and once before every attempt.
ReadCount(d) ==
    /\ At(d, "read")
    /\ \/ stalls >= Cap /\ Stop(d)
       \/ /\ stalls < Cap /\ drive[d].mode = "entry"
          /\ Becomes(d, [drive[d] EXCEPT !.pc = "stat", !.mode = "gate",
                                         !.persisted = stalls, !.tries = 0])
       \/ /\ stalls < Cap /\ drive[d].mode = "gate"
          /\ Becomes(d, [drive[d] EXCEPT !.pc = "claim", !.mode = "claim", !.tries = 0,
                             !.attempt = drive[d].persisted + drive[d].retries + 1])
    /\ UNCHANGED <<ledger, files, aged, lock, nextGen, bounds, history>>

(***************************************************************************)
(* claimStallRetryAttempt.                                                 *)
(***************************************************************************)

\* Mutant: a live marker is overwritten.
ClaimOver(d) ==
    /\ At(d, "claim") /\ lock = None
    /\ \/ /\ ~IsOrphan(pending)
          /\ NewClaim(d)
          /\ UNCHANGED <<ledger, graves, quarantine, lock, history>>
       \/ IsOrphan(pending) /\ SettleOrphan(d, pending)
    /\ UNCHANGED <<aged, bounds>>

Claim(d) ==
    /\ At(d, "claim") /\ lock = None
    /\ \/ /\ pending = None
          /\ NewClaim(d)
          /\ UNCHANGED <<ledger, graves, quarantine, lock, history>>
       \/ /\ pending # None /\ ~IsOrphan(pending)
          /\ Stop(d)
          /\ UNCHANGED <<ledger, files, lock, nextGen, history>>
       \/ IsOrphan(pending) /\ SettleOrphan(d, pending)
    /\ UNCHANGED <<aged, bounds>>

(***************************************************************************)
(* The attempt and its outcome.                                            *)
(***************************************************************************)

\* A stall kill is retried with identical inputs while the loop's budget and
\* the count it read on entry allow one more.
RetryAllowed(d) ==
    drive[d].retries < StallRetries /\ drive[d].persisted + drive[d].retries + 1 < Cap

StallKill(d) ==
    /\ At(d, "run")
    /\ spent' = spent \cup {drive[d].gen}
    /\ Becomes(d, [drive[d] EXCEPT !.pc = "record",
                                   !.again = IF RetryAllowed(d) THEN "stall" ELSE "no"])
    /\ UNCHANGED <<ledger, files, aged, lock, nextGen, bounds, recorded, reconciled, recounted>>

\* What the loop does after a turn that is not retried as a stall: it throws,
\* or the Spec Manager asks again with a hint and the same attempt number.
HintOrEnd(d) == {"no"} \cup (IF drive[d].hints < HintRetries THEN {"hint"} ELSE {})

\* Neither proof of a stall nor of a clean turn: counted all the same.
AmbiguousEnd(d) ==
    /\ At(d, "run")
    /\ spent' = spent \cup {drive[d].gen}
    /\ \E a \in HintOrEnd(d) : Becomes(d, [drive[d] EXCEPT !.pc = "record", !.again = a])
    /\ UNCHANGED <<ledger, files, aged, lock, nextGen, bounds, recorded, reconciled, recounted>>

CleanEnd(d) ==
    /\ At(d, "run") /\ clean < MaxClean
    /\ clean' = clean + 1
    /\ \E a \in HintOrEnd(d) : Becomes(d, [drive[d] EXCEPT !.pc = "clear", !.again = a])
    /\ UNCHANGED <<ledger, files, aged, lock, nextGen, crashes, history>>

\* Mutant: an unverified turn gives its claim back.
UncertainReleases(d) ==
    /\ At(d, "run")
    /\ spent' = spent \cup {drive[d].gen}
    /\ pending' = None
    /\ Stop(d)
    /\ UNCHANGED <<ledger, graves, quarantine, aged, lock, nextGen, bounds>>
    /\ UNCHANGED <<recorded, reconciled, recounted>>

\* The stop of the turn is unverified: the marker stays, nothing is retried.
UncertainEnd(d) ==
    /\ At(d, "run")
    /\ spent' = spent \cup {drive[d].gen}
    /\ Stop(d)
    /\ UNCHANGED <<ledger, files, aged, lock, nextGen, bounds, recorded, reconciled, recounted>>

(***************************************************************************)
(* recordStallRetryStall: three locked sections.  clearStallRetryClaim is  *)
(* the third alone.                                                        *)
(***************************************************************************)

RecordPreclaim(d) ==
    /\ At(d, "record") /\ lock = None
    /\ Goto(d, "count")
    /\ \/ /\ pending = None \/ (pending # None /\ IsLegacy(pending))
          /\ pending' = [gen |-> nextGen, attempt |-> drive[d].attempt]
          /\ nextGen' = nextGen + 1
       \/ /\ pending # None /\ ~IsLegacy(pending)
          /\ UNCHANGED <<pending, nextGen>>
    /\ UNCHANGED <<ledger, graves, quarantine, aged, lock, bounds, history>>

\* Mutant: the record does not check the cap.
RecordUncapped(d) ==
    /\ At(d, "count") /\ lock = None
    /\ stalls' = stalls + 1
    /\ recorded' = recorded \cup {drive[d].gen}
    /\ Goto(d, "supersede")
    /\ UNCHANGED <<consumed, files, aged, lock, nextGen, bounds, spent, reconciled, recounted>>

\* At the cap nothing is counted and the loop ends, after the supersede.
RecordCount(d) ==
    /\ At(d, "count") /\ lock = None
    /\ \/ /\ stalls < Cap
          /\ stalls' = stalls + 1
          /\ recorded' = recorded \cup {drive[d].gen}
          /\ Goto(d, "supersede")
       \/ /\ stalls >= Cap
          /\ Becomes(d, [drive[d] EXCEPT !.pc = "supersede", !.again = "no"])
          /\ UNCHANGED <<stalls, recorded>>
    /\ UNCHANGED <<consumed, files, aged, lock, nextGen, bounds, spent, reconciled, recounted>>

\* The marker goes iff it carries the caller's attempt number.
OwnsMarker(d) ==
    pending # None /\ ~IsLegacy(pending) /\ pending.attempt = drive[d].attempt

\* Where the loop goes when the attempt is settled.
Loop(d) ==
    \/ drive[d].again = "no" /\ Stop(d)
    \/ /\ drive[d].again # "no"
       /\ Becomes(d, [Idle EXCEPT !.pc = "stat", !.mode = "gate",
                                  !.persisted = drive[d].persisted,
                                  !.retries = drive[d].retries
                                      + IF drive[d].again = "stall" THEN 1 ELSE 0,
                                  !.hints = drive[d].hints
                                      + IF drive[d].again = "hint" THEN 1 ELSE 0])

\* supersedeOwnPendingClaim and clearStallRetryClaim; best effort, a lock
\* that cannot be had leaves the marker.
RemoveOwnMarker(d) ==
    /\ drive[d].pc \in {"supersede", "clear"}
    /\ \/ lock = None /\ OwnsMarker(d) /\ pending' = None
       \/ lock = None /\ ~OwnsMarker(d) /\ UNCHANGED pending
       \/ lock # None /\ UNCHANGED pending
    /\ Loop(d)
    /\ UNCHANGED <<ledger, graves, quarantine, aged, lock, nextGen, bounds, history>>

(***************************************************************************)
(* Environment.                                                            *)
(***************************************************************************)

\* A drive dies, or an I/O error or a lock timeout makes it throw: its lock
\* is free again and its files stay as they are.
Abandon(d) ==
    /\ ~At(d, "idle") /\ crashes < MaxCrashes
    /\ crashes' = crashes + 1
    /\ lock' = IF lock = d THEN None ELSE lock
    /\ spent' = IF At(d, "run") THEN spent \cup {drive[d].gen} ELSE spent
    /\ Stop(d)
    /\ UNCHANGED <<ledger, files, aged, nextGen, clean, recorded, reconciled, recounted>>

\* The marker outlives 2 * deadline + margin.  Its attempt has then ended:
\* the provider-turn deadline kills it and the margin covers its settling.
Age ==
    /\ pending # None /\ pending.gen \notin aged
    /\ \A d \in Drives : drive[d].pc \in Attempting => drive[d].gen # pending.gen
    /\ aged' = aged \cup {pending.gen}
    /\ UNCHANGED <<ledger, files, lock, drive, nextGen, bounds, history>>

\* transactStallRetrySpend: the exported upfront spend.
TransactSpend ==
    /\ lock = None /\ stalls < Cap
    /\ stalls' = stalls + 1
    /\ UNCHANGED <<consumed, files, aged, lock, drive, nextGen, bounds, history>>

Step(d) ==
    \/ StatMarker(d) \/ SnapshotMarker(d) \/ EnterReconcile(d) \/ VerifyGrave(d)
    \/ DestroyOrphan(d) \/ ReadCount(d) \/ Claim(d)
    \/ StallKill(d) \/ AmbiguousEnd(d) \/ CleanEnd(d) \/ UncertainEnd(d)
    \/ RecordPreclaim(d) \/ RecordCount(d) \/ RemoveOwnMarker(d)

Next ==
    \/ \E d \in Drives : Start(d) \/ Step(d) \/ Abandon(d)
    \/ Age
    \/ TransactSpend

Spec == Init /\ [][Next]_vars

-----------------------------------------------------------------------------

Drive == [pc : Phases, mode : {"entry", "gate", "claim"}, persisted : Nat,
          retries : Nat, hints : Nat, attempt : Nat, gen : Nat,
          snap : Marker \cup {None}, taken : Marker \cup {None},
          tries : Nat, again : {"no", "stall", "hint"}]

\* The count never passes the cap and carries at least one unit for every
\* tombstone.
CountOK == stalls \in 0 .. Cap /\ IsFiniteSet(consumed) /\ Cardinality(consumed) <= stalls

GenerationsOK ==
    /\ nextGen \in Nat \ {0}
    /\ consumed \subseteq 0 .. nextGen - 1
    /\ aged \subseteq 0 .. nextGen - 1
    /\ spent \subseteq 1 .. nextGen - 1

FilesOK == pending \in Marker \cup {None} /\ graves \subseteq Marker /\ quarantine \subseteq Marker

LockOK ==
    /\ lock \in Drives \cup {None}
    /\ \A d \in Drives : drive[d].pc \in {"verify", "destroy"} <=> lock = d

\* The ledger, the files and the drives are well formed, and the drive at the
\* disposal of an orphan is the one inside the lock.  The bound assertions of
\* assertValidBudgetShape and withMarkerConsumed are unreachable, however
\* drives race, die and replay.
TypeOK ==
    /\ CountOK /\ GenerationsOK /\ FilesOK /\ LockOK
    /\ drive \in [Drives -> Drive]
    /\ crashes \in 0 .. MaxCrashes /\ clean \in 0 .. MaxClean

\* An orphaned marker is counted once, also when the drive that counted it
\* died before it could remove it and the next drives meet it again.
OrphanCountedOnce == recounted = {}

\* No TAKE has swept a newer claim off the marker path: two drives decided on
\* the same legacy marker, and the slower renames what the faster has written.
NothingSwept == \A m \in graves \cup quarantine : IsLegacy(m)

\* While no claim was swept into a grave, two drives never have a counted
\* attempt in flight: the loser of a claim race launches nothing.
OneLiveAttempt ==
    NothingSwept =>
        \A d, e \in Drives :
            drive[d].pc \in Attempting /\ drive[e].pc \in Attempting => d = e

\* No attempt is free: one that did not end clean is counted, or still marked,
\* or about to be counted by its own drive, or the budget is exhausted.  `spent`
\* has the attempts of the drives modelled: the one behind a legacy marker is
\* not among them, and is lost when a drive takes the marker
\* (stallRetryBudget.ts:1733) and dies before it is counted (1817).
NoFreeAttempt ==
    NothingSwept =>
        \A g \in spent :
            \/ g \in recorded \cup reconciled
            \/ pending # None /\ pending.gen = g
            \/ stalls = Cap
            \/ \E d \in Drives : drive[d].gen = g /\ drive[d].pc \in {"record", "count"}

\* A drive that passed the gate may still launch when another exhausts the
\* budget before its claim, but each drive does so once at most.
OvershootBounded == NothingSwept => Cardinality(spent) <= Cap + Cardinality(Drives) - 1
=============================================================================
