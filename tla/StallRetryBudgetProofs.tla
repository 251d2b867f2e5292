----------------------- MODULE StallRetryBudgetProofs -----------------------
(***************************************************************************)
(* Proofs about the stall-retry ledger, for any number of drives, any cap  *)
(* and any retry limits.                                                   *)
(*                                                                         *)
(* A drive meets the marker path at three moments it cannot make atomic:   *)
(* it decides on an orphan outside the lock, it counts it, and it disposes *)
(* of it.  The invariant StallInv says what stays true between them.       *)
(* DriveInv(d) is what the drive d relies on at each of its steps, Kept(e) *)
(* what a step of anybody else guarantees to the drive e: a drive at the   *)
(* disposal holds the lock, so the marker path is still, and the claim of  *)
(* a drive with an attempt in flight is too young to be taken for an       *)
(* orphan, so it leaves the marker path only by being swept.               *)
(***************************************************************************)
EXTENDS StallRetryBudget, FiniteSetTheorems, TLAPS

\* The orphans counted are the tombstones, each counted once.
Tombstones == consumed = reconciled /\ recounted = {}

\* A generation is drawn once, and a claim that was renamed to a grave is no
\* longer at the marker path.
Dated ==
    /\ pending # None => pending.gen < nextGen
    /\ pending # None /\ ~IsLegacy(pending) => pending \notin graves
    /\ \A m \in graves : m.gen < nextGen

InFlight(d) == drive[d].pc \in Attempting

\* Two attempts in flight have their own claims.
OwnClaims ==
    \A d, e \in Drives :
        InFlight(d) /\ InFlight(e) /\ drive[d].gen = drive[e].gen => d = e

\* An attempt is settled by its own drive.
Attempt(d) ==
    /\ InFlight(d) => drive[d].gen \in 1 .. nextGen - 1
    /\ drive[d].pc \in {"run", "clear"} => drive[d].gen \notin spent
    /\ At(d, "supersede") => drive[d].gen \in recorded \/ stalls = Cap

\* The orphan a drive decided on, before and inside the lock.
Decided(d) ==
    /\ At(d, "relock") => drive[d].snap # None /\ drive[d].snap.gen \in aged
    /\ At(d, "verify") =>
          /\ pending = None /\ drive[d].taken # None
          /\ drive[d].snap # None /\ IsLegacy(drive[d].snap)
    /\ At(d, "destroy") =>
          /\ drive[d].snap # None /\ drive[d].snap.gen \in consumed
          /\ \/ pending = None /\ IsLegacy(drive[d].snap)
             \/ pending = drive[d].snap /\ drive[d].snap.gen \in aged

\* While no claim was swept, an attempt in flight is the marked one.
Marked(d) ==
    NothingSwept /\ InFlight(d) =>
        pending # None /\ pending.gen = drive[d].gen /\ drive[d].gen \notin aged

DriveInv(d) == Attempt(d) /\ Decided(d) /\ Marked(d)

StallInv ==
    /\ TypeOK /\ Tombstones /\ Dated /\ OwnClaims /\ NoFreeAttempt
    /\ \A d \in Drives : DriveInv(d)

LEMMA IdleDrive == Idle \in Drive /\ Idle.pc = "idle"
BY StallAssumption DEF Idle, Drive, Phases, Attempting

LEMMA Moved ==
    ASSUME drive \in [Drives -> Drive], NEW d \in Drives, NEW r \in Drive, Becomes(d, r)
    PROVE  /\ drive' \in [Drives -> Drive]
           /\ drive'[d] = r
           /\ \A e \in Drives : e # d => drive'[e] = drive[e]
BY DEF Becomes

LEMMA Intervals ==
    ASSUME NEW m \in Nat, NEW n \in Nat, m <= n
    PROVE  0 .. m - 1 \subseteq 0 .. n - 1 /\ 1 .. m - 1 \subseteq 1 .. n - 1
OBVIOUS

LEMMA LaterGenerations ==
    ASSUME GenerationsOK, nextGen' \in {nextGen, nextGen + 1},
           consumed' = consumed, aged' = aged, spent' = spent
    PROVE  GenerationsOK'
<1>1. nextGen \in Nat /\ nextGen' \in Nat /\ nextGen' # 0 /\ nextGen <= nextGen'
    BY DEF GenerationsOK
<1>2. 0 .. nextGen - 1 \subseteq 0 .. nextGen' - 1 /\ 1 .. nextGen - 1 \subseteq 1 .. nextGen' - 1
    BY <1>1, Intervals, Zenon
<1> QED
    BY <1>1, <1>2 DEF GenerationsOK

\* What a step of another drive, or of the environment, guarantees to e.
Kept(e) ==
    /\ drive'[e] = drive[e]
    /\ nextGen <= nextGen' /\ stalls <= stalls'
    /\ aged \subseteq aged' /\ consumed \subseteq consumed' /\ recorded \subseteq recorded'
    /\ drive[e].pc \in {"run", "clear"} /\ drive[e].gen \in spent' => drive[e].gen \in spent
    /\ drive[e].pc \in {"verify", "destroy"} => pending' = pending
    /\ NothingSwept' => NothingSwept
    /\ NothingSwept' /\ InFlight(e) =>
          pending' = pending /\ (drive[e].gen \in aged' => drive[e].gen \in aged)

LEMMA KeptDrive ==
    ASSUME TypeOK, TypeOK', NEW e \in Drives, DriveInv(e), Kept(e)
    PROVE  DriveInv(e)'
<1>1. drive[e] \in Drive /\ drive'[e] = drive[e]
    BY DEF TypeOK, Kept
<1>2. nextGen \in Nat /\ nextGen' \in Nat /\ stalls \in 0 .. Cap /\ stalls' \in 0 .. Cap
    BY DEF TypeOK, GenerationsOK, CountOK
<1>3. Attempt(e)'
    BY <1>1, <1>2, StallAssumption DEF DriveInv, Attempt, Kept, InFlight, At, Drive, Attempting
<1>4. Decided(e)'
    BY <1>1 DEF DriveInv, Decided, Kept, At, IsLegacy
<1>5. Marked(e)'
    BY <1>1 DEF DriveInv, Marked, Kept, InFlight
<1> QED
    BY <1>3, <1>4, <1>5 DEF DriveInv

LEMMA Assemble ==
    ASSUME StallInv, NEW d \in Drives,
           TypeOK', Tombstones', Dated', OwnClaims', NoFreeAttempt', DriveInv(d)',
           \A e \in Drives \ {d} : Kept(e)
    PROVE  StallInv'
<1>1. ASSUME NEW e \in Drives PROVE DriveInv(e)'
    BY <1>1, KeptDrive DEF StallInv
<1> QED
    BY <1>1 DEF StallInv

LEMMA InitStall == Init => StallInv
<1> SUFFICES ASSUME Init PROVE StallInv
    OBVIOUS
<1>1. \A d \in Drives : drive[d] = Idle
    BY DEF Init
<1>2. TypeOK
    <2>1. CountOK
        BY FS_EmptySet, StallAssumption DEF Init, CountOK
    <2>2. GenerationsOK
        BY DEF Init, GenerationsOK
    <2>3. FilesOK
        BY DEF Init, FilesOK, LegacyMarker, Marker
    <2>4. LockOK
        BY <1>1, IdleDrive, StallAssumption DEF Init, LockOK
    <2>5. drive \in [Drives -> Drive]
        BY IdleDrive DEF Init
    <2>6. crashes \in 0 .. MaxCrashes /\ clean \in 0 .. MaxClean
        BY StallAssumption DEF Init
    <2> QED
        BY <2>1, <2>2, <2>3, <2>4, <2>5, <2>6 DEF TypeOK
<1>3. Tombstones /\ Dated /\ OwnClaims /\ NoFreeAttempt
    BY <1>1, IdleDrive
       DEF Init, Tombstones, Dated, OwnClaims, NoFreeAttempt, LegacyMarker, IsLegacy,
           InFlight, Attempting
<1>4. \A d \in Drives : DriveInv(d)
    BY <1>1, IdleDrive DEF DriveInv, Attempt, Decided, Marked, InFlight, At, Attempting
<1> QED
    BY <1>2, <1>3, <1>4 DEF StallInv

-----------------------------------------------------------------------------
(***************************************************************************)
(* The kinds of steps.  First the ones that only move a drive without an   *)
(* attempt, outside the lock.                                              *)
(***************************************************************************)

Resting == Phases \ (Attempting \cup {"verify", "destroy"})

LEMMA Aside ==
    ASSUME StallInv, NEW d \in Drives, drive[d].pc \in Resting,
           NEW r \in Drive, Becomes(d, r), r.pc \in Resting,
           r.pc = "relock" => r.snap # None /\ r.snap.gen \in aged,
           crashes' \in 0 .. MaxCrashes, clean' \in 0 .. MaxClean,
           UNCHANGED <<ledger, files, aged, lock, nextGen, history>>
    PROVE  StallInv'
<1>1. /\ drive' \in [Drives -> Drive]
      /\ drive'[d] = r
      /\ \A e \in Drives : e # d => drive'[e] = drive[e]
    BY Moved DEF StallInv, TypeOK
<1>2. /\ drive[d].pc \notin Attempting /\ drive[d].pc \notin {"verify", "destroy"}
      /\ r.pc \notin Attempting /\ r.pc \notin {"verify", "destroy"}
    BY DEF Resting
<1>3. /\ stalls' = stalls /\ consumed' = consumed /\ aged' = aged /\ lock' = lock
      /\ pending' = pending /\ graves' = graves /\ quarantine' = quarantine
      /\ nextGen' = nextGen
      /\ spent' = spent /\ recorded' = recorded
      /\ reconciled' = reconciled /\ recounted' = recounted
    BY DEF ledger, files, history
<1>4. LockOK'
    BY <1>1, <1>2, <1>3 DEF StallInv, TypeOK, LockOK
<1>5. TypeOK'
    BY <1>1, <1>3, <1>4 DEF StallInv, TypeOK, CountOK, GenerationsOK, FilesOK
<1>6. Tombstones' /\ Dated'
    BY <1>3 DEF StallInv, Tombstones, Dated, IsLegacy
<1>7. OwnClaims'
    BY <1>1, <1>2 DEF StallInv, OwnClaims, InFlight
<1>8. NothingSwept' <=> NothingSwept
    BY <1>3 DEF NothingSwept, IsLegacy
<1>9. NoFreeAttempt'
    BY <1>1, <1>2, <1>3, <1>8 DEF StallInv, NoFreeAttempt, Attempting
<1>10. DriveInv(d)'
    BY <1>1, <1>2, <1>3 DEF DriveInv, Attempt, Decided, Marked, InFlight, At, Attempting
<1>11. \A e \in Drives \ {d} : Kept(e)
    BY <1>1, <1>3, <1>8 DEF StallInv, TypeOK, CountOK, GenerationsOK, Kept
<1> QED
    BY <1>5, <1>6, <1>7, <1>9, <1>10, <1>11, Assemble

LEMMA BoundsKept ==
    ASSUME StallInv, UNCHANGED bounds
    PROVE  crashes' \in 0 .. MaxCrashes /\ clean' \in 0 .. MaxClean
BY DEF StallInv, TypeOK, bounds

LEMMA StopAside ==
    ASSUME StallInv, NEW d \in Drives, drive[d].pc \in Resting, Stop(d),
           UNCHANGED <<ledger, files, aged, lock, nextGen, bounds, history>>
    PROVE  StallInv'
BY Aside, BoundsKept, IdleDrive DEF Stop, Resting, Phases, Attempting

LEMMA StartStep ==
    ASSUME StallInv, NEW d \in Drives, Start(d) PROVE StallInv'
<1> DEFINE r == [drive[d] EXCEPT !.pc = "stat"]
<1>1. r \in Drive /\ r.pc = "stat" /\ drive[d].pc = "idle"
    BY DEF StallInv, TypeOK, Drive, Start, At, Phases
<1>2. Becomes(d, r) /\ UNCHANGED <<ledger, files, aged, lock, nextGen, bounds, history>>
    BY DEF Start, Goto
<1> HIDE DEF r
<1> QED
    BY <1>1, <1>2, Aside, BoundsKept DEF Resting, Phases, Attempting

LEMMA StatStep ==
    ASSUME StallInv, NEW d \in Drives, StatMarker(d) PROVE StallInv'
<1> DEFINE r == [drive[d] EXCEPT !.pc = IF pending = None THEN "read" ELSE "snap"]
<1>1. r \in Drive /\ r.pc \in {"read", "snap"} /\ drive[d].pc = "stat"
    BY DEF StallInv, TypeOK, Drive, StatMarker, At, Phases
<1>2. Becomes(d, r) /\ UNCHANGED <<ledger, files, aged, lock, nextGen, bounds, history>>
    BY DEF StatMarker, Goto
<1> HIDE DEF r
<1> QED
    BY <1>1, <1>2, Aside, BoundsKept DEF Resting, Phases, Attempting

LEMMA SnapshotStep ==
    ASSUME StallInv, NEW d \in Drives, SnapshotMarker(d) PROVE StallInv'
<1>1. /\ drive[d].pc = "snap"
      /\ UNCHANGED <<ledger, files, aged, lock, nextGen, bounds, history>>
    BY DEF SnapshotMarker, At
<1>2. CASE Stop(d)
    BY <1>1, <1>2, StopAside DEF Resting, Phases, Attempting
<1>3. CASE /\ IsOrphan(pending)
           /\ Becomes(d, [drive[d] EXCEPT !.pc = "relock", !.snap = pending])
    <2> DEFINE r == [drive[d] EXCEPT !.pc = "relock", !.snap = pending]
    <2>1. r \in Drive /\ r.pc = "relock" /\ r.snap = pending
        BY DEF StallInv, TypeOK, FilesOK, Drive, Phases
    <2>2. Becomes(d, r)
        BY <1>3
    <2> HIDE DEF r
    <2> QED
        BY <1>1, <1>3, <2>1, <2>2, Aside, BoundsKept DEF Resting, Phases, Attempting, IsOrphan
<1> QED
    BY <1>2, <1>3 DEF SnapshotMarker

LEMMA ReadStep ==
    ASSUME StallInv, NEW d \in Drives, ReadCount(d) PROVE StallInv'
<1>1. /\ drive[d].pc = "read"
      /\ UNCHANGED <<ledger, files, aged, lock, nextGen, bounds, history>>
    BY DEF ReadCount, At
<1>2. CASE Stop(d)
    BY <1>1, <1>2, StopAside DEF Resting, Phases, Attempting
<1>3. CASE Becomes(d, [drive[d] EXCEPT !.pc = "stat", !.mode = "gate",
                                       !.persisted = stalls, !.tries = 0])
    <2> DEFINE r == [drive[d] EXCEPT !.pc = "stat", !.mode = "gate",
                                     !.persisted = stalls, !.tries = 0]
    <2>a. drive[d] \in Drive /\ stalls \in Nat /\ 0 \in Nat
        BY StallAssumption DEF StallInv, TypeOK, CountOK
    <2>1. r \in Drive /\ r.pc = "stat"
        BY <2>a DEF Drive, Phases
    <2>2. Becomes(d, r)
        BY <1>3
    <2> HIDE DEF r
    <2> QED
        BY <1>1, <2>1, <2>2, Aside, BoundsKept DEF Resting, Phases, Attempting
<1>4. CASE Becomes(d, [drive[d] EXCEPT !.pc = "claim", !.mode = "claim", !.tries = 0,
                           !.attempt = drive[d].persisted + drive[d].retries + 1])
    <2> DEFINE r == [drive[d] EXCEPT !.pc = "claim", !.mode = "claim", !.tries = 0,
                         !.attempt = drive[d].persisted + drive[d].retries + 1]
    <2>a. /\ drive[d] \in Drive /\ 0 \in Nat
          /\ drive[d].persisted + drive[d].retries + 1 \in Nat
        BY DEF StallInv, TypeOK, Drive
    <2>1. r \in Drive /\ r.pc = "claim"
        BY <2>a DEF Drive, Phases
    <2>2. Becomes(d, r)
        BY <1>4
    <2> HIDE DEF r
    <2> QED
        BY <1>1, <2>1, <2>2, Aside, BoundsKept DEF Resting, Phases, Attempting
<1> QED
    BY <1>2, <1>3, <1>4 DEF ReadCount

-----------------------------------------------------------------------------
(***************************************************************************)
(* A marker, if there is one, is a counted orphan and leaves the marker    *)
(* path; the drive stops, reads the count, or writes its own claim.        *)
(***************************************************************************)

\* The marker path is free, or holds an orphan that is paid for.
Settled ==
    pending # None =>
        pending.gen \in aged /\ (pending.gen \in consumed \/ stalls >= Cap)

LEMMA NobodyInFlight ==
    ASSUME StallInv, Settled, NothingSwept, NEW d \in Drives
    PROVE  ~InFlight(d)
BY DEF StallInv, DriveInv, Marked, Settled

\* The graves that went were legacy markers.
GravesCleared ==
    graves' \subseteq graves /\ \A m \in graves \ graves' : IsLegacy(m)

LEMMA Disposed ==
    ASSUME StallInv, Settled, NEW d \in Drives, ~InFlight(d), NEW r \in Drive, Becomes(d, r),
           r.pc \notin {"relock", "verify", "destroy"}, lock \in {None, d},
           \/ r.pc \notin Attempting /\ pending' = None /\ nextGen' = nextGen
           \/ /\ r.pc = "run" /\ r.gen = nextGen /\ nextGen' = nextGen + 1
              /\ pending' = [gen |-> nextGen, attempt |-> drive[d].attempt],
           GravesCleared, lock' = None,
           UNCHANGED <<ledger, quarantine, aged, bounds, history>>
    PROVE  StallInv'
<1>1. /\ drive' \in [Drives -> Drive]
      /\ drive'[d] = r
      /\ \A e \in Drives : e # d => drive'[e] = drive[e]
    BY Moved DEF StallInv, TypeOK
<1>2. /\ stalls' = stalls /\ consumed' = consumed /\ aged' = aged
      /\ quarantine' = quarantine /\ crashes' = crashes /\ clean' = clean
      /\ spent' = spent /\ recorded' = recorded
      /\ reconciled' = reconciled /\ recounted' = recounted
    BY DEF ledger, bounds, history
<1>3. nextGen \in Nat \ {0} /\ nextGen' \in {nextGen, nextGen + 1}
    BY DEF StallInv, TypeOK, GenerationsOK
<1>4. drive[d].attempt \in Nat
    BY DEF StallInv, TypeOK, Drive
<1>5. /\ pending' # None => pending' \in Marker /\ pending'.gen = nextGen /\ nextGen' = nextGen + 1
      /\ r.pc \in Attempting =>
            r.pc = "run" /\ r.gen = nextGen /\ nextGen' = nextGen + 1 /\ pending' # None
    BY <1>3, <1>4, StallAssumption DEF Marker
<1>6. TypeOK'
    <2>1. CountOK'
        BY <1>2 DEF StallInv, TypeOK, CountOK
    <2>2. GenerationsOK'
        BY <1>2, <1>3, LaterGenerations DEF StallInv, TypeOK
    <2>3. FilesOK'
        BY <1>2, <1>5 DEF StallInv, TypeOK, FilesOK, GravesCleared
    <2>4. LockOK'
        BY <1>1, StallAssumption DEF StallInv, TypeOK, LockOK
    <2> QED
        BY <1>1, <1>2, <2>1, <2>2, <2>3, <2>4 DEF StallInv, TypeOK
<1>7. Tombstones'
    BY <1>2 DEF StallInv, Tombstones
<1>8. Dated'
    <2>1. \A m \in graves' : m \in Marker /\ m.gen < nextGen
        BY DEF StallInv, Dated, GravesCleared, TypeOK, FilesOK
    <2> QED
        BY <1>3, <1>5, <2>1 DEF Dated, Marker
<1>9. OwnClaims'
    <2>1. \A e \in Drives : InFlight(e) => drive[e].gen < nextGen
        BY <1>3 DEF StallInv, DriveInv, Attempt
    <2> QED
        BY <1>1, <1>3, <1>5, <2>1 DEF StallInv, OwnClaims, InFlight
<1>10. NothingSwept' => NothingSwept
    BY <1>2 DEF NothingSwept, GravesCleared
<1>11. NoFreeAttempt'
    <2> SUFFICES ASSUME NothingSwept', NEW g \in spent
                 PROVE  g \in recorded \cup reconciled \/ stalls = Cap
        BY <1>2 DEF NoFreeAttempt
    <2>1. \A e \in Drives : ~InFlight(e)
        BY <1>10, NobodyInFlight
    <2>2. stalls >= Cap => stalls = Cap
        BY StallAssumption DEF StallInv, TypeOK, CountOK
    <2>3. consumed = reconciled
        BY DEF StallInv, Tombstones
    <2> QED
        BY <1>10, <2>1, <2>2, <2>3 DEF StallInv, NoFreeAttempt, Settled, InFlight, Attempting
<1>12. DriveInv(d)'
    <2>1. nextGen \notin spent /\ nextGen \notin aged
        BY <1>3 DEF StallInv, TypeOK, GenerationsOK
    <2>2. Attempt(d)'
        BY <1>1, <1>2, <1>3, <1>5, <2>1 DEF Attempt, InFlight, At, Attempting
    <2>3. Decided(d)'
        BY <1>1 DEF Decided, At
    <2>4. Marked(d)'
        BY <1>1, <1>2, <1>5, <2>1 DEF Marked, InFlight
    <2> QED
        BY <2>2, <2>3, <2>4 DEF DriveInv
<1>13. ASSUME NEW e \in Drives \ {d} PROVE Kept(e)
    <2>1. NothingSwept' => ~InFlight(e)
        BY <1>10, NobodyInFlight
    <2>2. drive[e].pc \notin {"verify", "destroy"}
        BY StallAssumption DEF StallInv, TypeOK, LockOK
    <2> QED
        BY <1>1, <1>2, <1>3, <1>10, <2>1, <2>2 DEF StallInv, TypeOK, CountOK, Kept
<1> QED
    BY <1>6, <1>7, <1>8, <1>9, <1>11, <1>12, <1>13, Assemble

LEMMA ClaimStep ==
    ASSUME StallInv, Settled, NEW d \in Drives, ~InFlight(d), lock \in {None, d}, NewClaim(d),
           GravesCleared, lock' = None,
           UNCHANGED <<ledger, quarantine, aged, bounds, history>>
    PROVE  StallInv'
<1> DEFINE r == [drive[d] EXCEPT !.pc = "run", !.gen = nextGen, !.snap = None, !.taken = None]
<1>1. drive[d] \in Drive /\ nextGen \in Nat
    BY DEF StallInv, TypeOK, GenerationsOK
<1>2. r \in Drive /\ r.pc = "run" /\ r.gen = nextGen
    BY <1>1 DEF Drive, Phases, Attempting
<1>3. /\ Becomes(d, r) /\ nextGen' = nextGen + 1
      /\ pending' = [gen |-> nextGen, attempt |-> drive[d].attempt]
    BY DEF NewClaim
<1> HIDE DEF r
<1> QED
    BY <1>2, <1>3, Disposed

LEMMA ContinueStep ==
    ASSUME StallInv, Settled, NEW d \in Drives, ~InFlight(d), lock \in {None, d},
           NEW refuse, Continue(d, refuse), GravesCleared, lock' = None,
           UNCHANGED <<ledger, quarantine, aged, bounds, history>>
    PROVE  StallInv'
<1>1. CASE pending' = None /\ UNCHANGED nextGen /\ Stop(d)
    BY <1>1, Disposed, IdleDrive DEF Stop, Attempting
<1>2. CASE NewClaim(d)
    BY <1>2, ClaimStep
<1>3. CASE /\ pending' = None /\ UNCHANGED nextGen
           /\ Becomes(d, [drive[d] EXCEPT !.pc = "read", !.snap = None, !.taken = None])
    <2> DEFINE r == [drive[d] EXCEPT !.pc = "read", !.snap = None, !.taken = None]
    <2>1. drive[d] \in Drive
        BY DEF StallInv, TypeOK
    <2>2. r \in Drive /\ r.pc = "read"
        BY <2>1 DEF Drive, Phases
    <2>3. Becomes(d, r)
        BY <1>3
    <2> HIDE DEF r
    <2> QED
        BY <1>3, <2>2, <2>3, Disposed DEF Attempting
<1> QED
    BY <1>1, <1>2, <1>3 DEF Continue

\* The marker m is an orphan at the marker path, or a legacy one in a grave.
Orphaned(m) ==
    \/ pending = None /\ IsLegacy(m)
    \/ pending = m /\ m.gen \in aged

LEMMA ClearedGrave ==
    ASSUME StallInv, NEW m \in Marker, Orphaned(m), graves' = graves \ {m}
    PROVE  GravesCleared
BY StallAssumption DEF StallInv, Dated, Orphaned, GravesCleared, Marker

LEMMA DropStep ==
    ASSUME StallInv, NEW d \in Drives, ~InFlight(d), lock \in {None, d},
           NEW m \in Marker, Orphaned(m), DropOrphan(d, m), UNCHANGED <<aged, bounds>>
    PROVE  StallInv'
<1>1. Settled
    BY DEF Orphaned, DropOrphan, Settled
<1>2. GravesCleared
    BY ClearedGrave DEF DropOrphan
<1> QED
    BY <1>1, <1>2, ContinueStep DEF DropOrphan

LEMMA CountStep ==
    ASSUME StallInv, NEW d \in Drives, ~InFlight(d), lock \in {None, d},
           NEW m \in Marker, Orphaned(m), CountOrphan(d, m), UNCHANGED <<aged, bounds>>
    PROVE  StallInv'
<1> DEFINE r == [drive[d] EXCEPT !.pc = "destroy", !.snap = m]
<1>1. drive[d] \in Drive
    BY DEF StallInv, TypeOK
<1>2. r \in Drive /\ r.pc = "destroy" /\ r.snap = m
    BY <1>1 DEF Drive, Phases
<1>3. Becomes(d, r)
    BY DEF CountOrphan
<1> HIDE DEF r
<1>4. /\ drive' \in [Drives -> Drive]
      /\ drive'[d] = r
      /\ \A e \in Drives : e # d => drive'[e] = drive[e]
    BY <1>2, <1>3, Moved DEF StallInv, TypeOK
<1>5. /\ m.gen \notin consumed /\ stalls < Cap /\ stalls' = stalls + 1 /\ lock' = d
      /\ consumed' = consumed \cup {m.gen}
      /\ reconciled' = reconciled \cup {m.gen}
      /\ recounted' = recounted \cup ({m.gen} \cap reconciled)
    BY DEF CountOrphan
<1>6. /\ aged' = aged /\ pending' = pending /\ graves' = graves /\ quarantine' = quarantine
      /\ nextGen' = nextGen /\ crashes' = crashes /\ clean' = clean
      /\ spent' = spent /\ recorded' = recorded
    BY DEF CountOrphan, files, bounds
<1>7. m.gen \in 0 .. nextGen - 1
    <2>1. nextGen \in Nat \ {0} /\ aged \subseteq 0 .. nextGen - 1
        BY DEF StallInv, TypeOK, GenerationsOK
    <2>2. m.gen = 0 \/ m.gen \in aged
        BY DEF Orphaned, IsLegacy
    <2>3. 0 \in 0 .. nextGen - 1
        BY <2>1
    <2> QED
        BY <2>1, <2>2, <2>3, Zenon
<1>8. TypeOK'
    <2>1. CountOK'
        <3>1. IsFiniteSet(consumed') /\ Cardinality(consumed') = Cardinality(consumed) + 1
            BY <1>5, FS_AddElement DEF StallInv, TypeOK, CountOK
        <3>2. Cardinality(consumed) \in Nat
            BY FS_CardinalityType DEF StallInv, TypeOK, CountOK
        <3> QED
            BY <1>5, <3>1, <3>2, StallAssumption DEF StallInv, TypeOK, CountOK
    <2>2. GenerationsOK'
        BY <1>5, <1>6, <1>7 DEF StallInv, TypeOK, GenerationsOK
    <2>3. LockOK'
        BY <1>2, <1>4, <1>5, StallAssumption DEF StallInv, TypeOK, LockOK
    <2> QED
        BY <1>4, <1>6, <2>1, <2>2, <2>3 DEF StallInv, TypeOK, FilesOK
<1>9. Tombstones' /\ Dated'
    BY <1>5, <1>6 DEF StallInv, Tombstones, Dated
<1>10. OwnClaims'
    BY <1>2, <1>4 DEF StallInv, OwnClaims, InFlight, Attempting
<1>11. NothingSwept' <=> NothingSwept
    BY <1>6 DEF NothingSwept
<1>12. NoFreeAttempt'
    <2> SUFFICES ASSUME NothingSwept', NEW g \in spent
                 PROVE  \/ g \in recorded \cup reconciled
                        \/ pending # None /\ pending.gen = g
                        \/ \E e \in Drives : /\ drive'[e].gen = g
                                             /\ drive'[e].pc \in {"record", "count"}
        BY <1>5, <1>6 DEF NoFreeAttempt
    <2>1. stalls # Cap
        BY <1>5, StallAssumption DEF StallInv, TypeOK, CountOK
    <2>2. \A e \in Drives : drive[e].pc \in {"record", "count"} => drive'[e] = drive[e]
        BY <1>4 DEF InFlight, Attempting
    <2> QED
        BY <1>11, <2>1, <2>2 DEF StallInv, NoFreeAttempt
<1>13. DriveInv(d)'
    BY <1>2, <1>4, <1>5, <1>6, StallAssumption
       DEF DriveInv, Attempt, Decided, Marked, InFlight, At, Attempting, Orphaned, Marker
<1>14. \A e \in Drives \ {d} : Kept(e)
    BY <1>4, <1>5, <1>6, <1>11 DEF StallInv, TypeOK, CountOK, GenerationsOK, Kept
<1> QED
    BY <1>8, <1>9, <1>10, <1>12, <1>13, <1>14, Assemble

LEMMA TakeStep ==
    ASSUME StallInv, NEW d \in Drives, ~InFlight(d), lock = None, pending # None,
           NEW m \in Marker, IsLegacy(m), TakeGrave(d, m), UNCHANGED <<aged, bounds>>
    PROVE  StallInv'
<1> DEFINE r == [drive[d] EXCEPT !.pc = "verify", !.snap = m, !.taken = pending]
<1>1. drive[d] \in Drive /\ pending \in Marker
    BY DEF StallInv, TypeOK, FilesOK
<1>2. r \in Drive /\ r.pc = "verify" /\ r.snap = m /\ r.taken = pending
    BY <1>1 DEF Drive, Phases
<1>3. Becomes(d, r)
    BY DEF TakeGrave
<1> HIDE DEF r
<1>4. /\ drive' \in [Drives -> Drive]
      /\ drive'[d] = r
      /\ \A e \in Drives : e # d => drive'[e] = drive[e]
    BY <1>2, <1>3, Moved DEF StallInv, TypeOK
<1>5. /\ graves' = graves \cup {pending} /\ pending' = None /\ lock' = d
      /\ stalls' = stalls /\ consumed' = consumed /\ aged' = aged
      /\ quarantine' = quarantine /\ nextGen' = nextGen
      /\ crashes' = crashes /\ clean' = clean
      /\ spent' = spent /\ recorded' = recorded
      /\ reconciled' = reconciled /\ recounted' = recounted
    BY DEF TakeGrave, ledger, bounds, history
<1>6. TypeOK'
    <2>1. CountOK' /\ GenerationsOK'
        BY <1>5 DEF StallInv, TypeOK, CountOK, GenerationsOK
    <2>2. FilesOK'
        BY <1>1, <1>5 DEF StallInv, TypeOK, FilesOK
    <2>3. LockOK'
        BY <1>2, <1>4, <1>5, StallAssumption DEF StallInv, TypeOK, LockOK
    <2> QED
        BY <1>4, <1>5, <2>1, <2>2, <2>3 DEF StallInv, TypeOK
<1>7. Tombstones' /\ Dated'
    BY <1>5 DEF StallInv, Tombstones, Dated
<1>8. OwnClaims'
    BY <1>2, <1>4 DEF StallInv, OwnClaims, InFlight, Attempting
<1>9. NothingSwept' => NothingSwept /\ pending.gen = 0
    BY <1>5 DEF NothingSwept, IsLegacy
<1>10. NothingSwept' => \A e \in Drives : ~InFlight(e)
    BY <1>9 DEF StallInv, DriveInv, Attempt, Marked, TypeOK, GenerationsOK
<1>11. NoFreeAttempt'
    <2>1. 0 \notin spent
        BY DEF StallInv, TypeOK, GenerationsOK
    <2> QED
        BY <1>5, <1>9, <1>10, <2>1 DEF StallInv, NoFreeAttempt, InFlight, Attempting
<1>12. DriveInv(d)'
    BY <1>1, <1>2, <1>4, <1>5, StallAssumption
       DEF DriveInv, Attempt, Decided, Marked, InFlight, At, Attempting, Marker
<1>13. ASSUME NEW e \in Drives \ {d} PROVE Kept(e)
    <2>1. drive[e].pc \notin {"verify", "destroy"}
        BY StallAssumption DEF StallInv, TypeOK, LockOK
    <2> QED
        BY <1>4, <1>5, <1>9, <1>10, <2>1 DEF StallInv, TypeOK, CountOK, GenerationsOK, Kept
<1> QED
    BY <1>6, <1>7, <1>8, <1>11, <1>12, <1>13, Assemble

LEMMA SettleStep ==
    ASSUME StallInv, NEW d \in Drives, ~InFlight(d), lock = None, pending # None,
           NEW m \in Marker, m.gen \in aged, pending = m \/ IsLegacy(m),
           SettleOrphan(d, m), UNCHANGED <<aged, bounds>>
    PROVE  StallInv'
<1>1. CASE ~IsLegacy(m) /\ CountOrphan(d, m)
    BY <1>1, CountStep DEF Orphaned
<1>2. CASE ~IsLegacy(m) /\ DropOrphan(d, m)
    BY <1>2, DropStep DEF Orphaned
<1>3. CASE IsLegacy(m) /\ TakeGrave(d, m)
    BY <1>3, TakeStep
<1> QED
    BY <1>1, <1>2, <1>3 DEF SettleOrphan

LEMMA ReconcileStep ==
    ASSUME StallInv, NEW d \in Drives, EnterReconcile(d) PROVE StallInv'
<1> DEFINE m == drive[d].snap
<1>1. drive[d] \in Drive /\ m \in Marker /\ m.gen \in aged
    BY DEF StallInv, TypeOK, Drive, DriveInv, Decided, EnterReconcile, At
<1>2. /\ drive[d].pc = "relock" /\ lock = None /\ UNCHANGED <<aged, bounds>>
    BY DEF EnterReconcile, At
<1>3. CASE /\ Becomes(d, [drive[d] EXCEPT !.pc = "read", !.snap = None])
           /\ UNCHANGED <<ledger, files, lock, nextGen, history>>
    <2> DEFINE r == [drive[d] EXCEPT !.pc = "read", !.snap = None]
    <2>1. r \in Drive /\ r.pc = "read"
        BY <1>1 DEF Drive, Phases
    <2>2. Becomes(d, r)
        BY <1>3
    <2> HIDE DEF r
    <2> QED
        BY <1>2, <1>3, <2>1, <2>2, Aside, BoundsKept DEF Resting, Phases, Attempting
<1>4. CASE /\ Becomes(d, [drive[d] EXCEPT !.pc = "snap", !.snap = None, !.tries = @ + 1])
           /\ UNCHANGED <<ledger, files, lock, nextGen, history>>
    <2> DEFINE r == [drive[d] EXCEPT !.pc = "snap", !.snap = None, !.tries = @ + 1]
    <2>1. drive[d].tries + 1 \in Nat
        BY <1>1 DEF Drive
    <2>2. r \in Drive /\ r.pc = "snap"
        BY <1>1, <2>1 DEF Drive, Phases
    <2>3. Becomes(d, r)
        BY <1>4
    <2> HIDE DEF r
    <2> QED
        BY <1>2, <1>4, <2>2, <2>3, Aside, BoundsKept DEF Resting, Phases, Attempting
<1>5. CASE Stop(d) /\ UNCHANGED <<ledger, files, lock, nextGen, history>>
    BY <1>2, <1>5, StopAside DEF Resting, Phases, Attempting
<1>6. CASE pending # None /\ (pending = m \/ IsLegacy(m)) /\ SettleOrphan(d, m)
    BY <1>1, <1>2, <1>6, SettleStep DEF InFlight, Attempting
<1> QED
    BY <1>3, <1>4, <1>5, <1>6 DEF EnterReconcile

LEMMA ClaimAction ==
    ASSUME StallInv, NEW d \in Drives, Claim(d) PROVE StallInv'
<1>1. drive[d].pc = "claim" /\ lock = None /\ UNCHANGED <<aged, bounds>>
    BY DEF Claim, At
<1>2. ~InFlight(d) /\ drive[d].pc \in Resting
    BY <1>1 DEF InFlight, Attempting, Resting, Phases
<1>3. CASE pending = None /\ NewClaim(d) /\ UNCHANGED <<ledger, graves, quarantine, lock, history>>
    BY <1>1, <1>2, <1>3, ClaimStep DEF Settled, GravesCleared
<1>4. CASE Stop(d) /\ UNCHANGED <<ledger, files, lock, nextGen, history>>
    BY <1>1, <1>2, <1>4, StopAside
<1>5. CASE IsOrphan(pending) /\ SettleOrphan(d, pending)
    <2>1. pending \in Marker
        BY <1>5 DEF IsOrphan, StallInv, TypeOK, FilesOK
    <2> QED
        BY <1>1, <1>2, <1>5, <2>1, SettleStep DEF IsOrphan
<1> QED
    BY <1>3, <1>4, <1>5 DEF Claim

LEMMA DestroyStep ==
    ASSUME StallInv, NEW d \in Drives, DestroyOrphan(d) PROVE StallInv'
<1> DEFINE m == drive[d].snap
<1>1. /\ At(d, "destroy") /\ graves' = graves \ {m} /\ lock' = None
      /\ Continue(d, drive[d].mode = "claim" /\ stalls >= Cap)
      /\ UNCHANGED <<ledger, quarantine, aged, bounds, history>>
    BY DEF DestroyOrphan
<1>2. m \in Marker /\ m.gen \in consumed /\ Orphaned(m)
    BY <1>1 DEF StallInv, TypeOK, Drive, DriveInv, Decided, Orphaned
<1>3. Settled /\ GravesCleared
    BY <1>1, <1>2, ClearedGrave DEF Settled, Orphaned
<1>4. ~InFlight(d) /\ lock \in {None, d}
    BY <1>1 DEF At, InFlight, Attempting, StallInv, TypeOK, LockOK
<1> QED
    BY <1>1, <1>3, <1>4, ContinueStep

\* A drive leaves the lock without touching the marker path; a grave it could
\* not verify is parked.
LEMMA Unlocked ==
    ASSUME StallInv, NEW d \in Drives, drive[d].pc \in {"verify", "destroy"},
           Stop(d), lock' = None,
           graves' \subseteq graves, quarantine' \subseteq Marker,
           graves \cup quarantine \subseteq graves' \cup quarantine',
           crashes' \in 0 .. MaxCrashes, clean' \in 0 .. MaxClean,
           UNCHANGED <<ledger, pending, aged, nextGen, history>>
    PROVE  StallInv'
<1>1. /\ drive' \in [Drives -> Drive]
      /\ drive'[d] = Idle
      /\ \A e \in Drives : e # d => drive'[e] = drive[e]
    BY Moved, IdleDrive DEF StallInv, TypeOK, Stop
<1>2. /\ stalls' = stalls /\ consumed' = consumed /\ aged' = aged
      /\ pending' = pending /\ nextGen' = nextGen
      /\ spent' = spent /\ recorded' = recorded
      /\ reconciled' = reconciled /\ recounted' = recounted
    BY DEF ledger, history
<1>3. TypeOK'
    <2>1. CountOK' /\ GenerationsOK'
        BY <1>2 DEF StallInv, TypeOK, CountOK, GenerationsOK
    <2>2. FilesOK'
        BY <1>2 DEF StallInv, TypeOK, FilesOK
    <2>3. LockOK'
        BY <1>1, IdleDrive, StallAssumption DEF StallInv, TypeOK, LockOK
    <2> QED
        BY <1>1, <2>1, <2>2, <2>3 DEF TypeOK
<1>4. Tombstones' /\ Dated'
    BY <1>2 DEF StallInv, Tombstones, Dated
<1>5. OwnClaims'
    BY <1>1, IdleDrive DEF StallInv, OwnClaims, InFlight, Attempting
<1>6. NothingSwept' => NothingSwept
    BY DEF NothingSwept
<1>7. NoFreeAttempt'
    BY <1>1, <1>2, <1>6 DEF StallInv, NoFreeAttempt
<1>8. DriveInv(d)'
    BY <1>1, IdleDrive DEF DriveInv, Attempt, Decided, Marked, InFlight, At, Attempting
<1>9. \A e \in Drives \ {d} : Kept(e)
    BY <1>1, <1>2, <1>6 DEF StallInv, TypeOK, CountOK, GenerationsOK, Kept
<1> QED
    BY <1>3, <1>4, <1>5, <1>7, <1>8, <1>9, Assemble

LEMMA VerifyStep ==
    ASSUME StallInv, NEW d \in Drives, VerifyGrave(d) PROVE StallInv'
<1> DEFINE m == drive[d].snap
           t == drive[d].taken
<1>1. drive[d].pc = "verify" /\ UNCHANGED <<aged, bounds>>
    BY DEF VerifyGrave, At
<1>2. m \in Marker /\ t \in Marker /\ IsLegacy(m) /\ pending = None
    BY <1>1 DEF StallInv, TypeOK, Drive, DriveInv, Decided, At
<1>3. ~InFlight(d) /\ lock \in {None, d}
    BY <1>1 DEF InFlight, Attempting, StallInv, TypeOK, LockOK
<1>4. CASE /\ quarantine' = quarantine \cup {t} /\ graves' = graves \ {t} /\ lock' = None
           /\ Stop(d) /\ UNCHANGED <<ledger, pending, nextGen, history>>
    <2>1. quarantine' \subseteq Marker
        BY <1>2, <1>4 DEF StallInv, TypeOK, FilesOK
    <2>2. graves' \subseteq graves /\ graves \cup quarantine \subseteq graves' \cup quarantine'
        BY <1>4
    <2> QED
        BY <1>1, <1>4, <2>1, <2>2, Unlocked, BoundsKept
<1>5. CASE CountOrphan(d, m)
    BY <1>1, <1>2, <1>3, <1>5, CountStep DEF Orphaned
<1>6. CASE DropOrphan(d, m)
    BY <1>1, <1>2, <1>3, <1>6, DropStep DEF Orphaned
<1> QED
    BY <1>4, <1>5, <1>6 DEF VerifyGrave

-----------------------------------------------------------------------------
(***************************************************************************)
(* The attempt.  While nothing was swept its own marker stands, so it may  *)
(* move, be counted or end without becoming free.                          *)
(***************************************************************************)

LEMMA Attempted ==
    ASSUME StallInv, NEW d \in Drives, InFlight(d), NEW r \in Drive, Becomes(d, r),
           r.pc \notin {"relock", "verify", "destroy"},
           r.pc \in Attempting => r.gen = drive[d].gen,
           UNCHANGED <<consumed, files, aged, lock, nextGen, reconciled, recounted>>,
           CountOK', stalls <= stalls', recorded \subseteq recorded',
           spent \subseteq spent', spent' \subseteq spent \cup {drive[d].gen},
           r.pc \in {"run", "clear"} => r.gen \notin spent',
           r.pc = "supersede" => r.gen \in recorded' \/ stalls' = Cap,
           crashes' \in 0 .. MaxCrashes, clean' \in 0 .. MaxClean
    PROVE  StallInv'
<1>1. /\ drive' \in [Drives -> Drive]
      /\ drive'[d] = r
      /\ \A e \in Drives : e # d => drive'[e] = drive[e]
    BY Moved DEF StallInv, TypeOK
<1>2. /\ consumed' = consumed /\ aged' = aged /\ lock' = lock
      /\ pending' = pending /\ graves' = graves /\ quarantine' = quarantine
      /\ nextGen' = nextGen /\ reconciled' = reconciled /\ recounted' = recounted
    BY DEF files
<1>3. drive[d].gen \in 1 .. nextGen - 1
    BY DEF StallInv, DriveInv, Attempt
<1>4. TypeOK'
    <2>1. GenerationsOK'
        BY <1>2, <1>3 DEF StallInv, TypeOK, GenerationsOK
    <2>2. FilesOK'
        BY <1>2 DEF StallInv, TypeOK, FilesOK
    <2>3. drive[d].pc \notin {"verify", "destroy"} /\ r.pc \notin {"verify", "destroy"}
        BY DEF InFlight, Attempting
    <2>4. LockOK'
        BY <1>1, <1>2, <2>3 DEF StallInv, TypeOK, LockOK
    <2> QED
        BY <1>1, <2>1, <2>2, <2>4 DEF TypeOK
<1>5. Tombstones' /\ Dated'
    BY <1>2 DEF StallInv, Tombstones, Dated
<1>6. OwnClaims'
    BY <1>1 DEF StallInv, OwnClaims, InFlight
<1>7. NothingSwept' <=> NothingSwept
    BY <1>2 DEF NothingSwept
<1>8. NothingSwept =>
          pending # None /\ pending.gen = drive[d].gen /\ drive[d].gen \notin aged
    BY DEF StallInv, DriveInv, Marked
<1>9. NoFreeAttempt'
    <2> SUFFICES ASSUME NothingSwept', NEW g \in spent', pending.gen # g
                 PROVE  \/ g \in recorded' \cup reconciled'
                        \/ stalls' = Cap
                        \/ \E e \in Drives : /\ drive'[e].gen = g
                                             /\ drive'[e].pc \in {"record", "count"}
        BY <1>2, <1>7, <1>8 DEF NoFreeAttempt
    <2>1. g \in spent /\ g # drive[d].gen
        BY <1>7, <1>8
    <2>2. stalls = Cap => stalls' = Cap
        BY StallAssumption DEF StallInv, TypeOK, CountOK
    <2> QED
        BY <1>1, <1>2, <1>7, <2>1, <2>2 DEF StallInv, NoFreeAttempt
<1>10. DriveInv(d)'
    <2>1. Attempt(d)'
        BY <1>1, <1>2, <1>3 DEF Attempt, InFlight, At, Attempting
    <2>2. Decided(d)'
        BY <1>1 DEF Decided, At
    <2>3. Marked(d)'
        BY <1>1, <1>2, <1>7, <1>8 DEF Marked, InFlight
    <2> QED
        BY <2>1, <2>2, <2>3 DEF DriveInv
<1>11. ASSUME NEW e \in Drives \ {d} PROVE Kept(e)
    <2>1. InFlight(e) => drive[e].gen # drive[d].gen
        BY DEF StallInv, OwnClaims
    <2>2. drive[e].pc \in {"run", "clear"} => InFlight(e)
        BY DEF InFlight, Attempting
    <2>3. nextGen \in Nat
        BY DEF StallInv, TypeOK, GenerationsOK
    <2> QED
        BY <1>1, <1>2, <1>7, <2>1, <2>2, <2>3 DEF Kept
<1> QED
    BY <1>4, <1>5, <1>6, <1>9, <1>10, <1>11, Assemble

LEMMA CountKept == ASSUME StallInv, UNCHANGED ledger PROVE CountOK' /\ stalls <= stalls'
BY StallAssumption DEF StallInv, TypeOK, CountOK, ledger

\* The three ends that spend the attempt.
LEMMA SpendStep ==
    ASSUME StallInv, NEW d \in Drives, At(d, "run"), NEW r \in Drive, Becomes(d, r),
           \/ r.pc = "record" /\ r.gen = drive[d].gen
           \/ r = Idle,
           spent' = spent \cup {drive[d].gen},
           UNCHANGED <<ledger, files, aged, lock, nextGen, bounds, recorded, reconciled, recounted>>
    PROVE  StallInv'
<1>1. InFlight(d)
    BY DEF InFlight, Attempting, At
<1>2. /\ UNCHANGED <<consumed, files, aged, lock, nextGen, reconciled, recounted>>
      /\ recorded \subseteq recorded'
    BY DEF ledger
<1>3. r.pc \in {"record", "idle"} /\ (r.pc = "record" => r.gen = drive[d].gen)
    BY IdleDrive
<1> QED
    BY <1>1, <1>2, <1>3, Attempted, CountKept, BoundsKept DEF Attempting

LEMMA StallKillStep ==
    ASSUME StallInv, NEW d \in Drives, StallKill(d) PROVE StallInv'
<1> DEFINE a == IF RetryAllowed(d) THEN "stall" ELSE "no"
           r == [drive[d] EXCEPT !.pc = "record", !.again = a]
<1>1. drive[d] \in Drive /\ a \in {"no", "stall", "hint"}
    BY DEF StallInv, TypeOK
<1>2. Becomes(d, r)
    BY DEF StallKill
<1> HIDE DEF a
<1>3. r \in Drive /\ r.pc = "record" /\ r.gen = drive[d].gen
    BY <1>1 DEF Drive, Phases, Attempting
<1> HIDE DEF r
<1> QED
    BY <1>2, <1>3, SpendStep DEF StallKill

LEMMA AmbiguousStep ==
    ASSUME StallInv, NEW d \in Drives, AmbiguousEnd(d) PROVE StallInv'
<1>1. PICK a \in HintOrEnd(d) : Becomes(d, [drive[d] EXCEPT !.pc = "record", !.again = a])
    BY DEF AmbiguousEnd
<1> DEFINE r == [drive[d] EXCEPT !.pc = "record", !.again = a]
<1>2. drive[d] \in Drive /\ a \in {"no", "stall", "hint"}
    BY DEF StallInv, TypeOK, HintOrEnd
<1>3. r \in Drive /\ r.pc = "record" /\ r.gen = drive[d].gen
    BY <1>2 DEF Drive, Phases, Attempting
<1>4. Becomes(d, r)
    BY <1>1
<1> HIDE DEF r
<1> QED
    BY <1>3, <1>4, SpendStep DEF AmbiguousEnd

LEMMA UncertainStep ==
    ASSUME StallInv, NEW d \in Drives, UncertainEnd(d) PROVE StallInv'
BY SpendStep, IdleDrive DEF UncertainEnd, Stop

LEMMA CleanStep ==
    ASSUME StallInv, NEW d \in Drives, CleanEnd(d) PROVE StallInv'
<1>1. PICK a \in HintOrEnd(d) : Becomes(d, [drive[d] EXCEPT !.pc = "clear", !.again = a])
    BY DEF CleanEnd
<1> DEFINE r == [drive[d] EXCEPT !.pc = "clear", !.again = a]
<1>2. drive[d] \in Drive /\ a \in {"no", "stall", "hint"}
    BY DEF StallInv, TypeOK, HintOrEnd
<1>3. r \in Drive /\ r.pc = "clear" /\ r.gen = drive[d].gen
    BY <1>2 DEF Drive, Phases, Attempting
<1>4. Becomes(d, r)
    BY <1>1
<1> HIDE DEF r
<1>5. drive[d].pc = "run" /\ clean < MaxClean /\ clean' = clean + 1
    BY DEF CleanEnd, At
<1>6. /\ UNCHANGED <<ledger, files, aged, lock, nextGen, recounted, reconciled>>
      /\ spent' = spent /\ recorded' = recorded /\ crashes' = crashes /\ consumed' = consumed
    BY DEF CleanEnd, history, ledger
<1>7. InFlight(d) /\ drive[d].gen \notin spent
    BY <1>5 DEF InFlight, Attempting, StallInv, DriveInv, Attempt
<1>8. crashes' \in 0 .. MaxCrashes /\ clean' \in 0 .. MaxClean
    BY <1>5, <1>6, StallAssumption DEF StallInv, TypeOK
<1>9. CountOK' /\ stalls <= stalls'
    BY <1>6, CountKept
<1> QED
    BY <1>3, <1>4, <1>6, <1>7, <1>8, <1>9, Attempted DEF Attempting

LEMMA RecordStep ==
    ASSUME StallInv, NEW d \in Drives, RecordCount(d) PROVE StallInv'
<1>1. drive[d].pc = "count" /\ drive[d] \in Drive /\ InFlight(d)
    BY DEF RecordCount, At, StallInv, TypeOK, InFlight, Attempting
<1>2. /\ UNCHANGED <<consumed, files, aged, lock, nextGen, reconciled, recounted>>
      /\ UNCHANGED bounds /\ spent' = spent /\ consumed' = consumed
    BY DEF RecordCount
<1>3. stalls \in 0 .. Cap /\ Cardinality(consumed) \in Nat
    BY FS_CardinalityType DEF StallInv, TypeOK, CountOK
<1>4. CASE /\ stalls < Cap /\ stalls' = stalls + 1
           /\ recorded' = recorded \cup {drive[d].gen} /\ Goto(d, "supersede")
    <2> DEFINE r == [drive[d] EXCEPT !.pc = "supersede"]
    <2>1. r \in Drive /\ r.pc = "supersede" /\ r.gen = drive[d].gen
        BY <1>1 DEF Drive, Phases, Attempting
    <2>2. Becomes(d, r)
        BY <1>4 DEF Goto
    <2> HIDE DEF r
    <2>3. CountOK' /\ stalls <= stalls'
        BY <1>2, <1>3, <1>4, StallAssumption DEF StallInv, TypeOK, CountOK
    <2> QED
        BY <1>1, <1>2, <1>4, <2>1, <2>2, <2>3, Attempted, BoundsKept
<1>5. CASE /\ stalls >= Cap /\ UNCHANGED <<stalls, recorded>>
           /\ Becomes(d, [drive[d] EXCEPT !.pc = "supersede", !.again = "no"])
    <2> DEFINE r == [drive[d] EXCEPT !.pc = "supersede", !.again = "no"]
    <2>1. r \in Drive /\ r.pc = "supersede" /\ r.gen = drive[d].gen
        BY <1>1 DEF Drive, Phases, Attempting
    <2>2. Becomes(d, r)
        BY <1>5
    <2> HIDE DEF r
    <2>3. stalls' = Cap
        BY <1>3, <1>5, StallAssumption
    <2>4. CountOK' /\ stalls <= stalls'
        BY <1>2, <1>5, CountKept DEF ledger
    <2> QED
        BY <1>1, <1>2, <1>5, <2>1, <2>2, <2>3, <2>4, Attempted, BoundsKept
<1> QED
    BY <1>4, <1>5 DEF RecordCount

LEMMA PreclaimStep ==
    ASSUME StallInv, NEW d \in Drives, RecordPreclaim(d) PROVE StallInv'
<1> DEFINE r == [drive[d] EXCEPT !.pc = "count"]
<1>1. drive[d] \in Drive /\ drive[d].pc = "record" /\ InFlight(d) /\ lock = None
    BY DEF RecordPreclaim, At, StallInv, TypeOK, InFlight, Attempting
<1>2. r \in Drive /\ r.pc = "count" /\ r.gen = drive[d].gen
    BY <1>1 DEF Drive, Phases, Attempting
<1>3. Becomes(d, r)
    BY DEF RecordPreclaim, Goto
<1> HIDE DEF r
<1>4. UNCHANGED <<ledger, graves, quarantine, aged, lock, bounds, history>>
    BY DEF RecordPreclaim
<1>5. CASE UNCHANGED <<pending, nextGen>>
    <2>1. /\ UNCHANGED <<consumed, files, aged, lock, nextGen, reconciled, recounted>>
          /\ recorded' = recorded /\ spent' = spent
        BY <1>4, <1>5 DEF ledger, files, history
    <2> QED
        BY <1>1, <1>2, <1>3, <1>4, <2>1, Attempted, CountKept, BoundsKept
<1>6. CASE /\ pending = None \/ (pending # None /\ IsLegacy(pending))
           /\ pending' = [gen |-> nextGen, attempt |-> drive[d].attempt]
           /\ nextGen' = nextGen + 1
    <2>1. /\ drive' \in [Drives -> Drive]
          /\ drive'[d] = r
          /\ \A e \in Drives : e # d => drive'[e] = drive[e]
        BY <1>2, <1>3, Moved DEF StallInv, TypeOK
    <2>2. /\ stalls' = stalls /\ consumed' = consumed /\ aged' = aged /\ lock' = lock
          /\ graves' = graves /\ quarantine' = quarantine
          /\ crashes' = crashes /\ clean' = clean
          /\ spent' = spent /\ recorded' = recorded
          /\ reconciled' = reconciled /\ recounted' = recounted
        BY <1>4 DEF ledger, bounds, history
    <2>3. nextGen \in Nat \ {0} /\ nextGen' = nextGen + 1
        BY <1>6 DEF StallInv, TypeOK, GenerationsOK
    <2>4. drive[d].attempt \in Nat /\ drive[d].gen \in 1 .. nextGen - 1
        BY <1>1 DEF Drive, StallInv, DriveInv, Attempt
    <2>5. pending' \in Marker /\ pending'.gen = nextGen
        BY <1>6, <2>3, <2>4 DEF Marker
    <2>6. ~NothingSwept /\ ~NothingSwept'
        <3>1. ~NothingSwept
            BY <1>1, <1>6, <2>4 DEF StallInv, DriveInv, Marked, IsLegacy
        <3> QED
            BY <2>2, <3>1 DEF NothingSwept
    <2>7. TypeOK'
        <3>1. CountOK'
            BY <2>2 DEF StallInv, TypeOK, CountOK
        <3>2. GenerationsOK'
            BY <2>2, <2>3, LaterGenerations DEF StallInv, TypeOK
        <3>3. FilesOK'
            BY <2>2, <2>5 DEF StallInv, TypeOK, FilesOK
        <3>4. LockOK'
            BY <1>1, <1>2, <2>1, <2>2 DEF StallInv, TypeOK, LockOK
        <3> QED
            BY <2>1, <2>2, <3>1, <3>2, <3>3, <3>4 DEF StallInv, TypeOK
    <2>8. Tombstones'
        BY <2>2 DEF StallInv, Tombstones
    <2>9. Dated'
        <3>1. \A m \in graves' : m \in Marker /\ m.gen < nextGen
            BY <2>2 DEF StallInv, Dated, TypeOK, FilesOK
        <3> QED
            BY <2>3, <2>5, <3>1 DEF Dated, Marker
    <2>10. OwnClaims'
        BY <1>1, <1>2, <2>1 DEF StallInv, OwnClaims, InFlight
    <2>11. NoFreeAttempt'
        BY <2>6 DEF NoFreeAttempt
    <2>12. DriveInv(d)'
        BY <1>2, <2>1, <2>3, <2>4, <2>6 DEF DriveInv, Attempt, Decided, Marked, InFlight, At
    <2>13. ASSUME NEW e \in Drives \ {d} PROVE Kept(e)
        <3>1. drive[e].pc \notin {"verify", "destroy"}
            BY <1>1, StallAssumption DEF StallInv, TypeOK, LockOK
        <3> QED
            BY <2>1, <2>2, <2>3, <2>6, <3>1 DEF StallInv, TypeOK, CountOK, Kept
    <2> QED
        BY <2>7, <2>8, <2>9, <2>10, <2>11, <2>12, <2>13, Assemble
<1> QED
    BY <1>5, <1>6 DEF RecordPreclaim

LEMMA LoopTarget ==
    ASSUME StallInv, NEW d \in Drives, Loop(d)
    PROVE  \E r \in Drive : Becomes(d, r) /\ r.pc \in {"idle", "stat"}
<1>1. CASE Stop(d)
    BY <1>1, IdleDrive DEF Stop
<1>2. CASE drive[d].again # "no"
    <2> DEFINE t == drive[d].retries + IF drive[d].again = "stall" THEN 1 ELSE 0
               h == drive[d].hints + IF drive[d].again = "hint" THEN 1 ELSE 0
               r == [Idle EXCEPT !.pc = "stat", !.mode = "gate",
                                 !.persisted = drive[d].persisted,
                                 !.retries = t, !.hints = h]
    <2>1. t \in Nat /\ h \in Nat /\ drive[d].persisted \in Nat
        BY DEF StallInv, TypeOK, Drive
    <2>2. Becomes(d, r)
        BY <1>2 DEF Loop
    <2> HIDE DEF t, h
    <2>3. r \in Drive /\ r.pc = "stat"
        BY <2>1, IdleDrive DEF Drive, Phases
    <2> HIDE DEF r
    <2> QED
        BY <2>2, <2>3
<1> QED
    BY <1>1, <1>2 DEF Loop

LEMMA RemoveStep ==
    ASSUME StallInv, NEW d \in Drives, RemoveOwnMarker(d) PROVE StallInv'
<1>1. /\ InFlight(d) /\ drive[d].pc \in {"supersede", "clear"} /\ Loop(d)
      /\ UNCHANGED <<ledger, graves, quarantine, aged, lock, nextGen, bounds, history>>
    BY DEF RemoveOwnMarker, InFlight, Attempting
<1>2. PICK r \in Drive : Becomes(d, r) /\ r.pc \in {"idle", "stat"}
    BY <1>1, LoopTarget
<1>3. CASE UNCHANGED pending
    <2>1. /\ UNCHANGED <<consumed, files, aged, lock, nextGen, reconciled, recounted>>
          /\ recorded' = recorded /\ spent' = spent
        BY <1>1, <1>3 DEF ledger, files, history
    <2> QED
        BY <1>1, <1>2, <2>1, Attempted, CountKept, BoundsKept DEF Attempting
<1>4. CASE lock = None /\ pending' = None
    <2>1. /\ drive' \in [Drives -> Drive]
          /\ drive'[d] = r
          /\ \A e \in Drives : e # d => drive'[e] = drive[e]
        BY <1>2, Moved DEF StallInv, TypeOK
    <2>2. /\ stalls' = stalls /\ consumed' = consumed /\ aged' = aged /\ lock' = lock
          /\ graves' = graves /\ quarantine' = quarantine /\ nextGen' = nextGen
          /\ crashes' = crashes /\ clean' = clean
          /\ spent' = spent /\ recorded' = recorded
          /\ reconciled' = reconciled /\ recounted' = recounted
        BY <1>1 DEF ledger, bounds, history
    <2>3. TypeOK'
        <3>1. CountOK' /\ GenerationsOK'
            BY <2>2 DEF StallInv, TypeOK, CountOK, GenerationsOK
        <3>2. FilesOK'
            BY <1>4, <2>2 DEF StallInv, TypeOK, FilesOK
        <3>3. LockOK'
            BY <1>1, <1>2, <2>1, <2>2 DEF StallInv, TypeOK, LockOK
        <3> QED
            BY <2>1, <2>2, <3>1, <3>2, <3>3 DEF StallInv, TypeOK
    <2>4. Tombstones' /\ Dated'
        BY <1>4, <2>2 DEF StallInv, Tombstones, Dated
    <2>5. OwnClaims'
        BY <1>2, <2>1 DEF StallInv, OwnClaims, InFlight, Attempting
    <2>6. NothingSwept' <=> NothingSwept
        BY <2>2 DEF NothingSwept
    <2>7. NothingSwept => /\ pending.gen = drive[d].gen
                          /\ \A e \in Drives \ {d} : ~InFlight(e)
        BY <1>1 DEF StallInv, DriveInv, Marked, OwnClaims
    <2>8. drive[d].gen \in spent => drive[d].gen \in recorded \/ stalls = Cap
        BY <1>1 DEF StallInv, DriveInv, Attempt, At
    <2>9. NoFreeAttempt'
        <3>1. \A e \in Drives : NothingSwept => drive[e].pc \notin {"record", "count"}
            BY <1>1, <2>7 DEF InFlight, Attempting
        <3> QED
            BY <2>2, <2>6, <2>7, <2>8, <3>1 DEF StallInv, NoFreeAttempt
    <2>10. DriveInv(d)'
        BY <1>2, <2>1 DEF DriveInv, Attempt, Decided, Marked, InFlight, At, Attempting
    <2>11. ASSUME NEW e \in Drives \ {d} PROVE Kept(e)
        <3>1. drive[e].pc \notin {"verify", "destroy"}
            BY <1>4, StallAssumption DEF StallInv, TypeOK, LockOK
        <3> QED
            BY <2>1, <2>2, <2>6, <2>7, <3>1 DEF StallInv, TypeOK, CountOK, GenerationsOK, Kept
    <2> QED
        BY <2>3, <2>4, <2>5, <2>9, <2>10, <2>11, Assemble
<1> QED
    BY <1>3, <1>4 DEF RemoveOwnMarker

-----------------------------------------------------------------------------
(***************************************************************************)
(* The environment.                                                        *)
(***************************************************************************)

LEMMA AbandonStep ==
    ASSUME StallInv, NEW d \in Drives, Abandon(d) PROVE StallInv'
<1>1. /\ Becomes(d, Idle) /\ Stop(d) /\ crashes < MaxCrashes /\ crashes' = crashes + 1
      /\ lock' = IF lock = d THEN None ELSE lock
      /\ spent' = IF At(d, "run") THEN spent \cup {drive[d].gen} ELSE spent
      /\ UNCHANGED <<ledger, files, aged, nextGen, clean, recorded, reconciled, recounted>>
    BY DEF Abandon, Stop
<1>2. crashes' \in 0 .. MaxCrashes /\ clean' \in 0 .. MaxClean
    BY <1>1, StallAssumption DEF StallInv, TypeOK
<1>3. drive[d].pc \in Phases /\ (drive[d].pc \in {"verify", "destroy"} <=> lock = d)
    BY DEF StallInv, TypeOK, LockOK, Drive
<1>4. CASE InFlight(d)
    <2>1. lock' = lock
        BY <1>1, <1>3, <1>4 DEF InFlight, Attempting
    <2>2. UNCHANGED <<consumed, files, aged, lock, nextGen, reconciled, recounted>>
        BY <1>1, <2>1 DEF ledger
    <2> QED
        BY <1>1, <1>2, <1>4, <2>2, Attempted, CountKept, IdleDrive DEF Attempting
<1>5. CASE drive[d].pc \in Resting
    <2>1. lock' = lock /\ spent' = spent
        BY <1>1, <1>3, <1>5 DEF Resting, At, Attempting
    <2>2. UNCHANGED <<ledger, files, aged, lock, nextGen, history>>
        BY <1>1, <2>1 DEF history
    <2> QED
        BY <1>1, <1>2, <1>5, <2>2, Aside, IdleDrive DEF Resting, Phases, Attempting
<1>6. CASE drive[d].pc \in {"verify", "destroy"}
    <2>1. lock' = None /\ spent' = spent
        BY <1>1, <1>3, <1>6 DEF At
    <2>2. /\ UNCHANGED <<ledger, pending, aged, nextGen, history>>
          /\ graves' = graves /\ quarantine' = quarantine
        BY <1>1, <2>1 DEF files, history
    <2>3. quarantine \subseteq Marker
        BY DEF StallInv, TypeOK, FilesOK
    <2> QED
        BY <1>1, <1>2, <1>6, <2>1, <2>2, <2>3, Unlocked
<1> QED
    BY <1>3, <1>4, <1>5, <1>6 DEF InFlight, Resting

LEMMA AgeStep ==
    ASSUME StallInv, Age PROVE StallInv'
<1>1. /\ pending # None /\ aged' = aged \cup {pending.gen}
      /\ \A d \in Drives : InFlight(d) => drive[d].gen # pending.gen
      /\ stalls' = stalls /\ consumed' = consumed /\ lock' = lock /\ drive' = drive
      /\ pending' = pending /\ graves' = graves /\ quarantine' = quarantine
      /\ nextGen' = nextGen /\ crashes' = crashes /\ clean' = clean
      /\ spent' = spent /\ recorded' = recorded
      /\ reconciled' = reconciled /\ recounted' = recounted
    BY DEF Age, InFlight, ledger, files, bounds, history
<1>2. TypeOK'
    <2>1. pending \in Marker /\ pending.gen < nextGen /\ nextGen \in Nat
        BY <1>1 DEF StallInv, Dated, TypeOK, FilesOK, GenerationsOK
    <2>2. pending.gen \in 0 .. nextGen - 1
        BY <2>1 DEF Marker
    <2>3. GenerationsOK'
        BY <1>1, <2>2 DEF StallInv, TypeOK, GenerationsOK
    <2> QED
        BY <1>1, <2>3 DEF StallInv, TypeOK, CountOK, FilesOK, LockOK
<1>3. Tombstones' /\ Dated' /\ OwnClaims'
    BY <1>1 DEF StallInv, Tombstones, Dated, OwnClaims, InFlight
<1>4. NothingSwept' <=> NothingSwept
    BY <1>1 DEF NothingSwept
<1>5. NoFreeAttempt'
    BY <1>1, <1>4 DEF StallInv, NoFreeAttempt
<1>6. ASSUME NEW e \in Drives PROVE Kept(e)
    BY <1>1, <1>4 DEF StallInv, TypeOK, CountOK, GenerationsOK, Kept
<1>7. ASSUME NEW e \in Drives PROVE DriveInv(e)'
    BY <1>2, <1>6, KeptDrive DEF StallInv
<1> QED
    BY <1>2, <1>3, <1>5, <1>7 DEF StallInv

LEMMA TransactStep ==
    ASSUME StallInv, TransactSpend PROVE StallInv'
<1>1. /\ stalls < Cap /\ stalls' = stalls + 1
      /\ consumed' = consumed /\ aged' = aged /\ lock' = lock /\ drive' = drive
      /\ pending' = pending /\ graves' = graves /\ quarantine' = quarantine
      /\ nextGen' = nextGen /\ crashes' = crashes /\ clean' = clean
      /\ spent' = spent /\ recorded' = recorded
      /\ reconciled' = reconciled /\ recounted' = recounted
    BY DEF TransactSpend, files, bounds, history
<1>2. TypeOK'
    <2>1. Cardinality(consumed) \in Nat /\ stalls \in 0 .. Cap
        BY FS_CardinalityType DEF StallInv, TypeOK, CountOK
    <2>2. CountOK'
        BY <1>1, <2>1, StallAssumption DEF StallInv, TypeOK, CountOK
    <2> QED
        BY <1>1, <2>2 DEF StallInv, TypeOK, GenerationsOK, FilesOK, LockOK
<1>3. Tombstones' /\ Dated' /\ OwnClaims'
    BY <1>1 DEF StallInv, Tombstones, Dated, OwnClaims, InFlight
<1>4. NothingSwept' <=> NothingSwept
    BY <1>1 DEF NothingSwept
<1>5. stalls # Cap /\ stalls <= stalls'
    BY <1>1, StallAssumption DEF StallInv, TypeOK, CountOK
<1>6. NoFreeAttempt'
    BY <1>1, <1>4, <1>5 DEF StallInv, NoFreeAttempt
<1>7. ASSUME NEW e \in Drives PROVE Kept(e)
    BY <1>1, <1>4, <1>5 DEF StallInv, TypeOK, GenerationsOK, Kept
<1>8. ASSUME NEW e \in Drives PROVE DriveInv(e)'
    BY <1>2, <1>7, KeptDrive DEF StallInv
<1> QED
    BY <1>2, <1>3, <1>6, <1>8 DEF StallInv

LEMMA StutterStep == ASSUME StallInv, UNCHANGED vars PROVE StallInv'
<1>1. /\ stalls' = stalls /\ consumed' = consumed /\ aged' = aged /\ lock' = lock
      /\ drive' = drive
      /\ pending' = pending /\ graves' = graves /\ quarantine' = quarantine
      /\ nextGen' = nextGen /\ crashes' = crashes /\ clean' = clean
      /\ spent' = spent /\ recorded' = recorded
      /\ reconciled' = reconciled /\ recounted' = recounted
    BY DEF vars, ledger, files, bounds, history
<1>2. TypeOK'
    BY <1>1 DEF StallInv, TypeOK, CountOK, GenerationsOK, FilesOK, LockOK
<1>3. Tombstones' /\ Dated' /\ OwnClaims'
    BY <1>1 DEF StallInv, Tombstones, Dated, OwnClaims, InFlight
<1>4. NothingSwept' <=> NothingSwept
    BY <1>1 DEF NothingSwept
<1>5. NoFreeAttempt'
    BY <1>1, <1>4 DEF StallInv, NoFreeAttempt
<1>6. ASSUME NEW e \in Drives PROVE DriveInv(e)'
    <2>1. Kept(e)
        BY <1>1, <1>4 DEF StallInv, TypeOK, CountOK, GenerationsOK, Kept
    <2> QED
        BY <1>2, <2>1, KeptDrive DEF StallInv
<1> QED
    BY <1>2, <1>3, <1>5, <1>6 DEF StallInv

-----------------------------------------------------------------------------

LEMMA NextStall == StallInv /\ [Next]_vars => StallInv'
<1> SUFFICES ASSUME StallInv, [Next]_vars PROVE StallInv'
    OBVIOUS
<1>1. ASSUME NEW d \in Drives, Start(d) \/ Step(d) \/ Abandon(d) PROVE StallInv'
    <2>1. CASE StatMarker(d) \/ SnapshotMarker(d) \/ EnterReconcile(d) \/ VerifyGrave(d)
        BY <2>1, StatStep, SnapshotStep, ReconcileStep, VerifyStep
    <2>2. CASE DestroyOrphan(d) \/ ReadCount(d) \/ Claim(d)
        BY <2>2, DestroyStep, ReadStep, ClaimAction
    <2>3. CASE StallKill(d) \/ AmbiguousEnd(d) \/ CleanEnd(d) \/ UncertainEnd(d)
        BY <2>3, StallKillStep, AmbiguousStep, CleanStep, UncertainStep
    <2>4. CASE RecordPreclaim(d) \/ RecordCount(d) \/ RemoveOwnMarker(d)
        BY <2>4, PreclaimStep, RecordStep, RemoveStep
    <2> QED
        BY <1>1, <2>1, <2>2, <2>3, <2>4, StartStep, AbandonStep DEF Step
<1> QED
    BY <1>1, AgeStep, TransactStep, StutterStep DEF Next

\* However drives race, die, replay and time out, the invariant holds.
THEOREM StallLedger == Spec => []StallInv
BY InitStall, NextStall, PTL DEF Spec

\* The count never passes the cap and covers every tombstone, and only the
\* drive inside the lock disposes of an orphan: readLedger never meets a
\* ledger that assertValidBudgetShape refuses.
THEOREM StallTypes == Spec => []TypeOK
<1>1. StallInv => TypeOK
    BY DEF StallInv
<1> QED
    BY <1>1, StallLedger, PTL

\* reconcileOrphan counts no marker twice, for any number of drives and deaths.
THEOREM OrphansCountOnce == Spec => []OrphanCountedOnce
<1>1. StallInv => OrphanCountedOnce
    BY DEF StallInv, Tombstones, OrphanCountedOnce
<1> QED
    BY <1>1, StallLedger, PTL

\* claimStallRetryAttempt lets one drive at a time launch a counted attempt,
\* as long as no claim was renamed to a grave.
THEOREM OneAttemptAtATime == Spec => []OneLiveAttempt
<1>1. StallInv => OneLiveAttempt
    BY DEF StallInv, DriveInv, Marked, OwnClaims, OneLiveAttempt, InFlight
<1> QED
    BY <1>1, StallLedger, PTL

\* No attempt that did not end clean escapes the budget: counted, marked, in
\* its own drive's hands, or past an exhausted budget.
THEOREM AttemptsArePaid == Spec => []NoFreeAttempt
<1>1. StallInv => NoFreeAttempt
    BY DEF StallInv
<1> QED
    BY <1>1, StallLedger, PTL

-----------------------------------------------------------------------------
(***************************************************************************)
(* The overshoot.  Below the cap the spent attempts are the counted ones   *)
(* and at most one more, the marked one.  A drive that passed the gate     *)
(* before the cap was reached may launch once more; the drive that reaches *)
(* the cap is none of them, and if transactStallRetrySpend reaches it, one *)
(* unit of the cap is no attempt.  The one case without that slack is      *)
(* every drive past the gate and a spent attempt still marked: the drive   *)
(* that disposes of the marker is then refused.                            *)
(***************************************************************************)

\* The drives past the gate that may still spend an attempt.
Launchers == {d \in Drives : drive[d].pc \in {"claim", "run"}}

\* Every attempt counted has its unit of the count.
Units ==
    /\ IsFiniteSet(recorded \cup reconciled)
    /\ Cardinality(recorded \cup reconciled) <= stalls

Slack == Cardinality(spent) + Cardinality(Launchers) <= Cap + Cardinality(Drives) - 1

Blocked ==
    /\ Launchers = Drives /\ Cardinality(spent) <= Cap
    /\ pending # None /\ pending.gen \in spent

Overshoot == NothingSwept /\ stalls = Cap => Slack \/ Blocked

OvershootInv == Units /\ Overshoot

LEMMA Sizes ==
    ASSUME NEW n \in Nat, NEW S \in SUBSET (1 .. n - 1), NEW L \in SUBSET Drives
    PROVE  /\ IsFiniteSet(S) /\ Cardinality(S) \in Nat
           /\ IsFiniteSet(L) /\ Cardinality(L) \in Nat
           /\ Cardinality(L) <= Cardinality(Drives)
           /\ L # Drives => Cardinality(L) <= Cardinality(Drives) - 1
           /\ Cardinality(Drives) \in Nat \ {0}
<1>1. IsFiniteSet(1 .. n - 1)
    BY FS_Interval
<1>2. IsFiniteSet(S)
    BY <1>1, FS_Subset
<1>3. L \subseteq Drives /\ IsFiniteSet(Drives)
    BY StallAssumption
<1>4. /\ IsFiniteSet(L) /\ Cardinality(L) <= Cardinality(Drives)
      /\ Cardinality(L) = Cardinality(Drives) => L = Drives
    BY <1>3, FS_Subset
<1>5. /\ Cardinality(S) \in Nat /\ Cardinality(L) \in Nat /\ Cardinality(Drives) \in Nat
    BY <1>2, <1>3, <1>4, FS_CardinalityType
<1>6. Cardinality(Drives) # 0
    BY <1>3, FS_EmptySet, StallAssumption
<1> QED
    BY <1>2, <1>4, <1>5, <1>6

LEMMA SizesNow ==
    ASSUME StallInv
    PROVE  nextGen \in Nat /\ spent \in SUBSET (1 .. nextGen - 1) /\ Launchers \in SUBSET Drives
BY DEF StallInv, TypeOK, GenerationsOK, Launchers

LEMMA SizesNext ==
    ASSUME StallInv'
    PROVE  /\ nextGen' \in Nat /\ spent' \in SUBSET (1 .. nextGen' - 1)
           /\ Launchers' \in SUBSET Drives
BY DEF StallInv, TypeOK, GenerationsOK, Launchers

\* Below the cap, the attempts spent beyond the count are the marked one.
LEMMA BelowCap ==
    ASSUME StallInv, Units, NothingSwept, stalls < Cap
    PROVE  /\ Cardinality(spent) <= stalls + 1
           /\ pending = None \/ pending.gen \notin spent => Cardinality(spent) <= stalls
<1> DEFINE U == recorded \cup reconciled
<1>1. stalls \in Nat /\ stalls # Cap
    BY StallAssumption DEF StallInv, TypeOK, CountOK
<1>2. \A g \in spent : g \in U \/ (pending # None /\ pending.gen = g)
    BY <1>1 DEF StallInv, NoFreeAttempt, DriveInv, Marked, InFlight, Attempting
<1>3. IsFiniteSet(U) /\ Cardinality(U) <= stalls /\ Cardinality(U) \in Nat
    BY FS_CardinalityType DEF Units
<1>4. CASE pending # None /\ pending.gen \in spent
    <2> DEFINE W == U \cup {pending.gen}
    <2>1. spent \subseteq W
        BY <1>2
    <2>2. IsFiniteSet(W) /\ (Cardinality(W) = Cardinality(U) \/ Cardinality(W) = Cardinality(U) + 1)
        BY <1>3, FS_AddElement
    <2>3. Cardinality(spent) <= Cardinality(W)
        BY <2>1, <2>2, FS_Subset
    <2>4. Cardinality(spent) \in Nat
        BY Sizes, SizesNow
    <2> QED
        BY <1>1, <1>3, <1>4, <2>2, <2>3, <2>4
<1>5. CASE pending = None \/ pending.gen \notin spent
    <2>1. spent \subseteq U
        BY <1>2, <1>5
    <2>2. Cardinality(spent) <= Cardinality(U)
        BY <1>3, <2>1, FS_Subset
    <2>3. Cardinality(spent) \in Nat
        BY Sizes, SizesNow
    <2> QED
        BY <1>1, <1>3, <2>2, <2>3
<1> QED
    BY <1>4, <1>5

LEMMA UnitAdded ==
    ASSUME Units, stalls \in Nat, stalls' = stalls + 1,
           NEW x, recorded' \cup reconciled' = (recorded \cup reconciled) \cup {x}
    PROVE  Units'
<1> DEFINE U == recorded \cup reconciled
<1>1. IsFiniteSet(U) /\ Cardinality(U) <= stalls /\ Cardinality(U) \in Nat
    BY FS_CardinalityType DEF Units
<1>2. /\ IsFiniteSet(U \cup {x})
      /\ Cardinality(U \cup {x}) = Cardinality(U) \/ Cardinality(U \cup {x}) = Cardinality(U) + 1
    BY <1>1, FS_AddElement
<1>3. Cardinality(U \cup {x}) <= stalls + 1
    BY <1>1, <1>2
<1> QED
    BY <1>2, <1>3 DEF Units

LEMMA UnitsKept ==
    ASSUME Units, stalls \in Nat, stalls' \in {stalls, stalls + 1},
           UNCHANGED <<recorded, reconciled>>
    PROVE  Units'
<1>1. Cardinality(recorded \cup reconciled) \in Nat
    BY FS_CardinalityType DEF Units
<1> QED
    BY <1>1 DEF Units

\* The step that reaches the cap.
LEMMA ReachCap ==
    ASSUME StallInv, StallInv', Units, stalls < Cap, stalls' = stalls + 1,
           spent' = spent, pending' = pending, NothingSwept' => NothingSwept
    PROVE  Overshoot'
<1> SUFFICES ASSUME NothingSwept', stalls' = Cap PROVE (Slack \/ Blocked)'
    BY DEF Overshoot
<1>1. stalls \in Nat /\ Cap \in Nat /\ stalls + 1 = Cap
    BY StallAssumption DEF StallInv, TypeOK, CountOK
<1>2. /\ Cardinality(spent) <= Cap
      /\ pending = None \/ pending.gen \notin spent => Cardinality(spent) <= Cap - 1
    <2>1. Cardinality(spent) \in Nat
        BY Sizes, SizesNow
    <2> QED
        BY <1>1, <2>1, BelowCap
<1>3. /\ Cardinality(spent') \in Nat /\ Cardinality(Launchers') \in Nat
      /\ Cardinality(Launchers') <= Cardinality(Drives)
      /\ Launchers' # Drives => Cardinality(Launchers') <= Cardinality(Drives) - 1
      /\ Cardinality(Drives) \in Nat
    BY Sizes, SizesNext
<1> QED
    BY <1>1, <1>2, <1>3 DEF Slack, Blocked

\* A swept claim is never destroyed, so that one was swept is not forgotten.
LEMMA SweptStays ==
    ASSUME StallInv, Next PROVE NothingSwept' => NothingSwept
<1>1. ASSUME UNCHANGED <<graves, quarantine>> PROVE NothingSwept' => NothingSwept
    BY <1>1 DEF NothingSwept
<1>2. ASSUME GravesCleared, UNCHANGED quarantine PROVE NothingSwept' => NothingSwept
    BY <1>2 DEF NothingSwept, GravesCleared
<1>3. ASSUME NEW d \in Drives, NEW m \in Marker, Orphaned(m),
             CountOrphan(d, m) \/ DropOrphan(d, m)
      PROVE  NothingSwept' => NothingSwept
    BY <1>1, <1>2, <1>3, ClearedGrave DEF CountOrphan, DropOrphan, files
<1>4. ASSUME NEW d \in Drives, NEW m, TakeGrave(d, m) PROVE NothingSwept' => NothingSwept
    BY <1>4 DEF TakeGrave, NothingSwept
<1>5. ASSUME NEW d \in Drives, NEW m \in Marker, pending = m, m.gen \in aged, SettleOrphan(d, m)
      PROVE  NothingSwept' => NothingSwept
    BY <1>3, <1>4, <1>5 DEF SettleOrphan, Orphaned
<1>6. ASSUME NEW d \in Drives, EnterReconcile(d) PROVE NothingSwept' => NothingSwept
    <2> DEFINE m == drive[d].snap
    <2>1. m \in Marker /\ m.gen \in aged
        BY <1>6 DEF EnterReconcile, At, StallInv, TypeOK, Drive, DriveInv, Decided
    <2>2. CASE IsLegacy(m) /\ TakeGrave(d, m)
        BY <2>2, <1>4
    <2>3. CASE pending = m /\ SettleOrphan(d, m)
        BY <2>1, <2>3, <1>5
    <2> QED
        BY <1>1, <1>6, <2>2, <2>3 DEF EnterReconcile, SettleOrphan, files
<1>7. ASSUME NEW d \in Drives, VerifyGrave(d) PROVE NothingSwept' => NothingSwept
    <2> DEFINE m == drive[d].snap
    <2>1. m \in Marker /\ Orphaned(m)
        BY <1>7 DEF VerifyGrave, At, StallInv, TypeOK, Drive, DriveInv, Decided, Orphaned
    <2>2. CASE /\ quarantine' = quarantine \cup {drive[d].taken}
               /\ graves' = graves \ {drive[d].taken}
        BY <2>2 DEF NothingSwept
    <2> QED
        BY <1>3, <1>7, <2>1, <2>2 DEF VerifyGrave
<1>8. ASSUME NEW d \in Drives, DestroyOrphan(d) PROVE NothingSwept' => NothingSwept
    <2>1. drive[d].snap \in Marker /\ Orphaned(drive[d].snap)
        BY <1>8 DEF DestroyOrphan, At, StallInv, TypeOK, Drive, DriveInv, Decided, Orphaned
    <2> QED
        BY <1>2, <1>8, <2>1, ClearedGrave DEF DestroyOrphan
<1>9. ASSUME NEW d \in Drives, Claim(d) PROVE NothingSwept' => NothingSwept
    <2>1. pending # None => pending \in Marker
        BY DEF StallInv, TypeOK, FilesOK
    <2> QED
        BY <1>1, <1>5, <1>9, <2>1 DEF Claim, IsOrphan, files
<1>10. ASSUME NEW d \in Drives,
              \/ Start(d) \/ Abandon(d) \/ StatMarker(d) \/ SnapshotMarker(d) \/ ReadCount(d)
              \/ StallKill(d) \/ AmbiguousEnd(d) \/ CleanEnd(d) \/ UncertainEnd(d)
              \/ RecordPreclaim(d) \/ RecordCount(d) \/ RemoveOwnMarker(d)
       PROVE  NothingSwept' => NothingSwept
    BY <1>1, <1>10
       DEF Start, Abandon, StatMarker, SnapshotMarker, ReadCount, StallKill, AmbiguousEnd,
           CleanEnd, UncertainEnd, RecordPreclaim, RecordCount, RemoveOwnMarker, files
<1>11. Age \/ TransactSpend => (NothingSwept' => NothingSwept)
    BY <1>1 DEF Age, TransactSpend, files
<1> QED
    BY <1>6, <1>7, <1>8, <1>9, <1>10, <1>11 DEF Next, Step

LEMMA Relaunch ==
    ASSUME StallInv, NEW d \in Drives, NEW r, Becomes(d, r)
    PROVE  /\ r.pc \in {"claim", "run"} => Launchers' = Launchers \cup {d}
           /\ r.pc \notin {"claim", "run"} => Launchers' = Launchers \ {d}
<1>1. /\ drive'[d] = r
      /\ \A e \in Drives : e # d => drive'[e] = drive[e]
    BY DEF StallInv, TypeOK, Becomes
<1> QED
    BY <1>1 DEF Launchers

\* Steps that spend and count nothing: at the cap no drive passes the gate, and
\* none can launch while a marker stands.
LEMMA Calm ==
    ASSUME StallInv, StallInv', OvershootInv, Next, NEW d \in Drives, NEW r, Becomes(d, r),
           r.pc \in {"claim", "run"} =>
               stalls # Cap \/ (drive[d].pc = "claim" /\ pending = None),
           UNCHANGED <<stalls, spent, recorded, reconciled>>
    PROVE  OvershootInv'
<1>1. stalls \in Nat /\ Cap \in Nat
    BY StallAssumption DEF StallInv, TypeOK, CountOK
<1>2. Units'
    BY <1>1, UnitsKept DEF OvershootInv
<1>3. ASSUME NothingSwept', stalls = Cap PROVE Slack'
    <2>1. NothingSwept /\ (Slack \/ Blocked)
        BY <1>3, SweptStays DEF OvershootInv, Overshoot
    <2>2. Launchers' \subseteq Launchers
        BY <1>3, Relaunch DEF Launchers
    <2>3. Blocked => Launchers' # Drives
        BY <1>3, Relaunch DEF Blocked
    <2>4. /\ Cardinality(spent) \in Nat /\ Cardinality(Launchers) \in Nat
          /\ Cardinality(Drives) \in Nat /\ IsFiniteSet(Launchers)
        BY Sizes, SizesNow
    <2>5. /\ Cardinality(Launchers') \in Nat
          /\ Launchers' # Drives => Cardinality(Launchers') <= Cardinality(Drives) - 1
        BY Sizes, SizesNext
    <2>6. Cardinality(Launchers') <= Cardinality(Launchers)
        BY <2>2, <2>4, FS_Subset
    <2> QED
        BY <1>1, <2>1, <2>3, <2>4, <2>5, <2>6 DEF Slack, Blocked
<1> QED
    BY <1>2, <1>3 DEF OvershootInv, Overshoot

\* An attempt is spent by a launcher, which then is none.
LEMMA Spends ==
    ASSUME StallInv, StallInv', OvershootInv, Next, NEW d \in Drives, At(d, "run"),
           NEW r, Becomes(d, r), r.pc \notin {"claim", "run"},
           spent' = spent \cup {drive[d].gen}, UNCHANGED <<stalls, recorded, reconciled>>
    PROVE  OvershootInv'
<1>1. stalls \in Nat /\ Cap \in Nat
    BY StallAssumption DEF StallInv, TypeOK, CountOK
<1>2. Units'
    BY <1>1, UnitsKept DEF OvershootInv
<1>3. ASSUME NothingSwept', stalls = Cap PROVE Slack'
    <2>1. NothingSwept /\ (Slack \/ Blocked)
        BY <1>3, SweptStays DEF OvershootInv, Overshoot
    <2>2. drive[d].gen \notin spent /\ d \in Launchers
        BY DEF StallInv, DriveInv, Attempt, At, Launchers
    <2>3. ~Blocked
        BY <2>1, <2>2 DEF StallInv, DriveInv, Marked, InFlight, Attempting, At, Blocked
    <2>4. /\ Cardinality(spent) \in Nat /\ Cardinality(Launchers) \in Nat
          /\ Cardinality(Drives) \in Nat /\ IsFiniteSet(Launchers) /\ IsFiniteSet(spent)
        BY Sizes, SizesNow
    <2>5. Cardinality(spent') = Cardinality(spent) + 1
        BY <2>2, <2>4, FS_AddElement
    <2>6. Launchers' = Launchers \ {d}
        BY Relaunch
    <2>7. Cardinality(Launchers') = Cardinality(Launchers) - 1
        BY <2>2, <2>4, <2>6, FS_RemoveElement
    <2> QED
        BY <1>1, <2>1, <2>3, <2>4, <2>5, <2>7 DEF Slack
<1> QED
    BY <1>2, <1>3 DEF OvershootInv, Overshoot

\* The step that counts x, or no attempt at all.
LEMMA Counts ==
    ASSUME StallInv, StallInv', OvershootInv, Next, stalls < Cap, stalls' = stalls + 1,
           \/ UNCHANGED <<recorded, reconciled>>
           \/ \E x : recorded' \cup reconciled' = (recorded \cup reconciled) \cup {x},
           UNCHANGED <<spent, pending>>
    PROVE  OvershootInv'
<1>1. stalls \in Nat
    BY DEF StallInv, TypeOK, CountOK
<1>2. Units'
    BY <1>1, UnitAdded, UnitsKept DEF OvershootInv
<1> QED
    BY <1>2, ReachCap, SweptStays DEF OvershootInv

\* A drive that does not go on to claim or launch, and counts nothing.
LEMMA StandsDown ==
    ASSUME StallInv, StallInv', OvershootInv, Next, NEW d \in Drives, NEW r, Becomes(d, r),
           r.pc \notin {"claim", "run"}, UNCHANGED <<stalls, history>>
    PROVE  OvershootInv'
BY Calm DEF history

LEMMA SettleCounts ==
    ASSUME StallInv, StallInv', OvershootInv, Next, NEW d \in Drives, NEW m,
           CountOrphan(d, m) \/ DropOrphan(d, m) \/ TakeGrave(d, m)
    PROVE  OvershootInv'
<1>a. drive[d] \in Drive /\ stalls \in Nat /\ Cap \in Nat
    BY StallAssumption DEF StallInv, TypeOK, CountOK
<1>1. CASE CountOrphan(d, m)
    <2>1. /\ stalls < Cap /\ stalls' = stalls + 1 /\ UNCHANGED <<spent, pending>>
          /\ recorded' \cup reconciled' = (recorded \cup reconciled) \cup {m.gen}
        BY <1>1 DEF CountOrphan, files
    <2> QED
        BY <2>1, Counts
<1>2. CASE DropOrphan(d, m)
    <2>1. Continue(d, stalls >= Cap) /\ UNCHANGED <<stalls, history>>
        BY <1>2 DEF DropOrphan, ledger
    <2>2. CASE Stop(d)
        BY <2>1, <2>2, StandsDown, IdleDrive DEF Stop
    <2>3. CASE ~(stalls >= Cap) /\ NewClaim(d)
        <3>1. stalls # Cap
            BY <1>a, <2>3
        <3>2. PICK r : Becomes(d, r)
            BY <2>3 DEF NewClaim
        <3> QED
            BY <2>1, <3>1, <3>2, Calm DEF history
    <2>4. CASE Becomes(d, [drive[d] EXCEPT !.pc = "read", !.snap = None, !.taken = None])
        <3> DEFINE r == [drive[d] EXCEPT !.pc = "read", !.snap = None, !.taken = None]
        <3>1. r.pc = "read"
            BY <1>a DEF Drive
        <3> QED
            BY <2>1, <2>4, <3>1, StandsDown
    <2> QED
        BY <2>1, <2>2, <2>3, <2>4 DEF Continue
<1>3. CASE TakeGrave(d, m)
    <2> DEFINE r == [drive[d] EXCEPT !.pc = "verify", !.snap = m, !.taken = pending]
    <2>1. r.pc = "verify"
        BY <1>a DEF Drive
    <2>2. Becomes(d, r) /\ UNCHANGED <<stalls, history>>
        BY <1>3 DEF TakeGrave, ledger
    <2> QED
        BY <2>1, <2>2, StandsDown
<1> QED
    BY <1>1, <1>2, <1>3

LEMMA DriveOvershoot ==
    ASSUME StallInv, StallInv', OvershootInv, Next, NEW d \in Drives,
           Start(d) \/ Step(d) \/ Abandon(d)
    PROVE  OvershootInv'
<1>a. drive[d] \in Drive /\ stalls \in Nat /\ Cap \in Nat
    BY StallAssumption DEF StallInv, TypeOK, CountOK
<1>1. ASSUME NEW p \in {"stat", "read", "snap", "count"}, Goto(d, p), UNCHANGED <<stalls, history>>
      PROVE  OvershootInv'
    <2>1. [drive[d] EXCEPT !.pc = p].pc = p
        BY <1>a DEF Drive
    <2> QED
        BY <1>1, <2>1, StandsDown DEF Goto
<1>2. ASSUME Stop(d), UNCHANGED <<stalls, history>> PROVE OvershootInv'
    BY <1>2, StandsDown, IdleDrive DEF Stop
<1>3. CASE Start(d) \/ StatMarker(d) \/ RecordPreclaim(d)
    BY <1>1, <1>3 DEF Start, StatMarker, RecordPreclaim, ledger
<1>4. CASE SnapshotMarker(d)
    <2>1. [drive[d] EXCEPT !.pc = "relock", !.snap = pending].pc = "relock"
        BY <1>a DEF Drive
    <2> QED
        BY <1>2, <1>4, <2>1, StandsDown DEF SnapshotMarker, ledger
<1>5. CASE EnterReconcile(d)
    <2>1. /\ [drive[d] EXCEPT !.pc = "read", !.snap = None].pc = "read"
          /\ [drive[d] EXCEPT !.pc = "snap", !.snap = None, !.tries = @ + 1].pc = "snap"
        BY <1>a DEF Drive
    <2>2. CASE SettleOrphan(d, drive[d].snap)
        BY <2>2, SettleCounts DEF SettleOrphan
    <2> QED
        BY <1>2, <1>5, <2>1, <2>2, StandsDown DEF EnterReconcile, ledger
<1>6. CASE VerifyGrave(d)
    BY <1>2, <1>6, SettleCounts DEF VerifyGrave, ledger
<1>7. CASE DestroyOrphan(d)
    <2>1. UNCHANGED <<stalls, history>>
        BY <1>7 DEF DestroyOrphan, ledger
    <2>2. CASE drive[d].mode = "claim" /\ ~(stalls >= Cap) /\ NewClaim(d)
        <3>1. stalls # Cap
            BY <1>a, <2>2
        <3>2. PICK r : Becomes(d, r)
            BY <2>2 DEF NewClaim
        <3> QED
            BY <2>1, <3>1, <3>2, Calm DEF history
    <2>3. [drive[d] EXCEPT !.pc = "read", !.snap = None, !.taken = None].pc = "read"
        BY <1>a DEF Drive
    <2> QED
        BY <1>2, <1>7, <2>1, <2>2, <2>3, StandsDown DEF DestroyOrphan, Continue
<1>8. CASE ReadCount(d)
    <2>1. UNCHANGED <<stalls, history>>
        BY <1>8 DEF ReadCount, ledger
    <2>2. CASE stalls < Cap
        <3>1. PICK r : Becomes(d, r)
            BY <1>8 DEF ReadCount, Stop
        <3> QED
            BY <1>a, <2>1, <2>2, <3>1, Calm DEF history
    <2> QED
        BY <1>a, <1>2, <1>8, <2>1, <2>2 DEF ReadCount
<1>9. CASE Claim(d)
    <2>1. CASE pending = None /\ NewClaim(d) /\ UNCHANGED <<ledger, history>>
        <3>1. PICK r : Becomes(d, r)
            BY <2>1 DEF NewClaim
        <3>2. drive[d].pc = "claim"
            BY <1>9 DEF Claim, At
        <3> QED
            BY <2>1, <3>1, <3>2, Calm DEF ledger, history
    <2>2. CASE SettleOrphan(d, pending)
        BY <2>2, SettleCounts DEF SettleOrphan
    <2> QED
        BY <1>2, <1>9, <2>1, <2>2 DEF Claim, ledger
<1>10. CASE StallKill(d) \/ AmbiguousEnd(d) \/ UncertainEnd(d)
    <2>1. \A a : [drive[d] EXCEPT !.pc = "record", !.again = a].pc = "record"
        BY <1>a DEF Drive
    <2> QED
        BY <1>10, <2>1, Spends, IdleDrive DEF StallKill, AmbiguousEnd, UncertainEnd, Stop, ledger
<1>11. CASE CleanEnd(d)
    <2>1. \A a : [drive[d] EXCEPT !.pc = "clear", !.again = a].pc = "clear"
        BY <1>a DEF Drive
    <2> QED
        BY <1>11, <2>1, StandsDown DEF CleanEnd, ledger
<1>12. CASE RecordCount(d)
    <2>1. [drive[d] EXCEPT !.pc = "supersede", !.again = "no"].pc = "supersede"
        BY <1>a DEF Drive
    <2>2. CASE stalls >= Cap
        <3>1. ~(stalls < Cap)
            BY <1>a, <2>2
        <3>2. /\ Becomes(d, [drive[d] EXCEPT !.pc = "supersede", !.again = "no"])
              /\ UNCHANGED <<stalls, history>>
            BY <1>12, <3>1, Zenon DEF RecordCount, history
        <3> QED
            BY <2>1, <3>2, StandsDown
    <2>3. CASE stalls < Cap
        <3>1. /\ stalls' = stalls + 1 /\ UNCHANGED <<spent, pending>>
              /\ recorded' \cup reconciled' = (recorded \cup reconciled) \cup {drive[d].gen}
            BY <1>a, <1>12, <2>3 DEF RecordCount, files
        <3> QED
            BY <2>3, <3>1, Counts
    <2> QED
        BY <1>a, <2>2, <2>3
<1>13. CASE RemoveOwnMarker(d)
    <2>1. Loop(d) /\ UNCHANGED <<stalls, history>>
        BY <1>13 DEF RemoveOwnMarker, ledger
    <2>2. \E r \in Drive : Becomes(d, r) /\ r.pc \in {"idle", "stat"}
        BY <2>1, LoopTarget
    <2> QED
        BY <2>1, <2>2, StandsDown
<1>14. CASE Abandon(d)
    <2>1. Becomes(d, Idle) /\ UNCHANGED <<stalls, recorded, reconciled, recounted>>
        BY <1>14 DEF Abandon, Stop, ledger
    <2>2. CASE At(d, "run")
        BY <1>14, <2>1, <2>2, Spends, IdleDrive DEF Abandon
    <2>3. CASE ~At(d, "run")
        BY <1>14, <2>1, <2>3, Calm, IdleDrive DEF Abandon
    <2> QED
        BY <2>2, <2>3
<1> QED
    BY <1>3, <1>4, <1>5, <1>6, <1>7, <1>8, <1>9, <1>10, <1>11, <1>12, <1>13, <1>14 DEF Step

LEMMA NextOvershoot == StallInv /\ StallInv' /\ OvershootInv /\ [Next]_vars => OvershootInv'
<1> SUFFICES ASSUME StallInv, StallInv', OvershootInv, [Next]_vars PROVE OvershootInv'
    OBVIOUS
<1>1. CASE TransactSpend
    <2>1. /\ stalls < Cap /\ stalls' = stalls + 1 /\ Next
          /\ UNCHANGED <<recorded, reconciled, spent, pending>>
        BY <1>1 DEF TransactSpend, Next, files, history
    <2> QED
        BY <2>1, Counts
<1>2. CASE Age \/ UNCHANGED vars
    <2>1. /\ UNCHANGED <<stalls, recorded, reconciled, spent, pending, drive>>
          /\ UNCHANGED <<graves, quarantine>>
        BY <1>2 DEF Age, vars, ledger, files, history
    <2> QED
        BY <2>1 DEF OvershootInv, Units, Overshoot, NothingSwept, Slack, Blocked, Launchers
<1>3. CASE \E d \in Drives : Start(d) \/ Step(d) \/ Abandon(d)
    <2>1. Next
        BY <1>3 DEF Next
    <2> QED
        BY <1>3, <2>1, DriveOvershoot
<1> QED
    BY <1>1, <1>2, <1>3 DEF Next

LEMMA InitOvershoot == Init => OvershootInv
<1> SUFFICES ASSUME Init PROVE OvershootInv
    OBVIOUS
<1>1. recorded \cup reconciled = {} /\ stalls = 0 /\ stalls # Cap
    BY StallAssumption DEF Init
<1>2. Units
    BY <1>1, FS_EmptySet DEF Units
<1> QED
    BY <1>1, <1>2 DEF OvershootInv, Overshoot

\* As long as no claim was swept, a phase spends at most Cap attempts and one
\* more for every other drive, whatever raced, died or was retried: the gates
\* of runDiscovery, runPlanning and the Spec Manager read the durable count.
THEOREM OvershootIsBounded == Spec => []OvershootBounded
<1>1. StallInv /\ OvershootInv => OvershootBounded
    <2> SUFFICES ASSUME StallInv, OvershootInv, NothingSwept
                 PROVE  Cardinality(spent) <= Cap + Cardinality(Drives) - 1
        BY DEF OvershootBounded
    <2>1. /\ Cardinality(spent) \in Nat /\ Cardinality(Launchers) \in Nat
          /\ Cardinality(Drives) \in Nat \ {0}
        BY Sizes, SizesNow
    <2>2. stalls \in 0 .. Cap /\ Cap \in Nat
        BY StallAssumption DEF StallInv, TypeOK, CountOK
    <2>3. CASE stalls = Cap
        BY <2>1, <2>2, <2>3 DEF OvershootInv, Overshoot, Slack, Blocked
    <2>4. CASE stalls < Cap
        <3>1. Cardinality(spent) <= stalls + 1
            BY <2>4, BelowCap DEF OvershootInv
        <3> QED
            BY <2>1, <2>2, <2>4, <3>1
    <2> QED
        BY <2>2, <2>3, <2>4
<1> QED
    BY <1>1, InitStall, NextStall, InitOvershoot, NextOvershoot, PTL DEF Spec

=============================================================================
