----------------------- MODULE OperationControlProofs -----------------------
(***************************************************************************)
(* Proofs about pause and resume, for any number of controllers, sessions, *)
(* participants, people and requests.                                      *)
(*                                                                         *)
(* The invariant ControlInv has three layers.  What the owner of the       *)
(* record relies on (Owner, Deciding) holds whatever happened: nobody else *)
(* writes the record while it decides.  The fence of the lease table       *)
(* (Lone, Covered, InTurn) holds as long as no controller survived its own *)
(* cancellation: a running session is named by the one lease there is, or  *)
(* the lease names no session and nobody takes it over.  The silence of a  *)
(* pause (Silent, Drained) needs both, and that no drain was blind and no  *)
(* pause was patched over.                                                 *)
(***************************************************************************)
EXTENDS OperationControl, FiniteSetTheorems, TLAPS

\* No controller survived its own cancellation.
Fenced == "survivor" \notin excused

Still == RunningSessions = {} /\ \A s \in Sessions : part[s] # "RUNNING"

\* The first controller inherits epoch 1; a cancellation that has not gone
\* still owns the record.
Claimed ==
    /\ rec.owner = None => rec.epoch = 1 /\ rec.pause = None
    /\ cancel \in {"claimed", "over"} => rec.owner = Canceller

\* One controller lives at a time.
Lone == Fenced => \A c, d \in Controllers : Live(c) /\ Live(d) => c = d

\* There is one lease at most, and it answers for the session that runs.
Covered ==
    /\ \A l, m \in leases : l = m
    /\ Fenced => /\ \A s \in RunningSessions : \E l \in leases : l.session \in {s, None}
                 /\ \A s, t \in RunningSessions : s = t

\* A pause in the record is silent, whether the phase shows it or not.
Silent ==
    excused = {} /\ rec.pause # None =>
        /\ Still
        /\ rec.owner # Canceller => rec.phase = "PAUSED"
        /\ \A c \in Controllers : ctl[c].pc \notin Turn

\* What the owner has in its hands.
Owner(c) ==
    Owns(c) =>
        /\ ~At(c, "bind") => rec.policy
        /\ At(c, "rebind") => rec.pause # None
        /\ Paused => ctl[c].pc \notin Working
        /\ Paused /\ At(c, "await") => rec.pause = Ident

\* The decision a controller found was recorded for that command.
Found(c, cmd) ==
    /\ ctl[c].call \in Calls
    /\ dec[ctl[c].call].st \in {"live", "consumed", "expired", "applied"}
    /\ dec[ctl[c].call].st \in {"live", "consumed"} => dec[ctl[c].call].cmd = cmd

\* Between the consumed decision and the commit nothing else moves.
Consumed(c, cmd) ==
    /\ Owns(c) /\ Found(c, cmd)
    /\ dec[ctl[c].call].st = "consumed" /\ dec[ctl[c].call].ident = Ident

Deciding(c) ==
    /\ At(c, "pause") => Found(c, "PAUSE")
    /\ At(c, "resume") => Found(c, "RESUME")
    /\ At(c, "commitPause") => Consumed(c, "PAUSE") /\ rec.pause = None
    /\ At(c, "commitResume") => Consumed(c, "RESUME") /\ Paused

\* The lease of the turn c runs.
Holds(c) ==
    \E l \in leases : l.by = c /\ l.epoch = ctl[c].epoch /\ l.session \in {ctl[c].session, None}

InTurn(c) ==
    Fenced =>
        /\ ctl[c].pc \in {"act", "acting", "observe", "release"} => Holds(c)
        /\ ctl[c].pc \in {"act", "release", "revoke"} => RunningSessions = {}
        /\ ctl[c].pc \in {"acting", "observe"} => RunningSessions \subseteq {ctl[c].session}

\* From a quiet receipt to the commit of the pause.
Quiet(c) == ctl[c].pc \in {"pause", "commitPause"} \/ (At(c, "check") /\ ctl[c].quiet)

Drained(c) == excused = {} /\ Quiet(c) => leases = {} /\ Still

ControllerInv(c) == Owner(c) /\ Deciding(c) /\ InTurn(c) /\ Drained(c)

ControlInv ==
    /\ TypeOK /\ Claimed /\ Lone /\ Covered /\ Silent
    /\ \A c \in Controllers : ControllerInv(c)

LEMMA Moved ==
    ASSUME ctl \in [Controllers -> Controller], NEW c \in Controllers, NEW r \in Controller,
           Becomes(c, r)
    PROVE  /\ ctl' \in [Controllers -> Controller]
           /\ ctl'[c] = r
           /\ \A d \in Controllers : d # c => ctl'[d] = ctl[d]
BY DEF Becomes

\* Where Return and Stop lead.
Blank(p, e) == [Off EXCEPT !.pc = p, !.epoch = e]

LEMMA BlankController ==
    ASSUME NEW p \in Pcs, NEW e \in Nat
    PROVE  /\ Blank(p, e) \in Controller /\ Blank(p, e).pc = p /\ Blank(p, e).epoch = e
           /\ Blank(p, e).quiet = FALSE
BY DEF Blank, Off, Controller

Halt(p) == [Off EXCEPT !.pc = p]

LEMMA HaltedController ==
    ASSUME NEW p \in Pcs
    PROVE  Halt(p) \in Controller /\ Halt(p).pc = p /\ Halt(p).epoch = 0
BY DEF Halt, Off, Controller

LEMMA Returned ==
    ASSUME NEW c, NEW p, Return(c, p) PROVE Becomes(c, Blank(p, ctl[c].epoch))
BY DEF Return, Blank

LEMMA OneOwner ==
    ASSUME NEW c, NEW d, Owns(c), Owns(d) PROVE c = d
BY DEF Owns

\* A live controller c takes its step; the record and the decisions are in the
\* hands of the owner.
ByOwner(c) ==
    /\ rec'.owner = rec.owner /\ rec'.epoch = rec.epoch
    /\ rec' = rec \/ Owns(c)
    /\ \/ dec' = dec
       \/ /\ Owns(c)
          /\ \A k \in Calls :
                \/ dec'[k] = dec[k]
                \/ dec'[k].st = "applied"
                \/ /\ dec[k].st = "live" /\ dec'[k].st = "consumed"
                   /\ dec'[k].cmd = dec[k].cmd

LEMMA OthersKept ==
    ASSUME ControlInv, NEW c \in Controllers, Live(c), ByOwner(c), excused \subseteq excused',
           NEW d \in Controllers, d # c, ctl'[d] = ctl[d]
    PROVE  ControllerInv(d)'
<1>1. Owns(d)' => Owns(d) /\ rec' = rec /\ dec' = dec
    BY OneOwner DEF ByOwner, Owns
<1>2. Owner(d) /\ Deciding(d)
    BY DEF ControlInv, ControllerInv
<1>3. Owner(d)'
    BY <1>1, <1>2 DEF Owner, At, Paused, Ident
<1>4. Deciding(d)'
    <2>1. ASSUME NEW cmd, Found(d, cmd) PROVE Found(d, cmd)'
        BY <2>1 DEF Found, ByOwner
    <2>2. Owns(d) => Owns(d)' /\ rec' = rec /\ dec' = dec
        BY OneOwner DEF ByOwner, Owns
    <2>3. ASSUME NEW cmd, Consumed(d, cmd) PROVE Consumed(d, cmd)'
        BY <2>1, <2>2, <2>3 DEF Consumed, Ident
    <2>4. At(d, "commitPause") \/ At(d, "commitResume") => Owns(d)
        BY <1>2 DEF Deciding, Consumed
    <2> QED
        BY <1>2, <2>1, <2>2, <2>3, <2>4 DEF Deciding, At, Paused
<1>5. Fenced' => ~Live(d)
    BY DEF ControlInv, Lone, Fenced
<1>6. InTurn(d)' /\ Drained(d)'
    <2>1. Live(d)' <=> Live(d)
        BY DEF Live
    <2>2. ~Live(d)' => ctl'[d].pc \in {"off", "dead", "done"}
        BY DEF Live
    <2>3. excused' = {} => Fenced'
        BY DEF Fenced
    <2> QED
        BY <1>5, <2>1, <2>2, <2>3 DEF InTurn, Drained, Quiet, At
<1> QED
    BY <1>3, <1>4, <1>6 DEF ControllerInv

LEMMA Assemble ==
    ASSUME ControlInv, NEW c \in Controllers, Live(c), ByOwner(c), excused \subseteq excused',
           NEW r \in Controller, Becomes(c, r),
           TypeOK', Claimed', Covered', Silent', ControllerInv(c)'
    PROVE  ControlInv'
<1>1. /\ ctl'[c] = r
      /\ \A d \in Controllers : d # c => ctl'[d] = ctl[d]
    BY Moved DEF ControlInv, TypeOK, ControllersOK
<1>2. Lone'
    BY <1>1 DEF ControlInv, Lone, Live, Fenced
<1>3. \A d \in Controllers : ControllerInv(d)'
    BY <1>1, OthersKept
<1> QED
    BY <1>2, <1>3 DEF ControlInv

LEMMA ControllersMoved ==
    ASSUME TypeOK, NEW c \in Controllers, Live(c), NEW r \in Controller, Becomes(c, r),
           rec'.epoch = rec.epoch,
           r.epoch = ctl[c].epoch \/ (r.epoch = 0 /\ r.pc \in {"dead", "done"}),
           r.pc \in Turn => r.role \in Roles /\ r.session \in Sessions
    PROVE  ControllersOK'
<1>1. /\ ctl' \in [Controllers -> Controller]
      /\ ctl'[c] = r
      /\ \A d \in Controllers : d # c => ctl'[d] = ctl[d]
    BY Moved DEF TypeOK, ControllersOK
<1>2. rec.epoch \in Nat
    BY DEF TypeOK, RecordOK
<1> QED
    BY <1>1, <1>2 DEF TypeOK, ControllersOK, Live

-----------------------------------------------------------------------------
(***************************************************************************)
(* The turn.                                                               *)
(***************************************************************************)

\* A turn is under way only while the record shows no pause, or something is
\* excused.
LEMMA TurnStep ==
    ASSUME ControlInv, NEW c \in Controllers, ctl[c].pc \in Turn,
           NEW r \in Controller, Becomes(c, r), r.pc \in Turn \cup {"work", "fail"},
           r.epoch = ctl[c].epoch,
           r.pc \in Turn => r.role = ctl[c].role /\ r.session = ctl[c].session,
           UNCHANGED <<rec, dec, excused, launcher, cancel>>,
           LeasesOK', part' \in [Sessions -> {"absent", "idle", "RUNNING", "terminal"}],
           sess' \in [Sessions -> {"absent", "quiet", "running"}], faults' \in 0 .. MaxFaults,
           Covered', InTurn(c)'
    PROVE  ControlInv'
<1>1. ctl'[c] = r
    BY Moved DEF ControlInv, TypeOK, ControllersOK
<1>2. Live(c) /\ ctl[c].role \in Roles /\ ctl[c].session \in Sessions
    BY DEF Live, Turn, Working, ControlInv, TypeOK, ControllersOK
<1>3. TypeOK'
    <2>1. ControllersOK'
        BY <1>2, ControllersMoved DEF ControlInv
    <2>2. RecordOK'
        BY DEF ControlInv, TypeOK, RecordOK
    <2> QED
        BY <2>1, <2>2 DEF ControlInv, TypeOK
<1>4. Claimed'
    BY DEF ControlInv, Claimed
<1>5. Silent'
    <2>1. ~(excused = {} /\ rec.pause # None)
        BY DEF ControlInv, Silent
    <2> QED
        BY <2>1 DEF Silent
<1>6. ControllerInv(c)'
    <2>1. Owner(c)'
        <3>1. Owns(c)' => Owns(c)
            BY <1>1 DEF Owns
        <3>2. Owns(c) => rec.policy /\ ~Paused
            BY DEF ControlInv, ControllerInv, Owner, At, Turn, Working
        <3>3. r.pc \in Working \cup {"fail"} /\ r.pc # "bind" /\ r.pc # "rebind" /\ r.pc # "await"
            BY DEF Turn, Working
        <3> QED
            BY <1>1, <3>1, <3>2, <3>3 DEF Owner, At, Paused
    <2>2. Deciding(c)' /\ Drained(c)'
        BY <1>1 DEF Deciding, Drained, Quiet, At, Turn, Working
    <2> QED
        BY <2>1, <2>2 DEF ControllerInv
<1>7. ByOwner(c)
    BY DEF ByOwner
<1> QED
    BY <1>2, <1>3, <1>4, <1>5, <1>6, <1>7, Assemble

\* The end of a turn without a word to the lease table or the session.
LEMMA TurnAbandoned ==
    ASSUME ControlInv, NEW c \in Controllers, ctl[c].pc \in Turn, Goto(c, "endTurn"),
           UNCHANGED <<rec, dec, excused, launcher, cancel, leases, sess>>,
           part' \in [Sessions -> {"absent", "idle", "RUNNING", "terminal"}],
           faults' \in 0 .. MaxFaults
    PROVE  ControlInv'
<1> DEFINE r == [ctl[c] EXCEPT !.pc = "endTurn"]
<1>1. ctl[c] \in Controller
    BY DEF ControlInv, TypeOK, ControllersOK
<1>2. /\ r \in Controller /\ r.pc = "endTurn" /\ r.epoch = ctl[c].epoch
      /\ r.role = ctl[c].role /\ r.session = ctl[c].session
    BY <1>1 DEF Controller, Pcs, Working
<1>3. Becomes(c, r)
    BY DEF Goto
<1> HIDE DEF r
<1>4. ctl'[c] = r
    BY <1>2, <1>3, Moved DEF ControlInv, TypeOK, ControllersOK
<1>5. LeasesOK' /\ sess' \in [Sessions -> {"absent", "quiet", "running"}]
    BY DEF ControlInv, TypeOK, LeasesOK
<1>6. Covered'
    BY DEF ControlInv, Covered, Fenced, RunningSessions
<1>7. InTurn(c)'
    BY <1>2, <1>4 DEF InTurn
<1> QED
    BY <1>2, <1>3, <1>5, <1>6, <1>7, TurnStep DEF Turn, Working

LEMMA FaultsTyped ==
    ASSUME TypeOK, Fault PROVE faults' \in 0 .. MaxFaults
BY ControlAssumption DEF TypeOK, Fault

Moving(c, p) == [ctl[c] EXCEPT !.pc = p]

LEMMA MovingController ==
    ASSUME TypeOK, NEW c \in Controllers, NEW p \in Pcs
    PROVE  /\ Moving(c, p) \in Controller /\ Moving(c, p).pc = p
           /\ Moving(c, p).epoch = ctl[c].epoch /\ Moving(c, p).role = ctl[c].role
           /\ Moving(c, p).session = ctl[c].session /\ Moving(c, p).known = ctl[c].known
           /\ Moving(c, p).call = ctl[c].call /\ Moving(c, p).quiet = ctl[c].quiet
<1>1. ctl[c] \in Controller
    BY DEF TypeOK, ControllersOK
<1> QED
    BY <1>1 DEF Moving, Controller

LEMMA TakeOverStep ==
    ASSUME ControlInv, NEW c \in Controllers, TakeOver(c) PROVE ControlInv'
<1>1. /\ ctl[c].pc = "takeover" /\ UNCHANGED <<rec, dec, excused, launcher, cancel, leases, part>>
    BY DEF TakeOver, At
<1>2. ctl[c].pc \in Turn
    BY <1>1 DEF Turn, Working
<1>3. part' \in [Sessions -> {"absent", "idle", "RUNNING", "terminal"}]
    BY <1>1 DEF ControlInv, TypeOK
<1>4. CASE Goto(c, "endTurn") /\ UNCHANGED sess /\ (Fault \/ UNCHANGED faults)
    <2>1. faults' \in 0 .. MaxFaults
        BY <1>4, FaultsTyped DEF ControlInv, TypeOK
    <2> QED
        BY <1>1, <1>2, <1>3, <1>4, <2>1, TurnAbandoned
<1>5. CASE /\ \A l \in leases : MayTakeOver(c, l)
           /\ sess' = [s \in Sessions |->
                         IF \E l \in leases : l.session = s THEN "quiet" ELSE sess[s]]
           /\ Goto(c, IF leases = {} THEN "acquire" ELSE "revoke")
           /\ UNCHANGED faults
    <2> DEFINE p == IF leases = {} THEN "acquire" ELSE "revoke"
    <2>1. p \in Turn /\ p \in Pcs /\ p \in {"acquire", "revoke"}
        BY DEF Turn, Working, Pcs
    <2>2. Becomes(c, Moving(c, p))
        BY <1>5 DEF Goto, Moving
    <2> HIDE DEF p
    <2>3. /\ Moving(c, p) \in Controller /\ Moving(c, p).pc = p
          /\ Moving(c, p).epoch = ctl[c].epoch /\ Moving(c, p).role = ctl[c].role
          /\ Moving(c, p).session = ctl[c].session
        BY <2>1, MovingController DEF ControlInv
    <2>4. ctl'[c] = Moving(c, p)
        BY <2>2, <2>3, Moved DEF ControlInv, TypeOK, ControllersOK
    <2>5. /\ sess' \in [Sessions -> {"absent", "quiet", "running"}]
          /\ \A s \in RunningSessions' : s \in RunningSessions /\ ~\E l \in leases : l.session = s
        BY <1>5 DEF ControlInv, TypeOK, RunningSessions
    <2>6. \A l \in leases : l.session # None
        BY <1>5 DEF MayTakeOver
    <2>7. Fenced => RunningSessions' = {}
        BY <2>5, <2>6 DEF ControlInv, Covered
    <2>8. LeasesOK' /\ faults' \in 0 .. MaxFaults
        BY <1>1, <1>5 DEF ControlInv, TypeOK, LeasesOK
    <2>9. Covered'
        BY <1>1, <2>7 DEF ControlInv, Covered, Fenced
    <2>10. InTurn(c)'
        BY <1>1, <2>1, <2>3, <2>4, <2>7 DEF InTurn, Fenced
    <2> QED
        BY <1>1, <1>2, <1>3, <2>1, <2>2, <2>3, <2>5, <2>8, <2>9, <2>10, TurnStep
<1> QED
    BY <1>4, <1>5 DEF TakeOver

LEMMA RevokeStep ==
    ASSUME ControlInv, NEW c \in Controllers, Revoke(c) PROVE ControlInv'
<1>1. /\ ctl[c].pc = "revoke"
      /\ UNCHANGED <<rec, dec, excused, launcher, cancel, sess, part, faults>>
    BY DEF Revoke, At
<1>2. ctl[c].pc \in Turn
    BY <1>1 DEF Turn, Working
<1>3. /\ part' \in [Sessions -> {"absent", "idle", "RUNNING", "terminal"}]
      /\ sess' \in [Sessions -> {"absent", "quiet", "running"}] /\ faults' \in 0 .. MaxFaults
    BY <1>1 DEF ControlInv, TypeOK
<1>4. CASE Goto(c, "endTurn") /\ UNCHANGED leases
    BY <1>1, <1>2, <1>3, <1>4, TurnAbandoned
<1>5. CASE leases' = {} /\ Goto(c, "acquire")
    <2>1. "acquire" \in Turn /\ "acquire" \in Pcs
        BY DEF Turn, Working, Pcs
    <2>2. Becomes(c, Moving(c, "acquire"))
        BY <1>5 DEF Goto, Moving
    <2>3. /\ Moving(c, "acquire") \in Controller /\ Moving(c, "acquire").pc = "acquire"
          /\ Moving(c, "acquire").epoch = ctl[c].epoch
          /\ Moving(c, "acquire").role = ctl[c].role
          /\ Moving(c, "acquire").session = ctl[c].session
        BY <2>1, MovingController DEF ControlInv
    <2>4. ctl'[c] = Moving(c, "acquire")
        BY <2>2, <2>3, Moved DEF ControlInv, TypeOK, ControllersOK
    <2>5. Fenced' => RunningSessions' = {}
        BY <1>1 DEF ControlInv, ControllerInv, InTurn, Fenced, RunningSessions
    <2>6. LeasesOK' /\ Covered' /\ InTurn(c)'
        BY <1>5, <2>3, <2>4, <2>5 DEF LeasesOK, Covered, InTurn
    <2> QED
        BY <1>1, <1>2, <1>3, <2>1, <2>2, <2>3, <2>6, TurnStep
<1> QED
    BY <1>4, <1>5 DEF Revoke

LEMMA AcquireStep ==
    ASSUME ControlInv, NEW c \in Controllers, Acquire(c) PROVE ControlInv'
<1>1. /\ ctl[c].pc = "acquire"
      /\ UNCHANGED <<rec, dec, excused, launcher, cancel, sess, part, faults>>
    BY DEF Acquire, At
<1>2. ctl[c].pc \in Turn
    BY <1>1 DEF Turn, Working
<1>3. /\ part' \in [Sessions -> {"absent", "idle", "RUNNING", "terminal"}]
      /\ sess' \in [Sessions -> {"absent", "quiet", "running"}] /\ faults' \in 0 .. MaxFaults
    BY <1>1 DEF ControlInv, TypeOK
<1>4. CASE Goto(c, "endTurn") /\ UNCHANGED leases
    BY <1>1, <1>2, <1>3, <1>4, TurnAbandoned
<1> DEFINE l == [by |-> c, epoch |-> ctl[c].epoch, exec |-> rec.exec, role |-> ctl[c].role,
                 session |-> IF ctl[c].known THEN ctl[c].session ELSE None,
                 status |-> "ACTIVE"]
<1>5. CASE leases = {} /\ leases' = {l} /\ Goto(c, "act")
    <2>1. "act" \in Turn /\ "act" \in Pcs
        BY DEF Turn, Working, Pcs
    <2>2. Becomes(c, Moving(c, "act"))
        BY <1>5 DEF Goto, Moving
    <2>3. /\ Moving(c, "act") \in Controller /\ Moving(c, "act").pc = "act"
          /\ Moving(c, "act").epoch = ctl[c].epoch /\ Moving(c, "act").role = ctl[c].role
          /\ Moving(c, "act").session = ctl[c].session
        BY <2>1, MovingController DEF ControlInv
    <2>4. ctl'[c] = Moving(c, "act")
        BY <2>2, <2>3, Moved DEF ControlInv, TypeOK, ControllersOK
    <2>5. Fenced' => RunningSessions' = {}
        BY <1>1, <1>5 DEF ControlInv, Covered, Fenced, RunningSessions
    <2>6. LeasesOK'
        <3>1. ctl[c].epoch \in 1 .. rec.epoch
            BY <1>1 DEF ControlInv, TypeOK, ControllersOK, RecordOK, Live
        <3>2. ctl[c].role \in Roles /\ ctl[c].session \in Sessions
            BY <1>2 DEF ControlInv, TypeOK, ControllersOK
        <3>3. rec.exec \in 1 .. rec.exec
            BY DEF ControlInv, TypeOK, RecordOK
        <3> QED
            BY <1>1, <1>5, <3>1, <3>2, <3>3 DEF LeasesOK
    <2>7. /\ l.by = c /\ l.epoch = ctl[c].epoch /\ l.session \in {ctl[c].session, None}
        OBVIOUS
    <2> HIDE DEF l
    <2>8. Covered' /\ InTurn(c)'
        BY <1>5, <2>3, <2>4, <2>5, <2>7 DEF Covered, InTurn, Holds
    <2> QED
        BY <1>1, <1>2, <1>3, <2>1, <2>2, <2>3, <2>6, <2>8, TurnStep
<1> QED
    BY <1>4, <1>5 DEF Acquire

LEMMA ActStep ==
    ASSUME ControlInv, NEW c \in Controllers, Act(c) PROVE ControlInv'
<1>1. /\ ctl[c].pc = "act" /\ sess' = [sess EXCEPT ![ctl[c].session] = "running"]
      /\ UNCHANGED <<rec, dec, excused, launcher, cancel, leases, part, faults>>
    BY DEF Act, At
<1>2. ctl[c].pc \in Turn /\ "acting" \in Turn /\ "acting" \in Pcs
    BY <1>1 DEF Turn, Working, Pcs
<1>3. ctl[c].session \in Sessions
    BY <1>2 DEF ControlInv, TypeOK, ControllersOK
<1>4. /\ part' \in [Sessions -> {"absent", "idle", "RUNNING", "terminal"}]
      /\ sess' \in [Sessions -> {"absent", "quiet", "running"}] /\ faults' \in 0 .. MaxFaults
    BY <1>1 DEF ControlInv, TypeOK
<1>5. Becomes(c, Moving(c, "acting"))
    BY DEF Act, Goto, Moving
<1>6. /\ Moving(c, "acting") \in Controller /\ Moving(c, "acting").pc = "acting"
      /\ Moving(c, "acting").epoch = ctl[c].epoch /\ Moving(c, "acting").role = ctl[c].role
      /\ Moving(c, "acting").session = ctl[c].session
    BY <1>2, MovingController DEF ControlInv
<1>7. ctl'[c] = Moving(c, "acting")
    BY <1>5, <1>6, Moved DEF ControlInv, TypeOK, ControllersOK
<1>8. Fenced => RunningSessions = {} /\ Holds(c)
    BY <1>1 DEF ControlInv, ControllerInv, InTurn
<1>9. Fenced' => RunningSessions' = {ctl[c].session} /\ Holds(c)
    BY <1>1, <1>3, <1>8 DEF Fenced, RunningSessions, ControlInv, TypeOK
<1>10. Covered'
    BY <1>1, <1>9 DEF ControlInv, Covered, Holds
<1>11. InTurn(c)'
    BY <1>1, <1>6, <1>7, <1>9 DEF InTurn, Holds
<1>12. LeasesOK'
    BY <1>1 DEF ControlInv, TypeOK, LeasesOK
<1> QED
    BY <1>1, <1>2, <1>4, <1>5, <1>6, <1>10, <1>11, <1>12, TurnStep

\* The lease of a turn gets the name of the session that the turn runs.
LEMMA NamedLease ==
    ASSUME ControlInv, NEW c \in Controllers, ctl[c].pc = "acting",
           leases' = Named(c), UNCHANGED <<rec, sess, excused>>
    PROVE  /\ LeasesOK' /\ Covered'
           /\ Fenced => \E l \in leases' : /\ l.by = c /\ l.epoch = ctl[c].epoch
                                          /\ l.session = ctl[c].session
<1> DEFINE mark(l) == [l EXCEPT !.session = ctl[c].session]
<1>1. ctl[c].session \in Sessions
    BY DEF ControlInv, TypeOK, ControllersOK, Turn, Working
<1>2. Fenced => RunningSessions \subseteq {ctl[c].session} /\ Holds(c)
    BY DEF ControlInv, ControllerInv, InTurn
<1>3. leases' = (leases \ Own(c)) \cup {mark(l) : l \in Own(c)} /\ Own(c) \subseteq leases
    BY DEF Named, Own
<1>4. \A l \in leases :
         /\ mark(l) \in [by : Controllers, epoch : 1..rec.epoch, exec : 1..rec.exec, role : Roles,
                         session : Sessions \cup {None}, status : {"ACTIVE", "UNCERTAIN"}]
         /\ mark(l).session = ctl[c].session /\ mark(l).by = l.by /\ mark(l).epoch = l.epoch
    BY <1>1 DEF ControlInv, TypeOK, LeasesOK
<1> HIDE DEF mark
<1>5. LeasesOK'
    BY <1>3, <1>4 DEF ControlInv, TypeOK, LeasesOK
<1>6. ASSUME Fenced
      PROVE  \E l \in leases' : l.by = c /\ l.epoch = ctl[c].epoch /\ l.session = ctl[c].session
    <2>1. PICK l \in leases : l.by = c /\ l.epoch = ctl[c].epoch
        BY <1>2, <1>6 DEF Holds
    <2>2. mark(l) \in leases'
        BY <1>3, <2>1 DEF Own
    <2> QED
        BY <1>4, <2>1, <2>2
<1>7. Covered'
    <2>1. \A l, m \in leases : l = m
        BY DEF ControlInv, Covered
    <2>2. \A l, m \in leases' : l = m
        BY <1>3, <2>1
    <2>3. RunningSessions' = RunningSessions /\ (Fenced' <=> Fenced)
        BY DEF RunningSessions, Fenced
    <2> QED
        BY <1>2, <1>6, <2>2, <2>3 DEF ControlInv, Covered
<1> QED
    BY <1>5, <1>6, <1>7

LEMMA ActEndsStep ==
    ASSUME ControlInv, NEW c \in Controllers, ActEnds(c) PROVE ControlInv'
<1>1. ctl[c].pc = "acting" /\ UNCHANGED <<rec, sess, dec, launcher, cancel, excused>>
    BY DEF ActEnds, At
<1>2. ctl[c].pc \in Turn /\ "observe" \in Turn /\ "observe" \in Pcs
    BY <1>1 DEF Turn, Working, Pcs
<1>3. /\ part' \in [Sessions -> {"absent", "idle", "RUNNING", "terminal"}]
      /\ faults' \in 0 .. MaxFaults
    BY FaultsTyped DEF ActEnds, ControlInv, TypeOK
<1>4. /\ LeasesOK' /\ Covered' /\ sess' \in [Sessions -> {"absent", "quiet", "running"}]
      /\ Fenced => \E l \in leases' : /\ l.by = c /\ l.epoch = ctl[c].epoch
                                     /\ l.session \in {ctl[c].session, None}
    <2>1. leases' = leases \/ leases' = Named(c)
        BY DEF ActEnds
    <2>2. CASE leases' = Named(c)
        BY <1>1, <2>2, NamedLease DEF ControlInv, TypeOK
    <2>3. CASE leases' = leases
        BY <1>1, <2>3 DEF ControlInv, TypeOK, LeasesOK, Covered, Fenced, RunningSessions,
                          ControllerInv, InTurn, Holds
    <2> QED
        BY <2>1, <2>2, <2>3
<1>5. ASSUME NEW r \in Controller, Becomes(c, r), r.pc = "observe", r.epoch = ctl[c].epoch,
             r.role = ctl[c].role, r.session = ctl[c].session
      PROVE  ControlInv'
    <2>1. ctl'[c] = r
        BY <1>5, Moved DEF ControlInv, TypeOK, ControllersOK
    <2>2. Fenced => RunningSessions \subseteq {ctl[c].session}
        BY <1>1 DEF ControlInv, ControllerInv, InTurn
    <2>3. InTurn(c)'
        BY <1>1, <1>4, <1>5, <2>1, <2>2 DEF InTurn, Fenced, RunningSessions, Holds
    <2> QED
        BY <1>1, <1>2, <1>3, <1>4, <1>5, <2>3, TurnStep
<1>6. CASE Becomes(c, [ctl[c] EXCEPT !.pc = "observe", !.known = TRUE])
    <2> DEFINE r == [ctl[c] EXCEPT !.pc = "observe", !.known = TRUE]
    <2>1. ctl[c] \in Controller
        BY DEF ControlInv, TypeOK, ControllersOK
    <2>2. /\ r \in Controller /\ r.pc = "observe" /\ r.epoch = ctl[c].epoch
          /\ r.role = ctl[c].role /\ r.session = ctl[c].session
        BY <1>2, <2>1 DEF Controller
    <2>3. Becomes(c, r)
        BY <1>6
    <2> HIDE DEF r
    <2> QED
        BY <1>5, <2>2, <2>3
<1>7. CASE Goto(c, "observe")
    <2>1. Becomes(c, Moving(c, "observe"))
        BY <1>7 DEF Goto, Moving
    <2> QED
        BY <1>2, <1>5, <2>1, MovingController DEF ControlInv
<1>8. CASE Goto(c, "endTurn") /\ UNCHANGED leases
    BY <1>1, <1>2, <1>3, <1>8, TurnAbandoned
<1> QED
    BY <1>6, <1>7, <1>8 DEF ActEnds

LEMMA ObserveStep ==
    ASSUME ControlInv, NEW c \in Controllers, Observe(c) PROVE ControlInv'
<1>1. ctl[c].pc = "observe" /\ UNCHANGED <<rec, part, dec, launcher, cancel, excused>>
    BY DEF Observe, At
<1>2. /\ ctl[c].pc \in Turn /\ {"release", "endTurn"} \subseteq Turn
      /\ {"release", "endTurn"} \subseteq Pcs
    BY <1>1 DEF Turn, Working, Pcs
<1>3. /\ part' \in [Sessions -> {"absent", "idle", "RUNNING", "terminal"}]
      /\ faults' \in 0 .. MaxFaults
    BY <1>1, FaultsTyped DEF Observe, ControlInv, TypeOK
<1>4. ctl[c] \in Controller /\ ctl[c].session \in Sessions
    BY <1>2 DEF ControlInv, TypeOK, ControllersOK
<1>5. Fenced => RunningSessions \subseteq {ctl[c].session} /\ Holds(c)
    BY <1>1 DEF ControlInv, ControllerInv, InTurn
<1>6. CASE Goto(c, "endTurn") /\ UNCHANGED <<sess, leases>>
    BY <1>1, <1>2, <1>3, <1>6, TurnAbandoned
<1>7. CASE /\ sess' = [sess EXCEPT ![ctl[c].session] = "quiet"]
           /\ Goto(c, "release") /\ UNCHANGED leases
    <2>1. Becomes(c, Moving(c, "release"))
        BY <1>7 DEF Goto, Moving
    <2>2. /\ Moving(c, "release") \in Controller /\ Moving(c, "release").pc = "release"
          /\ Moving(c, "release").epoch = ctl[c].epoch /\ Moving(c, "release").role = ctl[c].role
          /\ Moving(c, "release").session = ctl[c].session
        BY <1>2, MovingController DEF ControlInv
    <2>3. ctl'[c] = Moving(c, "release")
        BY <2>1, <2>2, Moved DEF ControlInv, TypeOK, ControllersOK
    <2>4. /\ sess' \in [Sessions -> {"absent", "quiet", "running"}] /\ LeasesOK'
          /\ RunningSessions' = RunningSessions \ {ctl[c].session}
        BY <1>1, <1>4, <1>7 DEF ControlInv, TypeOK, LeasesOK, RunningSessions
    <2>5. Covered'
        BY <1>1, <1>7, <2>4 DEF ControlInv, Covered, Fenced
    <2>6. InTurn(c)'
        BY <1>1, <1>5, <1>7, <2>2, <2>3, <2>4 DEF InTurn, Fenced, Holds
    <2> QED
        BY <1>1, <1>2, <1>3, <2>1, <2>2, <2>4, <2>5, <2>6, TurnStep
<1>8. CASE /\ leases' = (leases \ Own(c)) \cup
                {[l EXCEPT !.status = "UNCERTAIN",
                           !.session = IF ctl[c].known THEN ctl[c].session ELSE None] : l \in Own(c)}
           /\ Goto(c, "endTurn") /\ UNCHANGED sess
    <2> DEFINE s == IF ctl[c].known THEN ctl[c].session ELSE None
               mark(l) == [l EXCEPT !.status = "UNCERTAIN", !.session = s]
    <2>1. Becomes(c, Moving(c, "endTurn"))
        BY <1>8 DEF Goto, Moving
    <2>2. /\ Moving(c, "endTurn") \in Controller /\ Moving(c, "endTurn").pc = "endTurn"
          /\ Moving(c, "endTurn").epoch = ctl[c].epoch /\ Moving(c, "endTurn").role = ctl[c].role
          /\ Moving(c, "endTurn").session = ctl[c].session
        BY <1>2, MovingController DEF ControlInv
    <2>3. ctl'[c] = Moving(c, "endTurn")
        BY <2>1, <2>2, Moved DEF ControlInv, TypeOK, ControllersOK
    <2>4. s \in {ctl[c].session, None} /\ s \in Sessions \cup {None}
        BY <1>4
    <2>5. leases' = (leases \ Own(c)) \cup {mark(l) : l \in Own(c)}
        BY <1>8
    <2> HIDE DEF s
    <2>6. \A l \in leases : mark(l) \in [by : Controllers, epoch : 1..rec.epoch, exec : 1..rec.exec,
                role : Roles, session : Sessions \cup {None}, status : {"ACTIVE", "UNCERTAIN"}]
        BY <2>4 DEF ControlInv, TypeOK, LeasesOK
    <2>7. \A l \in leases : mark(l).session = s
        BY DEF ControlInv, TypeOK, LeasesOK
    <2> HIDE DEF mark
    <2>8. Own(c) \subseteq leases
        BY DEF Own
    <2>9. LeasesOK'
        BY <1>1, <2>5, <2>6, <2>8 DEF ControlInv, TypeOK, LeasesOK
    <2>10. Covered'
        <3>1. \A l, m \in leases : l = m
            BY DEF ControlInv, Covered
        <3>2. \A l, m \in leases' : l = m
            BY <2>5, <2>8, <3>1
        <3>3. RunningSessions' = RunningSessions /\ (Fenced' <=> Fenced)
            BY <1>1, <1>8 DEF RunningSessions, Fenced
        <3>4. ASSUME Fenced, NEW t \in RunningSessions PROVE \E l \in leases' : l.session \in {t, None}
            <4>1. t = ctl[c].session
                BY <1>5, <3>4
            <4>2. PICK l \in leases : l.by = c /\ l.epoch = ctl[c].epoch
                BY <1>5, <3>4 DEF Holds
            <4>3. mark(l) \in leases'
                BY <2>5, <4>2 DEF Own
            <4> QED
                BY <2>4, <2>7, <4>1, <4>2, <4>3
        <3>5. Fenced => \A t, u \in RunningSessions : t = u
            BY DEF ControlInv, Covered
        <3> QED
            BY <3>2, <3>3, <3>4, <3>5 DEF Covered
    <2>11. InTurn(c)'
        BY <2>2, <2>3 DEF InTurn
    <2>12. sess' \in [Sessions -> {"absent", "quiet", "running"}]
        BY <1>8 DEF ControlInv, TypeOK
    <2> QED
        BY <1>1, <1>2, <1>3, <2>1, <2>2, <2>9, <2>10, <2>11, <2>12, TurnStep
<1> QED
    BY <1>6, <1>7, <1>8 DEF Observe

LEMMA ReleaseStep ==
    ASSUME ControlInv, NEW c \in Controllers, Release(c) PROVE ControlInv'
<1>1. /\ ctl[c].pc = "release" /\ leases' = IF Current(c) THEN leases \ Own(c) ELSE leases
      /\ UNCHANGED <<rec, part, sess, dec, launcher, cancel, faults, excused>>
    BY DEF Release, At
<1>2. ctl[c].pc \in Turn /\ "endTurn" \in Turn /\ "endTurn" \in Pcs
    BY <1>1 DEF Turn, Working, Pcs
<1>3. /\ part' \in [Sessions -> {"absent", "idle", "RUNNING", "terminal"}]
      /\ sess' \in [Sessions -> {"absent", "quiet", "running"}] /\ faults' \in 0 .. MaxFaults
    BY <1>1 DEF ControlInv, TypeOK
<1>4. Becomes(c, Moving(c, "endTurn"))
    BY DEF Release, Goto, Moving
<1>5. /\ Moving(c, "endTurn") \in Controller /\ Moving(c, "endTurn").pc = "endTurn"
      /\ Moving(c, "endTurn").epoch = ctl[c].epoch /\ Moving(c, "endTurn").role = ctl[c].role
      /\ Moving(c, "endTurn").session = ctl[c].session
    BY <1>2, MovingController DEF ControlInv
<1>6. ctl'[c] = Moving(c, "endTurn")
    BY <1>4, <1>5, Moved DEF ControlInv, TypeOK, ControllersOK
<1>7. leases' \subseteq leases
    BY <1>1
<1>8. LeasesOK'
    BY <1>1, <1>7 DEF ControlInv, TypeOK, LeasesOK
<1>9. Fenced' => RunningSessions' = {}
    BY <1>1 DEF ControlInv, ControllerInv, InTurn, Fenced, RunningSessions
<1>10. Covered'
    BY <1>7, <1>9 DEF ControlInv, Covered
<1>11. InTurn(c)'
    BY <1>5, <1>6 DEF InTurn
<1> QED
    BY <1>1, <1>2, <1>3, <1>4, <1>5, <1>8, <1>10, <1>11, TurnStep

LEMMA EndTurnStep ==
    ASSUME ControlInv, NEW c \in Controllers, EndTurn(c) PROVE ControlInv'
<1>1. /\ ctl[c].pc = "endTurn" /\ UNCHANGED <<rec, leases, sess, dec, launcher, cancel, excused>>
    BY DEF EndTurn, At
<1>2. PICK p \in {"work", "fail"} : Return(c, p)
    BY DEF EndTurn
<1>3. ctl[c].pc \in Turn /\ p \in Pcs /\ p \notin Turn
    BY <1>1 DEF Turn, Working, Pcs
<1>4. /\ part' \in [Sessions -> {"absent", "idle", "RUNNING", "terminal"}]
      /\ faults' \in 0 .. MaxFaults
    BY FaultsTyped DEF EndTurn, ControlInv, TypeOK
<1>5. ctl[c].epoch \in Nat
    BY DEF ControlInv, TypeOK, ControllersOK, Controller
<1> DEFINE r == Blank(p, ctl[c].epoch)
<1>6. Becomes(c, r) /\ r \in Controller /\ r.pc = p /\ r.epoch = ctl[c].epoch
    BY <1>2, <1>3, <1>5, Returned, BlankController
<1> HIDE DEF r
<1>7. ctl'[c] = r
    BY <1>6, Moved DEF ControlInv, TypeOK, ControllersOK
<1>8. LeasesOK' /\ Covered' /\ sess' \in [Sessions -> {"absent", "quiet", "running"}]
    BY <1>1 DEF ControlInv, TypeOK, LeasesOK, Covered, Fenced, RunningSessions
<1>9. InTurn(c)'
    BY <1>6, <1>7 DEF InTurn
<1> QED
    BY <1>1, <1>3, <1>4, <1>6, <1>8, <1>9, TurnStep

-----------------------------------------------------------------------------
(***************************************************************************)
(* Outside of a turn: the lease table and the sessions are left alone.     *)
(***************************************************************************)

LEMMA NamesDiffer ==
    ASSUME NEW c \in Controllers PROVE c # None /\ c # Canceller
BY ControlAssumption

LEMMA Aside ==
    ASSUME ControlInv, NEW c \in Controllers, Live(c), ByOwner(c),
           NEW r \in Controller, Becomes(c, r),
           r.epoch = ctl[c].epoch \/ (r.epoch = 0 /\ r.pc \in {"dead", "done"}),
           r.pc \notin Turn \/ (r.pc = "takeover" /\ r.role \in Roles /\ r.session \in Sessions),
           UNCHANGED <<leases, sess, launcher, cancel>>,
           RecordOK', rec'.exec >= rec.exec, dec' \in [Calls -> Decision],
           part' \in [Sessions -> {"absent", "idle", "RUNNING", "terminal"}],
           faults' \in 0 .. MaxFaults, excused \subseteq excused',
           excused' \subseteq {"survivor", "patched", "unreadable"},
           Silent', Owner(c)', Deciding(c)', Drained(c)'
    PROVE  ControlInv'
<1>1. ctl'[c] = r
    BY Moved DEF ControlInv, TypeOK, ControllersOK
<1>2. rec'.epoch = rec.epoch /\ rec'.owner = rec.owner
    BY DEF ByOwner
<1>3. TypeOK'
    <2>1. ControllersOK'
        BY <1>2, ControllersMoved DEF ControlInv
    <2>2. LeasesOK'
        <3>1. rec.exec \in Nat /\ rec'.exec \in Nat /\ 1 .. rec.exec \subseteq 1 .. rec'.exec
            BY DEF ControlInv, TypeOK, RecordOK
        <3> QED
            BY <1>2, <3>1 DEF ControlInv, TypeOK, LeasesOK
    <2> QED
        BY <2>1, <2>2 DEF ControlInv, TypeOK
<1>4. Claimed'
    <2>1. Owns(c) => rec.owner # None
        BY NamesDiffer DEF Owns
    <2> QED
        BY <1>2, <2>1 DEF ControlInv, Claimed, ByOwner
<1>5. Covered'
    BY DEF ControlInv, Covered, Fenced, RunningSessions
<1>6. InTurn(c)'
    BY <1>1 DEF InTurn, Turn, Working
<1> QED
    BY <1>3, <1>4, <1>5, <1>6, Assemble DEF ControllerInv

\* The record and the decisions are left alone as well.
LEMMA Apart ==
    ASSUME ControlInv, NEW c \in Controllers, Live(c),
           NEW r \in Controller, Becomes(c, r), r.pc \notin Turn,
           r.epoch = ctl[c].epoch \/ (r.epoch = 0 /\ r.pc \in {"dead", "done"}),
           UNCHANGED <<rec, part, leases, sess, dec, launcher, cancel>>,
           faults' \in 0 .. MaxFaults, excused \subseteq excused',
           excused' \subseteq {"survivor", "patched", "unreadable"},
           Owner(c)', Deciding(c)', Drained(c)'
    PROVE  ControlInv'
<1>1. /\ ctl'[c] = r
      /\ \A d \in Controllers : d # c => ctl'[d] = ctl[d]
    BY Moved DEF ControlInv, TypeOK, ControllersOK
<1>2. Silent'
    BY <1>1 DEF ControlInv, Silent, Still, RunningSessions
<1>3. RecordOK' /\ rec'.exec >= rec.exec /\ dec' \in [Calls -> Decision]
    BY DEF ControlInv, TypeOK, RecordOK
<1>4. part' \in [Sessions -> {"absent", "idle", "RUNNING", "terminal"}]
    BY DEF ControlInv, TypeOK
<1>5. ByOwner(c)
    BY DEF ByOwner
<1> QED
    BY <1>2, <1>3, <1>4, <1>5, Aside

\* A step to a place where nothing is decided and nothing is held.
LEMMA GivesWay ==
    ASSUME ControlInv, NEW c \in Controllers, Live(c),
           NEW r \in Controller, Becomes(c, r),
           \/ r.pc = "fail" /\ r.epoch = ctl[c].epoch /\ (Owns(c) => ~At(c, "bind"))
           \/ r.pc \in {"dead", "done"} /\ r.epoch = 0
           \/ r.pc \in {"work", "drain"} /\ r.epoch = ctl[c].epoch /\ (Owns(c) => ~At(c, "bind"))
              /\ (Owns(c) => ~Paused),
           UNCHANGED <<rec, part, leases, sess, dec, launcher, cancel, excused>>,
           faults' \in 0 .. MaxFaults
    PROVE  ControlInv'
<1>1. ctl'[c] = r
    BY Moved DEF ControlInv, TypeOK, ControllersOK
<1>2. excused' \subseteq {"survivor", "patched", "unreadable"} /\ excused \subseteq excused'
    BY DEF ControlInv, TypeOK
<1>3. Owner(c)'
    <2>1. rec.epoch # 0
        BY DEF ControlInv, TypeOK, RecordOK
    <2>2. Owns(c)' => Owns(c) /\ r.pc \in {"fail", "work", "drain"}
        BY <1>1, <2>1 DEF Owns
    <2>3. Owns(c)' => rec.policy
        BY <2>2 DEF ControlInv, ControllerInv, Owner
    <2> QED
        BY <1>1, <2>2, <2>3 DEF Owner, At, Paused, Working
<1>4. Deciding(c)' /\ Drained(c)' /\ r.pc \notin Turn
    BY <1>1 DEF Deciding, Drained, Quiet, At, Turn, Working
<1> QED
    BY <1>2, <1>3, <1>4, Apart

LEMMA HeldEpoch ==
    ASSUME ControlInv, NEW c \in Controllers PROVE ctl[c].epoch \in Nat /\ ctl[c] \in Controller
BY DEF ControlInv, TypeOK, ControllersOK, Controller

LEMMA FaultsKept ==
    ASSUME ControlInv, UNCHANGED faults PROVE faults' \in 0 .. MaxFaults
BY DEF ControlInv, TypeOK

LEMMA FailsStep ==
    ASSUME ControlInv, NEW c \in Controllers, Live(c), Return(c, "fail"),
           Owns(c) => ~At(c, "bind"),
           UNCHANGED <<rec, part, leases, sess, dec, launcher, cancel, faults, excused>>
    PROVE  ControlInv'
<1>1. "fail" \in Pcs
    BY DEF Pcs
<1> DEFINE r == Blank("fail", ctl[c].epoch)
<1>2. Becomes(c, r) /\ r \in Controller /\ r.pc = "fail" /\ r.epoch = ctl[c].epoch
    BY <1>1, Returned, HeldEpoch, BlankController
<1> HIDE DEF r
<1> QED
    BY <1>2, GivesWay, FaultsKept

LEMMA WorksStep ==
    ASSUME ControlInv, NEW c \in Controllers, Live(c), Return(c, "work"),
           Owns(c) => ~At(c, "bind") /\ ~Paused,
           UNCHANGED <<rec, part, leases, sess, dec, launcher, cancel, faults, excused>>
    PROVE  ControlInv'
<1>1. "work" \in Pcs
    BY DEF Pcs, Working
<1> DEFINE r == Blank("work", ctl[c].epoch)
<1>2. Becomes(c, r) /\ r \in Controller /\ r.pc = "work" /\ r.epoch = ctl[c].epoch
    BY <1>1, Returned, HeldEpoch, BlankController
<1> HIDE DEF r
<1> QED
    BY <1>2, GivesWay, FaultsKept

LEMMA CrashStep ==
    ASSUME ControlInv, NEW c \in Controllers, Crash(c) PROVE ControlInv'
<1>1. Becomes(c, Halt("dead")) /\ "dead" \in Pcs /\ Live(c)
    BY DEF Crash, Stop, Halt, Pcs
<1>2. faults' \in 0 .. MaxFaults
    BY FaultsTyped DEF Crash, ControlInv
<1> QED
    BY <1>1, <1>2, HaltedController, GivesWay DEF Crash

LEMMA DisplacedStep ==
    ASSUME ControlInv, NEW c \in Controllers, Displaced(c) PROVE ControlInv'
<1>1. Live(c) /\ ~At(c, "bind")
    BY DEF Displaced, At, Live
<1> QED
    BY <1>1, FailsStep DEF Displaced

LEMMA ToCheckpointStep ==
    ASSUME ControlInv, NEW c \in Controllers, ToCheckpoint(c) PROVE ControlInv'
<1>1. /\ Live(c) /\ ~At(c, "bind") /\ "drain" \in Pcs /\ ctl[c].pc \in Working
      /\ Becomes(c, Moving(c, "drain"))
    BY DEF ToCheckpoint, At, Live, Pcs, Working, Goto, Moving
<1>2. Owns(c) => ~Paused
    BY <1>1 DEF ControlInv, ControllerInv, Owner
<1>3. Moving(c, "drain") \in Controller /\ Moving(c, "drain").pc = "drain"
      /\ Moving(c, "drain").epoch = ctl[c].epoch
    BY <1>1, MovingController DEF ControlInv
<1> QED
    BY <1>1, <1>2, <1>3, GivesWay, FaultsKept DEF ToCheckpoint


\* An owner at work has no pause in front of it.
LEMMA NoPauseAtWork ==
    ASSUME ControlInv, NEW c \in Controllers, Owns(c), ctl[c].pc \in Working, excused = {}
    PROVE  rec.pause = None
<1>1. ~Paused
    BY DEF ControlInv, ControllerInv, Owner
<1>2. rec.owner # Canceller
    BY NamesDiffer DEF Owns
<1> QED
    BY <1>1, <1>2 DEF ControlInv, Silent, Paused

LEMMA DrainStep ==
    ASSUME ControlInv, NEW c \in Controllers, Drain(c) PROVE ControlInv'
<1>1. /\ ctl[c].pc = "drain" /\ Live(c) /\ "check" \in Pcs
      /\ UNCHANGED <<rec, part, leases, sess, dec, launcher, cancel>>
    BY DEF Drain, At, Live, Pcs, Working
<1>2. PICK q \in BOOLEAN : /\ Becomes(c, [ctl[c] EXCEPT !.pc = "check", !.quiet = q])
                           /\ q /\ excused' = {} => ~Busy(leases)
                           /\ \/ UNCHANGED <<faults, excused>>
                              \/ Fault /\ excused' = excused \cup {"unreadable"}
    <2>1. (~Busy(leases)) \in BOOLEAN
        BY DEF Busy
    <2> QED
        BY <2>1 DEF Drain
<1> DEFINE r == [ctl[c] EXCEPT !.pc = "check", !.quiet = q]
<1>3. r \in Controller /\ r.pc = "check" /\ r.quiet = q /\ r.epoch = ctl[c].epoch
    BY <1>1, HeldEpoch DEF Controller
<1>4. Becomes(c, r)
    BY <1>2
<1> HIDE DEF r
<1>5. ctl'[c] = r
    BY <1>3, <1>4, Moved DEF ControlInv, TypeOK, ControllersOK
<1>6. faults' \in 0 .. MaxFaults
    BY <1>2, FaultsTyped, FaultsKept DEF ControlInv
<1>7. excused \subseteq excused' /\ excused' \subseteq {"survivor", "patched", "unreadable"}
    BY <1>2 DEF ControlInv, TypeOK
<1>8. Owner(c)'
    <2>1. Owns(c)' => Owns(c)
        BY <1>1, <1>3, <1>5 DEF Owns
    <2>2. Owns(c) => rec.policy /\ ~Paused
        BY <1>1 DEF ControlInv, ControllerInv, Owner, At, Working
    <2> QED
        BY <1>1, <1>3, <1>5, <2>1, <2>2 DEF Owner, At, Paused
<1>9. Deciding(c)' /\ r.pc \notin Turn
    BY <1>3, <1>5 DEF Deciding, At, Turn, Working
<1>10. Drained(c)'
    <2>1. Quiet(c)' => q
        BY <1>3, <1>5 DEF Quiet, At
    <2>2. ASSUME q, excused' = {} PROVE leases = {} /\ Still
        <3>1. leases = {} /\ \A s \in Sessions : part[s] # "RUNNING"
            BY <1>2, <2>2 DEF Busy
        <3>2. Fenced
            BY <1>7, <2>2 DEF Fenced
        <3> QED
            BY <3>1, <3>2 DEF ControlInv, Covered, Still
    <2> QED
        BY <1>1, <2>1, <2>2 DEF Drained, Still, RunningSessions
<1> QED
    BY <1>1, <1>3, <1>4, <1>6, <1>7, <1>8, <1>9, <1>10, Apart

\* c finds decision k and goes to apply it.
LEMMA FindsStep ==
    ASSUME ControlInv, NEW c \in Controllers, NEW k \in Calls,
           NEW p, NEW cmd,
           \/ At(c, "check") /\ ctl[c].quiet /\ p = "pause" /\ cmd = "PAUSE"
           \/ At(c, "await") /\ p = "resume" /\ cmd = "RESUME",
           Becomes(c, [ctl[c] EXCEPT !.pc = p, !.call = k]),
           dec[k].st = "live" /\ dec[k].cmd = cmd,
           UNCHANGED <<rec, part, leases, sess, dec, launcher, cancel, faults, excused>>
    PROVE  ControlInv'
<1> DEFINE r == [ctl[c] EXCEPT !.pc = p, !.call = k]
<1>1. Live(c) /\ p \in Pcs
    BY DEF At, Live, Pcs, Working
<1>2. r \in Controller /\ r.pc = p /\ r.call = k /\ r.epoch = ctl[c].epoch
    BY <1>1, HeldEpoch DEF Controller
<1> HIDE DEF r
<1>3. ctl'[c] = r
    BY <1>2, Moved DEF ControlInv, TypeOK, ControllersOK, r
<1>4. Owner(c)'
    <2>1. Owns(c)' => Owns(c)
        BY <1>2, <1>3 DEF Owns
    <2>2. Owns(c) => rec.policy /\ (p = "pause" => ~Paused)
        BY DEF ControlInv, ControllerInv, Owner, At, Working
    <2>3. p \notin Working \/ p = "pause"
        BY DEF Working
    <2> QED
        BY <1>2, <1>3, <2>1, <2>2, <2>3 DEF Owner, At, Paused
<1>5. Deciding(c)'
    BY <1>2, <1>3 DEF Deciding, Found, At
<1>6. Drained(c)'
    <2>1. Quiet(c)' => Quiet(c)
        BY <1>2, <1>3 DEF Quiet, At
    <2>2. Drained(c)
        BY DEF ControlInv, ControllerInv
    <2> QED
        BY <2>1, <2>2 DEF Drained, Still, RunningSessions
<1>7. r.pc \notin Turn
    BY <1>2 DEF Turn, Working
<1>8. excused \subseteq excused' /\ excused' \subseteq {"survivor", "patched", "unreadable"}
    BY DEF ControlInv, TypeOK
<1> QED
    BY <1>1, <1>2, <1>4, <1>5, <1>6, <1>7, <1>8, Apart, FaultsKept DEF r

LEMMA CheckStep ==
    ASSUME ControlInv, NEW c \in Controllers, Check(c) PROVE ControlInv'
<1>1. /\ At(c, "check") /\ Live(c) /\ ~At(c, "bind") /\ ctl[c].pc \in Working
      /\ UNCHANGED <<rec, part, leases, sess, dec, launcher, cancel, faults, excused>>
    BY DEF Check, At, Live, Working
<1>2. Owns(c) => ~Paused
    BY <1>1 DEF ControlInv, ControllerInv, Owner
<1> DEFINE ks == Pending("PAUSE")
<1>3. CASE Return(c, "fail")
    BY <1>1, <1>3, FailsStep
<1>4. CASE Return(c, IF Paused THEN "await" ELSE "work") /\ ~Paused
    BY <1>1, <1>4, WorksStep
<1>5. CASE Return(c, "await") /\ Paused
    <2>1. "await" \in Pcs
        BY DEF Pcs
    <2> DEFINE r == Blank("await", ctl[c].epoch)
    <2>2. /\ Becomes(c, r) /\ r \in Controller /\ r.pc = "await" /\ r.epoch = ctl[c].epoch
        BY <1>5, <2>1, Returned, HeldEpoch, BlankController
    <2> HIDE DEF r
    <2>3. ctl'[c] = r
        BY <2>2, Moved DEF ControlInv, TypeOK, ControllersOK
    <2>4. Owner(c)'
        BY <1>1, <1>2, <1>5, <2>2, <2>3 DEF Owner, Owns
    <2>5. Deciding(c)' /\ Drained(c)' /\ r.pc \notin Turn
        BY <2>2, <2>3 DEF Deciding, Drained, Quiet, At, Turn, Working
    <2>6. excused \subseteq excused' /\ excused' \subseteq {"survivor", "patched", "unreadable"}
        BY <1>1 DEF ControlInv, TypeOK
    <2> QED
        BY <1>1, <2>2, <2>4, <2>5, <2>6, Apart, FaultsKept
<1>6. CASE /\ ks # {} /\ ctl[c].quiet
           /\ Becomes(c, [ctl[c] EXCEPT !.pc = "pause", !.call = CHOOSE k \in ks : TRUE])
    <2> DEFINE k == CHOOSE k \in ks : TRUE
    <2>1. k \in ks
        BY <1>6
    <2>2. k \in Calls /\ dec[k].st = "live" /\ dec[k].cmd = "PAUSE"
        BY <2>1 DEF Pending
    <2>3. Becomes(c, [ctl[c] EXCEPT !.pc = "pause", !.call = k])
        BY <1>6
    <2> HIDE DEF k
    <2> QED
        BY <1>1, <1>6, <2>2, <2>3, FindsStep
<1> QED
    BY <1>3, <1>4, <1>5, <1>6 DEF Check

LEMMA AwaitStep ==
    ASSUME ControlInv, NEW c \in Controllers, Await(c) PROVE ControlInv'
<1>1. /\ At(c, "await") /\ Live(c) /\ ~At(c, "bind")
      /\ UNCHANGED <<rec, part, leases, sess, dec, launcher, cancel, faults, excused>>
    BY DEF Await, At, Live
<1>2. CASE Return(c, "fail")
    BY <1>1, <1>2, FailsStep
<1>3. CASE ~Paused /\ Return(c, "work")
    BY <1>1, <1>3, WorksStep
<1>4. CASE \E k \in Pending("RESUME") : Becomes(c, [ctl[c] EXCEPT !.pc = "resume", !.call = k])
    <2>1. PICK k \in Pending("RESUME") : Becomes(c, [ctl[c] EXCEPT !.pc = "resume", !.call = k])
        BY <1>4
    <2>2. k \in Calls /\ dec[k].st = "live" /\ dec[k].cmd = "RESUME"
        BY DEF Pending
    <2> QED
        BY <1>1, <2>1, <2>2, FindsStep
<1> QED
    BY <1>2, <1>3, <1>4 DEF Await


LEMMA ConsumedDecision ==
    ASSUME dec \in [Calls -> Decision], NEW k \in Calls, dec[k].st = "live", Consume(k)
    PROVE  /\ dec' \in [Calls -> Decision] /\ dec'[k].st = "consumed"
           /\ dec'[k].cmd = dec[k].cmd /\ dec'[k].ident = dec[k].ident
           /\ \A j \in Calls : j # k => dec'[j] = dec[j]
<1>1. dec[k] \in [st : {"asked", "live", "consumed"}, cmd : {"PAUSE", "RESUME"},
                  actor : Actors, ident : Identity]
    <2>1. dec[k] \in Decision
        OBVIOUS
    <2> QED
        BY <2>1 DEF Decision
<1> DEFINE r == [dec[k] EXCEPT !.st = "consumed"]
<1>2. /\ r \in [st : {"asked", "live", "consumed"}, cmd : {"PAUSE", "RESUME"},
                actor : Actors, ident : Identity]
      /\ r.st = "consumed" /\ r.cmd = dec[k].cmd /\ r.ident = dec[k].ident
    BY <1>1
<1>3. r \in Decision
    BY <1>2 DEF Decision
<1>4. dec' = [dec EXCEPT ![k] = r]
    BY DEF Consume
<1> HIDE DEF r
<1> QED
    BY <1>2, <1>3, <1>4

LEMMA AppliedDecision ==
    ASSUME dec \in [Calls -> Decision], NEW k \in Calls, Applied(k)
    PROVE  /\ dec' \in [Calls -> Decision] /\ dec'[k].st = "applied"
           /\ \A j \in Calls : j # k => dec'[j] = dec[j]
<1> DEFINE r == [st |-> "applied"]
<1>1. r \in Decision /\ r.st = "applied"
    BY DEF Decision
<1>2. dec' = [dec EXCEPT ![k] = r]
    BY DEF Applied
<1> HIDE DEF r
<1> QED
    BY <1>1, <1>2

\* c consumes the decision it found and goes to commit it.
LEMMA ConsumesStep ==
    ASSUME ControlInv, NEW c \in Controllers, NEW p, NEW cmd,
           \/ At(c, "pause") /\ p = "commitPause" /\ cmd = "PAUSE" /\ rec.pause = None
           \/ At(c, "resume") /\ p = "commitResume" /\ cmd = "RESUME" /\ Paused,
           Owns(c), Consumable(ctl[c].call), Consume(ctl[c].call), Goto(c, p),
           UNCHANGED <<rec, part, leases, sess, launcher, cancel, faults, excused>>
    PROVE  ControlInv'
<1>1. Live(c) /\ p \in Pcs
    BY DEF At, Live, Pcs, Working
<1> DEFINE k == ctl[c].call
<1>2. k \in Calls /\ dec[k].st = "live" /\ dec[k].cmd = cmd /\ dec[k].ident = Ident
    BY DEF ControlInv, ControllerInv, Deciding, Found, Consumable, Bound
<1>3. Consume(k)
    OBVIOUS
<1> HIDE DEF k
<1>4. /\ dec' \in [Calls -> Decision] /\ dec'[k].st = "consumed"
      /\ dec'[k].cmd = cmd /\ dec'[k].ident = Ident
      /\ \A j \in Calls : j # k => dec'[j] = dec[j]
    BY <1>2, <1>3, ConsumedDecision DEF ControlInv, TypeOK
<1> DEFINE r == Moving(c, p)
<1>5. Becomes(c, r) /\ r \in Controller /\ r.pc = p /\ r.epoch = ctl[c].epoch /\ r.call = k
    BY <1>1, MovingController DEF ControlInv, Goto, Moving, k
<1> HIDE DEF r
<1>6. /\ ctl'[c] = r
      /\ \A d \in Controllers : d # c => ctl'[d] = ctl[d]
    BY <1>5, Moved DEF ControlInv, TypeOK, ControllersOK
<1>7. Owns(c)' /\ Ident' = Ident
    BY <1>5, <1>6 DEF Owns, Ident
<1>8. ByOwner(c)
    BY <1>2, <1>4 DEF ByOwner
<1>9. Owner(c)'
    <2>1. rec.policy
        BY DEF ControlInv, ControllerInv, Owner, At
    <2> QED
        BY <1>5, <1>6, <2>1 DEF Owner, At, Paused, Working
<1>10. Deciding(c)'
    <2>1. Found(c, cmd)' /\ Consumed(c, cmd)'
        BY <1>2, <1>4, <1>5, <1>6, <1>7 DEF Found, Consumed
    <2> QED
        BY <1>5, <1>6, <2>1 DEF Deciding, At, Paused
<1>11. Drained(c)'
    <2>1. Quiet(c)' => Quiet(c)
        BY <1>5, <1>6 DEF Quiet, At
    <2>2. Drained(c)
        BY DEF ControlInv, ControllerInv
    <2> QED
        BY <2>1, <2>2 DEF Drained, Still, RunningSessions
<1>12. r.pc \notin Turn
    BY <1>5 DEF Turn, Working
<1>13. Silent'
    BY <1>6, <1>12 DEF ControlInv, Silent, Still, RunningSessions
<1>14. /\ RecordOK' /\ rec'.exec >= rec.exec
       /\ part' \in [Sessions -> {"absent", "idle", "RUNNING", "terminal"}]
       /\ excused \subseteq excused' /\ excused' \subseteq {"survivor", "patched", "unreadable"}
    BY DEF ControlInv, TypeOK, RecordOK
<1> QED
    BY <1>1, <1>4, <1>5, <1>8, <1>9, <1>10, <1>11, <1>12, <1>13, <1>14, Aside, FaultsKept

LEMMA ConsumePauseStep ==
    ASSUME ControlInv, NEW c \in Controllers, ConsumePause(c) PROVE ControlInv'
<1>1. /\ At(c, "pause") /\ Live(c) /\ ~At(c, "bind") /\ ctl[c].pc \in Working
      /\ UNCHANGED <<rec, part, leases, sess, launcher, cancel, faults, excused>>
    BY DEF ConsumePause, At, Live, Working
<1>2. Owns(c) => ~Paused
    BY <1>1 DEF ControlInv, ControllerInv, Owner
<1>3. CASE Return(c, "fail") /\ UNCHANGED dec
    BY <1>1, <1>3, FailsStep
<1>4. CASE Owns(c) /\ Return(c, IF Paused THEN "await" ELSE "work") /\ UNCHANGED dec
    BY <1>1, <1>2, <1>4, WorksStep
<1>5. CASE /\ Owns(c) /\ rec.pause = None /\ Consumable(ctl[c].call) /\ Consume(ctl[c].call)
           /\ Goto(c, "commitPause")
    BY <1>1, <1>5, ConsumesStep
<1> QED
    BY <1>3, <1>4, <1>5 DEF ConsumePause

LEMMA ConsumeResumeStep ==
    ASSUME ControlInv, NEW c \in Controllers, ConsumeResume(c) PROVE ControlInv'
<1>1. /\ At(c, "resume") /\ Live(c) /\ ~At(c, "bind")
      /\ UNCHANGED <<rec, part, leases, sess, launcher, cancel, faults, excused>>
    BY DEF ConsumeResume, At, Live
<1>2. CASE Return(c, "fail") /\ UNCHANGED dec
    BY <1>1, <1>2, FailsStep
<1>3. CASE ~Paused /\ Return(c, "work") /\ UNCHANGED dec
    BY <1>1, <1>3, WorksStep
<1>4. CASE /\ Owns(c) /\ Paused /\ Consumable(ctl[c].call) /\ Consume(ctl[c].call)
           /\ Goto(c, "commitResume")
    BY <1>1, <1>4, ConsumesStep
<1> QED
    BY <1>2, <1>3, <1>4 DEF ConsumeResume


\* The owner c writes the record and goes on to r.
LEMMA WritesStep ==
    ASSUME ControlInv, NEW c \in Controllers, Live(c), Owns(c), NEW r \in Controller, Becomes(c, r),
           IF r.pc \in {"dead", "done"} THEN r.epoch = 0 ELSE r.epoch = ctl[c].epoch,
           r.pc \notin Turn \cup {"pause", "resume", "commitPause", "commitResume", "check"},
           UNCHANGED <<leases, sess, launcher, cancel, faults, excused>>,
           RecordOK', rec'.exec >= rec.exec, rec'.owner = rec.owner, rec'.epoch = rec.epoch,
           \/ dec' = dec
           \/ (\E k \in Calls : Applied(k)),
           \/ part' = part
           \/ part' = [s \in Sessions |-> IF part[s] = "absent" THEN "absent" ELSE "terminal"],
           excused = {} /\ rec'.pause # None =>
              rec'.phase = "PAUSED" /\ (rec.pause # None \/ (leases = {} /\ Still)),
           r.pc \notin {"dead", "done"} =>
              /\ r.pc # "bind" /\ rec'.policy
              /\ r.pc = "rebind" => rec'.pause # None
              /\ Paused' => r.pc \notin Working
              /\ r.pc = "await" /\ Paused' => rec'.pause = Ident'
    PROVE  ControlInv'
<1>1. /\ ctl'[c] = r
      /\ \A d \in Controllers : d # c => ctl'[d] = ctl[d]
    BY Moved DEF ControlInv, TypeOK, ControllersOK
<1>2. Deciding(c)' /\ Drained(c)'
    BY <1>1 DEF Deciding, Drained, Quiet, At
<1>3. /\ part' \in [Sessions -> {"absent", "idle", "RUNNING", "terminal"}]
      /\ excused \subseteq excused' /\ excused' \subseteq {"survivor", "patched", "unreadable"}
      /\ \A s \in Sessions : part'[s] = "RUNNING" => part[s] = "RUNNING"
    BY DEF ControlInv, TypeOK
<1>4. dec' \in [Calls -> Decision] /\ ByOwner(c)
    <2>1. CASE dec' = dec
        BY <2>1 DEF ByOwner, ControlInv, TypeOK
    <2>2. CASE \E k \in Calls : Applied(k)
        <3>1. PICK k \in Calls : Applied(k)
            BY <2>2
        <3> QED
            BY <3>1, AppliedDecision DEF ByOwner, ControlInv, TypeOK
    <2> QED
        BY <2>1, <2>2
<1>5. Silent'
    <2> SUFFICES ASSUME excused' = {}, rec'.pause # None PROVE Silent'
        BY DEF Silent
    <2>1. Still
        BY DEF ControlInv, Silent
    <2>2. Still'
        BY <1>3, <2>1 DEF Still, RunningSessions
    <2>3. \A d \in Controllers : d # c => ~Live(d)
        BY DEF ControlInv, Lone, Fenced
    <2>4. \A d \in Controllers : ctl'[d].pc \notin Turn
        BY <1>1, <2>3 DEF Live, Turn, Working
    <2> QED
        BY <2>2, <2>4 DEF Silent
<1>6. Owner(c)'
    <2>1. rec'.epoch # 0
        BY DEF ControlInv, TypeOK, RecordOK
    <2>2. Owns(c)' => r.pc \notin {"dead", "done"}
        BY <1>1, <2>1 DEF Owns
    <2> QED
        BY <1>1, <2>2 DEF Owner, At
<1> QED
    BY <1>2, <1>3, <1>4, <1>5, <1>6, Aside, FaultsKept


LEMMA RecordHeld ==
    ASSUME ControlInv
    PROVE  rec \in [status : {"QUEUED", "RUNNING"} \cup Terminal, phase : {"active", "PAUSED"},
                    epoch : 1..MaxEpoch, owner : Controllers \cup {Canceller, None},
                    exec : 1..MaxExec, policy : BOOLEAN, pause : Identity \cup {None}]
           /\ Ident \in Identity /\ rec.exec \in Nat
BY DEF ControlInv, TypeOK, RecordOK, Ident, Identity

LEMMA Committing ==
    ASSUME ControlInv, NEW c \in Controllers, At(c, "commitPause") \/ At(c, "commitResume")
    PROVE  /\ Owns(c) /\ ctl[c].call \in Calls /\ rec.policy
           /\ At(c, "commitPause") => rec.pause = None
BY DEF ControlInv, ControllerInv, Deciding, Consumed, Found, Owner, At

LEMMA CommitPauseStep ==
    ASSUME ControlInv, NEW c \in Controllers, CommitPause(c) PROVE ControlInv'
<1>1. /\ At(c, "commitPause") /\ Live(c) /\ "await" \in Pcs
      /\ rec' = [rec EXCEPT !.phase = "PAUSED", !.pause = Ident]
      /\ UNCHANGED <<part, leases, sess, launcher, cancel, faults, excused>>
    BY DEF CommitPause, At, Live, Pcs
<1>2. Owns(c) /\ ctl[c].call \in Calls /\ rec.policy
    BY <1>1, Committing
<1>3. Applied(ctl[c].call) /\ Return(c, "await")
    BY DEF CommitPause
<1>4. /\ RecordOK' /\ rec'.exec = rec.exec /\ rec'.owner = rec.owner /\ rec'.epoch = rec.epoch
      /\ rec'.phase = "PAUSED" /\ rec'.policy = rec.policy /\ rec'.pause = Ident
    BY <1>1, RecordHeld DEF RecordOK
<1>5. rec'.exec >= rec.exec /\ rec'.pause = Ident'
    BY <1>4, RecordHeld DEF Ident
<1> DEFINE r == Blank("await", ctl[c].epoch)
<1>6. Becomes(c, r) /\ r \in Controller /\ r.pc = "await" /\ r.epoch = ctl[c].epoch
    BY <1>1, <1>3, Returned, HeldEpoch, BlankController
<1> HIDE DEF r
<1>7. r.pc \notin Turn \cup Working
    BY <1>6 DEF Turn, Working
<1>8. excused = {} => leases = {} /\ Still
    BY <1>1 DEF ControlInv, ControllerInv, Drained, Quiet, At
<1> QED
    BY <1>1, <1>2, <1>3, <1>4, <1>5, <1>6, <1>7, <1>8, WritesStep

LEMMA CommitResumeStep ==
    ASSUME ControlInv, NEW c \in Controllers, CommitResume(c) PROVE ControlInv'
<1>1. /\ At(c, "commitResume") /\ Live(c) /\ "work" \in Pcs
      /\ rec' = [rec EXCEPT !.phase = "active", !.pause = None]
      /\ UNCHANGED <<part, leases, sess, launcher, cancel, faults, excused>>
    BY DEF CommitResume, At, Live, Pcs, Working
<1>2. Owns(c) /\ ctl[c].call \in Calls /\ rec.policy
    BY <1>1, Committing
<1>3. Applied(ctl[c].call) /\ Return(c, "work")
    BY DEF CommitResume
<1>4. /\ RecordOK' /\ rec'.exec = rec.exec /\ rec'.owner = rec.owner /\ rec'.epoch = rec.epoch
      /\ rec'.phase = "active" /\ rec'.policy = rec.policy /\ rec'.pause = None
    BY <1>1, RecordHeld DEF RecordOK
<1>5. rec'.exec >= rec.exec /\ ~Paused'
    BY <1>4, RecordHeld DEF Paused
<1> DEFINE r == Blank("work", ctl[c].epoch)
<1>6. Becomes(c, r) /\ r \in Controller /\ r.pc = "work" /\ r.epoch = ctl[c].epoch
    BY <1>1, <1>3, Returned, HeldEpoch, BlankController
<1> HIDE DEF r
<1>7. r.pc \notin Turn
    BY <1>6 DEF Turn, Working
<1> QED
    BY <1>1, <1>2, <1>3, <1>4, <1>5, <1>6, <1>7, WritesStep

LEMMA BindStep ==
    ASSUME ControlInv, NEW c \in Controllers, Bind(c) PROVE ControlInv'
<1>1. /\ At(c, "bind") /\ Live(c)
      /\ UNCHANGED <<part, leases, sess, dec, launcher, cancel, faults, excused>>
    BY DEF Bind, At, Live
<1>2. CASE ~Owns(c) /\ Return(c, "fail") /\ UNCHANGED rec
    BY <1>1, <1>2, FailsStep
<1>3. CASE /\ Owns(c) /\ rec' = [rec EXCEPT !.policy = TRUE]
           /\ Goto(c, IF rec.pause = None THEN "work" ELSE "rebind")
    <2> DEFINE p == IF rec.pause = None THEN "work" ELSE "rebind"
               r == Moving(c, p)
    <2>1. p \in Pcs /\ p \notin Turn /\ p \in {"work", "rebind"} /\ "rebind" \notin Working
        BY DEF Pcs, Turn, Working
    <2>2. p = IF rec.pause = None THEN "work" ELSE "rebind"
        OBVIOUS
    <2>3. Becomes(c, r)
        BY <1>3 DEF Goto, Moving
    <2> HIDE DEF p
    <2>4. r \in Controller /\ r.pc = p /\ r.epoch = ctl[c].epoch
        BY <2>1, MovingController DEF ControlInv
    <2> HIDE DEF r
    <2>5. /\ RecordOK' /\ rec'.exec = rec.exec /\ rec'.owner = rec.owner /\ rec'.epoch = rec.epoch
          /\ rec'.phase = rec.phase /\ rec'.policy /\ rec'.pause = rec.pause
        BY <1>3, RecordHeld DEF RecordOK
    <2>6. rec'.exec >= rec.exec /\ (Paused' <=> Paused) /\ (Paused => rec.pause # None)
        BY <2>5, RecordHeld DEF Paused
    <2>7. rec.owner # Canceller
        BY <1>3, NamesDiffer DEF Owns
    <2>8. excused = {} /\ rec'.pause # None => rec'.phase = "PAUSED" /\ rec.pause # None
        BY <2>5, <2>7 DEF ControlInv, Silent
    <2>9. IF r.pc \in {"dead", "done"} THEN r.epoch = 0 ELSE r.epoch = ctl[c].epoch
        BY <2>1, <2>4
    <2>10. r.pc \notin Turn \cup {"pause", "resume", "commitPause", "commitResume", "check"}
        BY <2>1, <2>4
    <2>11. r.pc \notin {"dead", "done"} =>
              /\ r.pc # "bind" /\ rec'.policy
              /\ r.pc = "rebind" => rec'.pause # None
              /\ Paused' => r.pc \notin Working
              /\ r.pc = "await" /\ Paused' => rec'.pause = Ident'
        BY <2>1, <2>2, <2>4, <2>5, <2>6
    <2> QED
        BY <1>1, <1>3, <2>3, <2>4, <2>5, <2>6, <2>8, <2>9, <2>10, <2>11, WritesStep
<1> QED
    BY <1>2, <1>3 DEF Bind

LEMMA RebindPauseStep ==
    ASSUME ControlInv, NEW c \in Controllers, RebindPause(c) PROVE ControlInv'
<1>1. /\ At(c, "rebind") /\ ~At(c, "bind") /\ Live(c) /\ "await" \in Pcs
      /\ UNCHANGED <<part, leases, sess, dec, launcher, cancel, faults, excused>>
    BY DEF RebindPause, At, Live, Pcs
<1>2. CASE ~Owns(c) /\ Return(c, "fail") /\ UNCHANGED rec
    BY <1>1, <1>2, FailsStep
<1>3. CASE /\ Owns(c)
           /\ rec' = IF rec.phase = "PAUSED" THEN [rec EXCEPT !.pause = Ident] ELSE rec
           /\ Return(c, "await")
    <2> DEFINE r == Blank("await", ctl[c].epoch)
    <2>1. Becomes(c, r) /\ r \in Controller /\ r.pc = "await" /\ r.epoch = ctl[c].epoch
        BY <1>1, <1>3, Returned, HeldEpoch, BlankController
    <2> HIDE DEF r
    <2>2. rec.policy /\ rec.pause # None
        BY <1>1, <1>3 DEF ControlInv, ControllerInv, Owner, At
    <2>3. /\ RecordOK' /\ rec'.exec = rec.exec /\ rec'.owner = rec.owner /\ rec'.epoch = rec.epoch
          /\ rec'.phase = rec.phase /\ rec'.policy = rec.policy
          /\ rec.phase = "PAUSED" => rec'.pause = Ident
        BY <1>3, RecordHeld DEF RecordOK
    <2>4. rec'.exec >= rec.exec /\ (Paused' => rec'.pause = Ident')
        BY <2>3, RecordHeld DEF Paused, Ident
    <2>5. rec.owner # Canceller
        BY <1>3, NamesDiffer DEF Owns
    <2>6. excused = {} => rec'.phase = "PAUSED"
        BY <2>2, <2>3, <2>5 DEF ControlInv, Silent
    <2>7. r.pc \notin Turn \cup Working
        BY <2>1 DEF Turn, Working
    <2> QED
        BY <1>1, <1>3, <2>1, <2>2, <2>3, <2>4, <2>6, <2>7, WritesStep
<1> QED
    BY <1>2, <1>3 DEF RebindPause


LEMMA NextStageStep ==
    ASSUME ControlInv, NEW c \in Controllers, NextStage(c) PROVE ControlInv'
<1>1. /\ ctl[c].pc = "work" /\ Live(c) /\ Owns(c) /\ ctl[c].pc \in Working /\ ctl[c].pc \notin Turn
      /\ UNCHANGED <<part, leases, sess, ctl, dec, launcher, cancel, faults, excused>>
    BY DEF NextStage, At, Live, Current, Working, Turn
<1>2. PICK e \in {rec.exec, rec.exec + 1} :
          e <= MaxExec /\ rec' = [rec EXCEPT !.phase = "active", !.exec = e]
    BY DEF NextStage
<1>3. e \in 1 .. MaxExec /\ e >= rec.exec
    <2>1. rec.exec \in 1 .. MaxExec /\ MaxExec \in Nat
        BY RecordHeld, ControlAssumption
    <2> QED
        BY <1>2, <2>1
<1>4. /\ RecordOK' /\ rec'.exec = e /\ rec'.owner = rec.owner /\ rec'.epoch = rec.epoch
      /\ rec'.phase = "active" /\ rec'.policy = rec.policy /\ rec'.pause = rec.pause
    BY <1>2, <1>3, RecordHeld DEF RecordOK
<1>5. rec.policy /\ ~Paused'
    BY <1>1, <1>4 DEF ControlInv, ControllerInv, Owner, At, Paused
<1>6. excused = {} => rec.pause = None
    BY <1>1, NoPauseAtWork
<1> DEFINE r == ctl[c]
<1>7. r \in Controller /\ Becomes(c, r)
    BY <1>1, HeldEpoch DEF Becomes, ControlInv, TypeOK, ControllersOK
<1> QED
    BY <1>1, <1>3, <1>4, <1>5, <1>6, <1>7, WritesStep

LEMMA FinishStep ==
    ASSUME ControlInv, NEW c \in Controllers, Finish(c) PROVE ControlInv'
<1>1. /\ ctl[c].pc = "work" /\ Live(c) /\ Owns(c) /\ ctl[c].pc \in Working
      /\ rec' = [rec EXCEPT !.status = "SUCCEEDED", !.phase = "active"]
      /\ part' = [s \in Sessions |-> IF part[s] = "absent" THEN "absent" ELSE "terminal"]
      /\ UNCHANGED <<leases, sess, dec, launcher, cancel, faults, excused>>
    BY DEF Finish, At, Live, Current, Working
<1>2. /\ RecordOK' /\ rec'.exec = rec.exec /\ rec'.owner = rec.owner /\ rec'.epoch = rec.epoch
      /\ rec'.pause = rec.pause
    BY <1>1, RecordHeld DEF RecordOK, Terminal
<1>3. rec'.exec >= rec.exec
    BY <1>2, RecordHeld
<1>4. excused = {} => rec.pause = None
    BY <1>1, NoPauseAtWork
<1> DEFINE r == Halt("done")
<1>5. r \in Controller /\ Becomes(c, r) /\ r.pc = "done" /\ r.epoch = 0
    BY HaltedController DEF Finish, Stop, Halt, Pcs
<1> HIDE DEF r
<1>6. r.pc \notin Turn
    BY <1>5 DEF Turn, Working
<1> QED
    BY <1>1, <1>2, <1>3, <1>4, <1>5, <1>6, WritesStep

LEMMA FailStep ==
    ASSUME ControlInv, NEW c \in Controllers, Fail(c) PROVE ControlInv'
<1>1. /\ ctl[c].pc = "fail" /\ Live(c)
      /\ UNCHANGED <<leases, sess, dec, launcher, cancel, faults, excused>>
    BY DEF Fail, At, Live
<1> DEFINE r == Halt("done")
<1>2. r \in Controller /\ Becomes(c, r) /\ r.pc = "done" /\ r.epoch = 0
    BY HaltedController DEF Fail, Stop, Halt, Pcs
<1> HIDE DEF r
<1>3. CASE UNCHANGED <<rec, part>>
    BY <1>1, <1>2, <1>3, GivesWay, FaultsKept
<1>4. CASE /\ Owns(c) /\ rec' = [rec EXCEPT !.status = "FAILED"]
           /\ part' = [s \in Sessions |-> IF part[s] = "absent" THEN "absent" ELSE "terminal"]
    <2>1. /\ RecordOK' /\ rec'.exec = rec.exec /\ rec'.owner = rec.owner /\ rec'.epoch = rec.epoch
          /\ rec'.pause = rec.pause /\ rec'.phase = rec.phase
        BY <1>4, RecordHeld DEF RecordOK, Terminal
    <2>2. rec'.exec >= rec.exec
        BY <2>1, RecordHeld
    <2>3. rec.owner # Canceller
        BY <1>4, NamesDiffer DEF Owns
    <2>4. excused = {} /\ rec'.pause # None => rec'.phase = "PAUSED" /\ rec.pause # None
        BY <2>1, <2>3 DEF ControlInv, Silent
    <2>5. r.pc \notin Turn
        BY <1>2 DEF Turn, Working
    <2> QED
        BY <1>1, <1>2, <1>4, <2>1, <2>2, <2>4, <2>5, WritesStep
<1> QED
    BY <1>3, <1>4 DEF Fail

LEMMA BeginTurnStep ==
    ASSUME ControlInv, NEW c \in Controllers, NEW q \in Roles, NEW s \in Sessions,
           BeginTurn(c, q, s)
    PROVE  ControlInv'
<1>1. /\ ctl[c].pc = "work" /\ Live(c) /\ Owns(c) /\ ctl[c].pc \in Working
      /\ UNCHANGED <<rec, leases, sess, dec, launcher, cancel, excused>>
    BY DEF BeginTurn, At, Live, Current, Working
<1> DEFINE r == [ctl[c] EXCEPT !.pc = "takeover", !.role = q, !.session = s,
                               !.known = (sess[s] # "absent")]
<1>2. /\ r \in Controller /\ r.pc = "takeover" /\ r.epoch = ctl[c].epoch
      /\ r.role = q /\ r.session = s
    BY HeldEpoch DEF Controller, Pcs, Working
<1>3. Becomes(c, r)
    BY DEF BeginTurn
<1> HIDE DEF r
<1>4. ctl'[c] = r
    BY <1>2, <1>3, Moved DEF ControlInv, TypeOK, ControllersOK
<1>5. /\ part' \in [Sessions -> {"absent", "idle", "RUNNING", "terminal"}]
      /\ faults' \in 0 .. MaxFaults
    BY FaultsTyped DEF BeginTurn, ControlInv, TypeOK
<1>6. excused = {} => rec.pause = None
    BY <1>1, NoPauseAtWork
<1>7. Silent'
    BY <1>1, <1>6 DEF Silent
<1>8. Owner(c)'
    <2>1. rec.policy /\ ~Paused
        BY <1>1 DEF ControlInv, ControllerInv, Owner, At
    <2> QED
        BY <1>1, <1>2, <1>4, <2>1 DEF Owner, At, Paused
<1>9. Deciding(c)' /\ Drained(c)'
    BY <1>2, <1>4 DEF Deciding, Drained, Quiet, At
<1>10. /\ RecordOK' /\ rec'.exec >= rec.exec /\ dec' \in [Calls -> Decision] /\ ByOwner(c)
       /\ excused \subseteq excused' /\ excused' \subseteq {"survivor", "patched", "unreadable"}
    BY <1>1 DEF ControlInv, TypeOK, RecordOK, ByOwner
<1> QED
    BY <1>1, <1>2, <1>3, <1>5, <1>7, <1>8, <1>9, <1>10, Aside


-----------------------------------------------------------------------------
(***************************************************************************)
(* Everybody else.                                                         *)
(***************************************************************************)

LEMMA ExecuteStep ==
    ASSUME ControlInv, NEW c \in Controllers, Execute(c) PROVE ControlInv'
<1> DEFINE e == IF rec.owner = None THEN 1 ELSE rec.epoch + 1
           r == [Off EXCEPT !.pc = "bind", !.epoch = e]
<1>1. /\ ctl[c].pc = "off" /\ ~Locked
      /\ rec.owner = None \/ (OwnerDead /\ rec.epoch < MaxEpoch)
      /\ rec' = [rec EXCEPT !.status = "RUNNING", !.owner = c, !.epoch = e, !.policy = FALSE,
                            !.phase = IF rec.pause = None THEN "active" ELSE "PAUSED"]
      /\ Becomes(c, r)
      /\ excused' = IF \E d \in Controllers : Live(d) THEN excused \cup {"survivor"} ELSE excused
      /\ UNCHANGED <<part, leases, sess, dec, cancel, faults>>
    BY DEF Execute, At
<1>2. e \in 1 .. MaxEpoch /\ e \in Nat /\ e >= rec.epoch /\ rec.epoch \in Nat
    <2>1. rec.epoch \in 1 .. MaxEpoch /\ MaxEpoch \in Nat \ {0}
        BY RecordHeld, ControlAssumption
    <2>2. rec.owner = None => rec.epoch = 1
        BY DEF ControlInv, Claimed
    <2> QED
        BY <1>1, <2>1, <2>2
<1> HIDE DEF e
<1>3. r \in Controller /\ r.pc = "bind" /\ r.epoch = e
    BY <1>2 DEF Off, Controller, Pcs
<1> HIDE DEF r
<1>4. /\ ctl' \in [Controllers -> Controller] /\ ctl'[c] = r
      /\ \A d \in Controllers : d # c => ctl'[d] = ctl[d]
    BY <1>1, <1>3, Moved DEF ControlInv, TypeOK, ControllersOK
<1>5. /\ RecordOK' /\ rec'.epoch = e /\ rec'.owner = c /\ rec'.exec = rec.exec
      /\ rec'.pause = rec.pause /\ (rec.pause # None => rec'.phase = "PAUSED")
    BY <1>1, <1>2, RecordHeld DEF RecordOK
<1>6. /\ excused \subseteq excused' /\ excused' \subseteq {"survivor", "patched", "unreadable"}
      /\ launcher' \in BOOLEAN
    BY <1>1 DEF ControlInv, TypeOK, Execute
<1>7. Fenced' => Fenced /\ \A d \in Controllers : ~Live(d)
    BY <1>1 DEF Fenced
<1>8. TypeOK'
    <2>1. 1 .. rec.epoch \subseteq 1 .. e /\ 0 .. rec.epoch \subseteq 0 .. e
        BY <1>2
    <2>2. LeasesOK'
        BY <1>1, <1>5, <2>1 DEF ControlInv, TypeOK, LeasesOK
    <2>3. e \in 0 .. e /\ e # 0 /\ "bind" \notin Turn
        BY <1>2 DEF Turn, Working
    <2>4. ControllersOK'
        BY <1>3, <1>4, <1>5, <2>1, <2>3 DEF ControlInv, TypeOK, ControllersOK, Live
    <2> QED
        BY <1>1, <1>5, <1>6, <2>2, <2>4 DEF ControlInv, TypeOK
<1>9. Claimed'
    BY <1>1, <1>5, NamesDiffer, ControlAssumption DEF ControlInv, Claimed, OwnerDead
<1>10. Lone'
    BY <1>4, <1>7 DEF Lone, Live, Fenced
<1>11. Covered'
    BY <1>1, <1>7 DEF ControlInv, Covered, RunningSessions
<1>12. Silent'
    <2> SUFFICES ASSUME excused' = {}, rec'.pause # None PROVE Silent'
        BY DEF Silent
    <2>1. excused = {} /\ Fenced'
        BY <1>6 DEF Fenced
    <2>2. Still'
        BY <1>1, <1>5, <2>1 DEF ControlInv, Silent, Still, RunningSessions
    <2>3. \A d \in Controllers : ctl'[d].pc \notin Turn
        BY <1>3, <1>4, <1>7, <2>1 DEF Live, Turn, Working
    <2> QED
        BY <1>5, <2>2, <2>3 DEF Silent
<1>13. ControllerInv(c)'
    BY <1>3, <1>4 DEF ControllerInv, Owner, Deciding, InTurn, Drained, Quiet, At, Working
<1>14. ASSUME NEW d \in Controllers, d # c PROVE ControllerInv(d)'
    <2>1. ctl'[d] = ctl[d] /\ ctl[d].pc \notin {"commitPause", "commitResume"}
        BY <1>1, <1>4, <1>14 DEF Locked
    <2>2. Owner(d)'
        BY <1>5, <1>14 DEF Owner, Owns
    <2>3. Deciding(d)'
        BY <1>1, <2>1 DEF ControlInv, ControllerInv, Deciding, Found, At
    <2>4. Fenced' => ctl[d].pc \in {"off", "dead", "done"}
        BY <1>7 DEF Live
    <2>5. excused' = {} => Fenced'
        BY DEF Fenced
    <2>6. InTurn(d)' /\ Drained(d)'
        BY <2>1, <2>4, <2>5 DEF InTurn, Drained, Quiet, At
    <2> QED
        BY <2>2, <2>3, <2>6 DEF ControllerInv
<1> QED
    BY <1>8, <1>9, <1>10, <1>11, <1>12, <1>13, <1>14 DEF ControlInv

LEMMA SessionSettlesStep ==
    ASSUME ControlInv, NEW s \in Sessions, SessionSettles(s) PROVE ControlInv'
<1>1. UNCHANGED <<rec, part, leases, ctl, dec, launcher, cancel, faults, excused>>
    BY DEF SessionSettles
<1>2. RunningSessions' \subseteq RunningSessions /\ sess' \in [Sessions -> {"absent", "quiet", "running"}]
    BY DEF SessionSettles, ControlInv, TypeOK, RunningSessions
<1>3. TypeOK'
    BY <1>1, <1>2 DEF ControlInv, TypeOK, RecordOK, LeasesOK, ControllersOK, Live
<1>4. Claimed' /\ Lone'
    BY <1>1 DEF ControlInv, Claimed, Lone, Live, Fenced
<1>5. Covered' /\ (Still => Still')
    BY <1>1, <1>2 DEF ControlInv, Covered, Still, Fenced
<1>6. Silent'
    BY <1>1, <1>5 DEF ControlInv, Silent
<1>7. ASSUME NEW c \in Controllers PROVE ControllerInv(c)'
    <2>1. ControllerInv(c)
        BY DEF ControlInv
    <2>2. Owner(c)' /\ Deciding(c)'
        BY <1>1, <2>1 DEF ControllerInv, Owner, Deciding, Consumed, Found, Owns, Ident, Paused, At
    <2>3. InTurn(c)'
        BY <1>1, <1>2, <2>1 DEF ControllerInv, InTurn, Fenced, Holds
    <2>4. Drained(c)'
        BY <1>1, <1>5, <2>1 DEF ControllerInv, Drained, Quiet, At
    <2> QED
        BY <2>2, <2>3, <2>4 DEF ControllerInv
<1> QED
    BY <1>3, <1>4, <1>5, <1>6, <1>7 DEF ControlInv

\* People only add requests, record them and let them expire.
LEMMA DecisionsStep ==
    ASSUME ControlInv, dec' \in [Calls -> Decision],
           \A k \in Calls : \/ dec'[k] = dec[k]
                            \/ dec[k].st \in {"none", "asked"}
                            \/ dec[k].st = "live" /\ dec'[k].st = "expired",
           UNCHANGED <<rec, part, leases, sess, ctl, launcher, cancel, faults, excused>>
    PROVE  ControlInv'
<1>1. TypeOK'
    BY DEF ControlInv, TypeOK, RecordOK, LeasesOK, ControllersOK, Live
<1>2. Claimed' /\ Lone' /\ Covered' /\ Silent'
    BY DEF ControlInv, Claimed, Lone, Live, Covered, Silent, Still, RunningSessions, Fenced
<1>3. ASSUME NEW c \in Controllers PROVE ControllerInv(c)'
    <2>1. ControllerInv(c)
        BY DEF ControlInv
    <2>2. Owner(c)' /\ InTurn(c)' /\ Drained(c)'
        BY <2>1 DEF ControllerInv, Owner, InTurn, Holds, Drained, Quiet, Still, RunningSessions,
                    Fenced, Owns, Ident, Paused, At
    <2>3. ASSUME NEW cmd, Found(c, cmd) PROVE Found(c, cmd)'
        BY <2>3 DEF Found
    <2>4. ASSUME NEW cmd, Consumed(c, cmd) PROVE Consumed(c, cmd)'
        BY <2>3, <2>4 DEF Consumed, Found, Owns, Ident
    <2>5. Deciding(c)'
        BY <2>1, <2>3, <2>4 DEF ControllerInv, Deciding, At, Paused
    <2> QED
        BY <2>2, <2>5 DEF ControllerInv
<1> QED
    BY <1>1, <1>2, <1>3 DEF ControlInv


LEMMA PeopleStep ==
    ASSUME ControlInv, NEW k \in Calls,
           \/ Record(k) \/ Expire(k)
           \/ \E a \in Actors, cmd \in {"PAUSE", "RESUME"} : Ask(k, a, cmd)
    PROVE  ControlInv'
<1>1. dec \in [Calls -> Decision] /\ dec[k] \in Decision
    BY DEF ControlInv, TypeOK
<1>2. CASE Record(k)
    <2> DEFINE r == [dec[k] EXCEPT !.st = "live"]
    <2>1. dec[k] \in [st : {"asked", "live", "consumed"}, cmd : {"PAUSE", "RESUME"},
                      actor : Actors, ident : Identity]
        BY <1>1, <1>2 DEF Decision, Record
    <2>2. r \in [st : {"asked", "live", "consumed"}, cmd : {"PAUSE", "RESUME"},
                 actor : Actors, ident : Identity]
        BY <2>1
    <2>3. r \in Decision
        BY <2>2 DEF Decision
    <2>4. dec' = [dec EXCEPT ![k] = r]
        BY <1>2 DEF Record
    <2> HIDE DEF r
    <2> QED
        BY <1>1, <1>2, <2>3, <2>4, DecisionsStep DEF Record
<1>3. CASE Expire(k)
    <2> DEFINE r == [st |-> "expired"]
    <2>1. r \in Decision /\ r.st = "expired"
        BY DEF Decision
    <2>2. dec' = [dec EXCEPT ![k] = r]
        BY <1>3 DEF Expire
    <2> HIDE DEF r
    <2> QED
        BY <1>1, <1>3, <2>1, <2>2, DecisionsStep DEF Expire
<1>4. ASSUME NEW a \in Actors, NEW cmd \in {"PAUSE", "RESUME"}, Ask(k, a, cmd) PROVE ControlInv'
    <2> DEFINE r == [st |-> "asked", cmd |-> cmd, actor |-> a, ident |-> Ident]
    <2>1. r \in Decision
        BY RecordHeld DEF Decision
    <2>2. dec' = [dec EXCEPT ![k] = r]
        BY <1>4 DEF Ask
    <2> HIDE DEF r
    <2> QED
        BY <1>1, <1>4, <2>1, <2>2, DecisionsStep DEF Ask
<1> QED
    BY <1>2, <1>3, <1>4

\* Somebody who is not a controller writes the record, while no controller
\* stands between a consumed decision and its commit.
LEMMA PatchStep ==
    ASSUME ControlInv, ~Locked, UNCHANGED <<part, leases, sess, ctl, dec>>,
           RecordOK', rec'.exec = rec.exec, rec'.epoch >= rec.epoch,
           launcher' \in BOOLEAN, cancel' \in {"none", "claimed", "over", "gone"},
           faults' \in 0 .. MaxFaults, excused \subseteq excused',
           excused' \subseteq {"survivor", "patched", "unreadable"},
           Claimed', Silent', \A c \in Controllers : Owner(c)'
    PROVE  ControlInv'
<1>1. TypeOK'
    <2>1. rec.epoch \in Nat /\ rec'.epoch \in Nat
        BY DEF ControlInv, TypeOK, RecordOK
    <2>2. 1 .. rec.epoch \subseteq 1 .. rec'.epoch /\ 0 .. rec.epoch \subseteq 0 .. rec'.epoch
        BY <2>1
    <2>3. LeasesOK' /\ ControllersOK'
        BY <2>2 DEF ControlInv, TypeOK, LeasesOK, ControllersOK, Live
    <2> QED
        BY <2>3 DEF ControlInv, TypeOK
<1>2. Lone' /\ Covered'
    BY DEF ControlInv, Lone, Live, Covered, RunningSessions, Fenced
<1>3. ASSUME NEW c \in Controllers PROVE ControllerInv(c)'
    <2>1. ControllerInv(c) /\ ctl[c].pc \notin {"commitPause", "commitResume"}
        BY DEF ControlInv, Locked
    <2>2. Deciding(c)'
        BY <2>1 DEF ControllerInv, Deciding, Found, At
    <2>3. InTurn(c)' /\ Drained(c)'
        BY <2>1 DEF ControllerInv, InTurn, Holds, Drained, Quiet, Still, RunningSessions, Fenced, At
    <2> QED
        BY <2>2, <2>3 DEF ControllerInv
<1> QED
    BY <1>1, <1>2, <1>3 DEF ControlInv

LEMMA LauncherPatchesStep ==
    ASSUME ControlInv, LauncherPatches PROVE ControlInv'
<1>1. /\ ~Locked /\ rec' = [rec EXCEPT !.phase = "active"] /\ launcher' \in BOOLEAN
      /\ excused' = IF rec'.pause # None THEN excused \cup {"patched"} ELSE excused
      /\ UNCHANGED <<part, leases, sess, ctl, dec, cancel, faults>>
    BY DEF LauncherPatches
<1>2. /\ RecordOK' /\ rec'.exec = rec.exec /\ rec'.epoch = rec.epoch /\ rec'.owner = rec.owner
      /\ rec'.phase = "active" /\ rec'.pause = rec.pause /\ rec'.policy = rec.policy
    BY <1>1, RecordHeld DEF RecordOK
<1>3. rec'.epoch >= rec.epoch
    BY <1>2, RecordHeld
<1>4. /\ excused \subseteq excused' /\ excused' \subseteq {"survivor", "patched", "unreadable"}
      /\ cancel' \in {"none", "claimed", "over", "gone"}
    BY <1>1 DEF ControlInv, TypeOK
<1>5. Claimed' /\ Silent'
    BY <1>1, <1>2 DEF ControlInv, Claimed, Silent
<1>6. ASSUME NEW c \in Controllers PROVE Owner(c)'
    BY <1>1, <1>2 DEF ControlInv, ControllerInv, Owner, Owns, Paused, At
<1> QED
    BY <1>1, <1>2, <1>3, <1>4, <1>5, <1>6, PatchStep, FaultsKept

LEMMA CancelClaimsStep ==
    ASSUME ControlInv, CancelClaims PROVE ControlInv'
<1>1. /\ ~Locked /\ rec.epoch < MaxEpoch /\ cancel' = "claimed"
      /\ rec' = [rec EXCEPT !.owner = Canceller, !.epoch = @ + 1]
      /\ launcher' = FALSE
      /\ UNCHANGED <<part, leases, sess, ctl, dec, faults, excused>>
    BY DEF CancelClaims
<1>2. rec.epoch \in Nat /\ rec.epoch + 1 \in 1 .. MaxEpoch /\ rec.epoch + 1 >= rec.epoch
    BY <1>1, RecordHeld, ControlAssumption
<1>3. /\ RecordOK' /\ rec'.exec = rec.exec /\ rec'.epoch = rec.epoch + 1
      /\ rec'.owner = Canceller /\ rec'.pause = rec.pause
    BY <1>1, <1>2, RecordHeld DEF RecordOK
<1>4. /\ excused \subseteq excused' /\ excused' \subseteq {"survivor", "patched", "unreadable"}
      /\ launcher' \in BOOLEAN
    BY <1>1 DEF ControlInv, TypeOK
<1>5. Claimed'
    BY <1>1, <1>3, ControlAssumption DEF Claimed
<1>6. Silent'
    BY <1>1, <1>3 DEF ControlInv, Silent, Still, RunningSessions
<1>7. ASSUME NEW c \in Controllers PROVE Owner(c)'
    BY <1>3, NamesDiffer DEF Owner, Owns
<1> QED
    BY <1>1, <1>2, <1>3, <1>4, <1>5, <1>6, <1>7, PatchStep, FaultsKept

LEMMA CancelEndsStep ==
    ASSUME ControlInv, CancelEnds PROVE ControlInv'
<1>1. ~Locked /\ cancel' = "over" /\ UNCHANGED <<leases, dec, launcher, excused>>
    BY DEF CancelEnds
<1>2. rec.owner = Canceller
    BY DEF CancelEnds, ControlInv, Claimed
<1>3. CASE rec' = [rec EXCEPT !.phase = "active"] /\ Fault /\ UNCHANGED <<ctl, sess, part>>
    <2>1. /\ RecordOK' /\ rec'.exec = rec.exec /\ rec'.epoch = rec.epoch
          /\ rec'.owner = Canceller /\ rec'.pause = rec.pause
        BY <1>2, <1>3, RecordHeld DEF RecordOK
    <2>2. rec'.epoch >= rec.epoch
        BY <2>1, RecordHeld
    <2>3. /\ excused \subseteq excused' /\ excused' \subseteq {"survivor", "patched", "unreadable"}
          /\ launcher' \in BOOLEAN /\ faults' \in 0 .. MaxFaults
        BY <1>1, <1>3, FaultsTyped DEF ControlInv, TypeOK
    <2>4. Claimed'
        BY <2>1, ControlAssumption DEF Claimed
    <2>5. Silent'
        BY <1>1, <1>3, <2>1 DEF ControlInv, Silent, Still, RunningSessions
    <2>6. ASSUME NEW c \in Controllers PROVE Owner(c)'
        BY <2>1, NamesDiffer DEF Owner, Owns
    <2> QED
        BY <1>1, <1>3, <2>1, <2>2, <2>3, <2>4, <2>5, <2>6, PatchStep
<1>4. CASE /\ rec' = [rec EXCEPT !.status = "CANCELLED", !.phase = "active"]
           /\ ctl' = [c \in Controllers |-> IF Live(c) THEN [Off EXCEPT !.pc = "dead"] ELSE ctl[c]]
           /\ sess' = [s \in Sessions |-> IF sess[s] = "running" THEN "quiet" ELSE sess[s]]
           /\ part' = [s \in Sessions |-> IF part[s] = "absent" THEN "absent" ELSE "terminal"]
           /\ UNCHANGED faults
    <2>1. /\ RecordOK' /\ rec'.exec = rec.exec /\ rec'.epoch = rec.epoch
          /\ rec'.owner = Canceller /\ rec'.pause = rec.pause
        BY <1>2, <1>4, RecordHeld DEF RecordOK, Terminal
    <2>2. /\ RunningSessions' = {} /\ sess' \in [Sessions -> {"absent", "quiet", "running"}]
          /\ part' \in [Sessions -> {"absent", "idle", "RUNNING", "terminal"}]
          /\ Still'
        BY <1>4 DEF ControlInv, TypeOK, RunningSessions, Still
    <2> DEFINE h == Halt("dead")
    <2>3. h \in Controller /\ h.pc = "dead" /\ h.epoch = 0
        BY HaltedController DEF Pcs
    <2>4. ctl' = [c \in Controllers |-> IF Live(c) THEN h ELSE ctl[c]]
        BY <1>4 DEF Halt
    <2> HIDE DEF h
    <2>5. \A c \in Controllers : /\ ctl'[c].pc \in {"off", "dead", "done"} /\ ~Live(c)'
                                 /\ ctl'[c].epoch = 0 \/ ctl'[c] = ctl[c]
        BY <2>3, <2>4 DEF Live
    <2>6. ctl' \in [Controllers -> Controller]
        BY <2>3, <2>4 DEF ControlInv, TypeOK, ControllersOK
    <2>7. TypeOK'
        <3>1. rec.epoch \in Nat
            BY RecordHeld
        <3>2. ControllersOK'
            BY <2>1, <2>5, <2>6, <3>1 DEF ControlInv, TypeOK, ControllersOK, Turn, Working
        <3>3. LeasesOK'
            BY <1>1, <2>1 DEF ControlInv, TypeOK, LeasesOK
        <3> QED
            BY <1>1, <1>4, <2>1, <2>2, <3>2, <3>3 DEF ControlInv, TypeOK
    <2>8. Claimed'
        BY <2>1, ControlAssumption DEF Claimed
    <2>9. Lone' /\ Covered'
        BY <1>1, <2>2, <2>5 DEF ControlInv, Lone, Covered
    <2>10. Silent'
        BY <2>1, <2>2, <2>5 DEF Silent, Turn, Working
    <2>11. ASSUME NEW c \in Controllers PROVE ControllerInv(c)'
        <3>1. Owner(c)'
            BY <2>1, NamesDiffer DEF Owner, Owns
        <3> QED
            BY <2>5, <3>1 DEF ControllerInv, Deciding, InTurn, Drained, Quiet, At
    <2> QED
        BY <2>7, <2>8, <2>9, <2>10, <2>11 DEF ControlInv
<1> QED
    BY <1>3, <1>4 DEF CancelEnds

LEMMA CancelServerExitsStep ==
    ASSUME ControlInv, CancelServerExits PROVE ControlInv'
<1>1. cancel' = "gone" /\ UNCHANGED <<rec, part, leases, sess, ctl, dec, launcher, excused>>
    BY DEF CancelServerExits
<1>2. faults' \in 0 .. MaxFaults
    BY FaultsTyped, FaultsKept DEF CancelServerExits, ControlInv
<1>3. TypeOK'
    BY <1>1, <1>2 DEF ControlInv, TypeOK, RecordOK, LeasesOK, ControllersOK, Live
<1>4. Claimed' /\ Lone' /\ Covered' /\ Silent'
    BY <1>1 DEF ControlInv, Claimed, Lone, Live, Covered, Silent, Still, RunningSessions, Fenced
<1>5. ASSUME NEW c \in Controllers PROVE ControllerInv(c)'
    BY <1>1 DEF ControlInv, ControllerInv, Owner, Deciding, Consumed, Found, InTurn, Holds, Drained,
                Quiet, Still, RunningSessions, Fenced, Owns, Ident, Paused, At
<1> QED
    BY <1>3, <1>4, <1>5 DEF ControlInv

LEMMA StutterStep ==
    ASSUME ControlInv, UNCHANGED vars PROVE ControlInv'
<1>1. TypeOK'
    BY DEF vars, ControlInv, TypeOK, RecordOK, LeasesOK, ControllersOK, Live
<1>2. Claimed' /\ Lone' /\ Covered' /\ Silent'
    BY DEF vars, ControlInv, Claimed, Lone, Live, Covered, Silent, Still, RunningSessions, Fenced
<1>3. ASSUME NEW c \in Controllers PROVE ControllerInv(c)'
    BY DEF vars, ControlInv, ControllerInv, Owner, Deciding, Consumed, Found, InTurn, Holds, Drained,
           Quiet, Still, RunningSessions, Fenced, Owns, Ident, Paused, At
<1> QED
    BY <1>1, <1>2, <1>3 DEF ControlInv


LEMMA InitControl == Init => ControlInv
<1> SUFFICES ASSUME Init PROVE ControlInv
    OBVIOUS
<1>1. Off \in Controller /\ Off.pc = "off" /\ Off.epoch = 0
    BY DEF Off, Controller, Pcs
<1>2. /\ ctl \in [Controllers -> Controller]
      /\ \A c \in Controllers : ctl[c].pc = "off" /\ ctl[c].epoch = 0
    BY <1>1 DEF Init
<1>3. 1 \in 1 .. MaxEpoch /\ 1 \in 1 .. MaxExec
    BY ControlAssumption
<1>4. RecordOK /\ rec.epoch = 1 /\ rec.pause = None /\ rec.owner = None
    BY <1>3 DEF Init, RecordOK
<1>5. dec \in [Calls -> Decision]
    <2> DEFINE r == [st |-> "none"]
    <2>1. r \in Decision
        BY DEF Decision
    <2>2. dec = [k \in Calls |-> r]
        BY DEF Init
    <2> HIDE DEF r
    <2> QED
        BY <2>1, <2>2
<1>6. TypeOK
    <2>1. ControllersOK
        BY <1>2, <1>4 DEF ControllersOK, Live, Turn, Working
    <2>2. LeasesOK
        BY DEF Init, LeasesOK
    <2> QED
        BY <1>4, <1>5, <2>1, <2>2, ControlAssumption DEF Init, TypeOK
<1>7. RunningSessions = {} /\ leases = {}
    BY DEF Init, RunningSessions
<1>8. Claimed /\ Lone /\ Covered /\ Silent
    BY <1>2, <1>4, <1>7 DEF Init, Claimed, Lone, Live, Covered, Silent
<1>9. ASSUME NEW c \in Controllers PROVE ControllerInv(c)
    BY <1>2, <1>4 DEF ControllerInv, Owner, Owns, Deciding, InTurn, Drained, Quiet, At
<1> QED
    BY <1>6, <1>8, <1>9 DEF ControlInv

LEMMA NextControl == ControlInv /\ [Next]_vars => ControlInv'
<1> SUFFICES ASSUME ControlInv, [Next]_vars PROVE ControlInv'
    OBVIOUS
<1>1. ASSUME NEW c \in Controllers, Attend(c) PROVE ControlInv'
    BY <1>1, BindStep, RebindPauseStep, AwaitStep, CommitPauseStep, ConsumeResumeStep,
       CommitResumeStep DEF Attend
<1>2. ASSUME NEW c \in Controllers, Work(c) PROVE ControlInv'
    BY <1>2, NextStageStep, DisplacedStep, FailStep, FinishStep, BeginTurnStep, TakeOverStep,
       RevokeStep, AcquireStep, ActStep, ActEndsStep, ObserveStep, ReleaseStep, EndTurnStep,
       ToCheckpointStep, DrainStep, CheckStep, ConsumePauseStep DEF Work
<1>3. ASSUME NEW k \in Calls,
             \/ Record(k) \/ Expire(k)
             \/ \E a \in Actors, cmd \in {"PAUSE", "RESUME"} : Ask(k, a, cmd)
      PROVE  ControlInv'
    BY <1>3, PeopleStep
<1> QED
    BY <1>1, <1>2, <1>3, ExecuteStep, CrashStep, SessionSettlesStep, LauncherPatchesStep,
       CancelClaimsStep, CancelEndsStep, CancelServerExitsStep, StutterStep DEF Next

-----------------------------------------------------------------------------

\* Whatever the controllers, the sessions, the people and a cancellation do, in
\* any order and with any crash between two writes, what the owner relies on,
\* the fence of the lease table and the silence of a pause hold together.
THEOREM ControlHolds == Spec => []ControlInv
<1> QED
    BY InitControl, NextControl, PTL DEF Spec

\* TypeOK for every number of controllers, sessions and requests: neither a
\* controller nor a lease holds an epoch the record has not reached.
THEOREM ControlTypes == Spec => []TypeOK
<1>1. ControlInv => TypeOK
    BY DEF ControlInv
<1> QED
    BY <1>1, ControlHolds, PTL

\* Two provider sessions never write in the workspace at a time unless a
\* controller survived its own cancellation: the one lease that
\* acquireProviderLease admits answers for the session that runs, and only an
\* observed session loses its lease.
THEOREM OneSessionWrites == Spec => []OneWriter
<1>1. ControlInv => OneWriter
    <2> SUFFICES ASSUME ControlInv, Fenced PROVE Cardinality(RunningSessions) <= 1
        BY DEF OneWriter, Fenced
    <2>1. \A s, t \in RunningSessions : s = t
        BY DEF ControlInv, Covered
    <2>2. CASE RunningSessions = {}
        BY <2>2, FS_EmptySet
    <2>3. CASE RunningSessions # {}
        <3>1. PICK s \in RunningSessions : TRUE
            BY <2>3
        <3>2. RunningSessions = {s}
            BY <2>1, <3>1
        <3>3. Cardinality({s}) = 1
            BY FS_Singleton
        <3> QED
            BY <3>2, <3>3
    <2> QED
        BY <2>2, <2>3
<1> QED
    BY <1>1, ControlHolds, PTL

\* A PAUSED operation is silent: no session runs, no participant is RUNNING and
\* its owner does nothing but wait; also when a later controller found the
\* pause in the record.
THEOREM PauseIsSilent == Spec => []PauseDrained
<1>1. ControlInv => PauseDrained
    BY DEF ControlInv, ControllerInv, Silent, Still, Owner, Paused, PauseDrained
<1> QED
    BY <1>1, ControlHolds, PTL

\* Every pause can be resumed: what the owner waits on names the current
\* identity and the policy is bound, however often the operation was claimed
\* between the pause and the wait.
THEOREM PauseCanEnd == Spec => []PausedCanResume
<1>1. ControlInv => PausedCanResume
    BY DEF ControlInv, ControllerInv, Owner, At, PausedCanResume
<1> QED
    BY <1>1, ControlHolds, PTL

-----------------------------------------------------------------------------

\* Who leaves the pause of the record as it is.
LEMMA PauseStays ==
    ASSUME ControlInv, NEW c \in Controllers,
           \/ Execute(c) \/ Work(c) \/ Crash(c) \/ Bind(c) \/ Await(c) \/ ConsumeResume(c)
           \/ LauncherPatches \/ CancelClaims \/ CancelEnds
    PROVE  rec'.pause = rec.pause
<1>1. CASE Execute(c)
    BY <1>1, RecordHeld DEF Execute
<1>2. CASE Work(c)
    <2>1. CASE NextStage(c)
        BY <2>1, RecordHeld DEF NextStage
    <2>2. CASE Fail(c)
        BY <2>2, RecordHeld DEF Fail
    <2>3. CASE Finish(c)
        BY <2>3, RecordHeld DEF Finish
    <2>4. ~NextStage(c) /\ ~Fail(c) /\ ~Finish(c) => rec' = rec
        BY <1>2 DEF Work, Displaced, BeginTurn, TakeOver, Revoke, Acquire, Act, ActEnds, Observe,
                    Release, EndTurn, ToCheckpoint, Drain, Check, ConsumePause
    <2> QED
        BY <2>1, <2>2, <2>3, <2>4
<1>3. CASE Bind(c)
    BY <1>3, RecordHeld DEF Bind
<1>4. CASE Crash(c) \/ Await(c) \/ ConsumeResume(c)
    BY <1>4 DEF Crash, Await, ConsumeResume
<1>5. CASE LauncherPatches \/ CancelClaims \/ CancelEnds
    BY <1>5, RecordHeld DEF LauncherPatches, CancelClaims, CancelEnds
<1> QED
    BY <1>1, <1>2, <1>3, <1>4, <1>5

\* The rebinding replaces one identity by another.
LEMMA RebindStays ==
    ASSUME ControlInv, NEW c \in Controllers, RebindPause(c)
    PROVE  (rec.pause = None) <=> (rec'.pause = None)
<1>1. Owns(c) => rec.pause # None
    BY DEF RebindPause, ControlInv, ControllerInv, Owner
<1>2. Ident # None
    BY RecordHeld, ControlAssumption DEF Identity
<1> QED
    BY <1>1, <1>2, RecordHeld DEF RebindPause

\* Only the two commits turn the pause of the record on or off.
LEMMA PauseTurns ==
    ASSUME ControlInv, Next, ~((rec.pause = None) <=> (rec'.pause = None))
    PROVE  \E c \in Controllers : CommitPause(c) \/ CommitResume(c)
<1>1. rec' # rec
    OBVIOUS
<1>2. ~\E s \in Sessions : SessionSettles(s)
    BY <1>1 DEF SessionSettles
<1>3. ~\E k \in Calls : Record(k) \/ Expire(k)
    BY <1>1 DEF Record, Expire
<1>4. ~\E k \in Calls, a \in Actors, cmd \in {"PAUSE", "RESUME"} : Ask(k, a, cmd)
    BY <1>1 DEF Ask
<1>5. ~CancelServerExits
    BY <1>1 DEF CancelServerExits
<1>6. CASE LauncherPatches \/ CancelClaims \/ CancelEnds
    BY <1>6, RecordHeld DEF LauncherPatches, CancelClaims, CancelEnds
<1>7. CASE \E c \in Controllers : Execute(c) \/ Attend(c) \/ Work(c) \/ Crash(c)
    BY <1>7, PauseStays, RebindStays DEF Attend
<1> QED
    BY <1>2, <1>3, <1>4, <1>5, <1>6, <1>7 DEF Next

\* The decision behind a commit.
LEMMA CommitDecided ==
    ASSUME ControlInv, NEW c \in Controllers, CommitPause(c) \/ CommitResume(c)
    PROVE  /\ ctl[c].call \in Calls
           /\ dec[ctl[c].call].st = "consumed" /\ dec[ctl[c].call].ident = Ident
           /\ dec[ctl[c].call].cmd = IF rec.pause = None THEN "PAUSE" ELSE "RESUME"
           /\ dec'[ctl[c].call].st = "applied"
<1> DEFINE k == ctl[c].call
<1>1. Deciding(c) /\ dec \in [Calls -> Decision]
    BY DEF ControlInv, ControllerInv, TypeOK
<1>2. /\ k \in Calls /\ dec[k].st = "consumed" /\ dec[k].ident = Ident
      /\ dec[k].cmd = IF rec.pause = None THEN "PAUSE" ELSE "RESUME"
    BY <1>1 DEF CommitPause, CommitResume, Deciding, Consumed, Found, Paused, At
<1>3. Applied(k)
    BY DEF CommitPause, CommitResume
<1> HIDE DEF k
<1>4. dec'[k].st = "applied"
    BY <1>1, <1>2, <1>3, AppliedDecision
<1> QED
    BY <1>2, <1>4 DEF k

\* The record is paused and resumed only by a decision for that command and that
\* identity, which was consumed before and is spent with the commit: what the
\* lock over pauseOperationIfRequested and applyOperationResume is for.
THEOREM DecisionsApplyOnce == Spec => AppliedAsDecided
<1> DEFINE Decided ==
        (rec.pause = None) # (rec'.pause = None) =>
            \E k \in Calls :
               /\ dec[k].st = "consumed" /\ dec[k].ident = Ident
               /\ dec[k].cmd = IF rec.pause = None THEN "PAUSE" ELSE "RESUME"
               /\ dec'[k].st = "applied"
<1>1. ControlInv /\ [Next]_vars => [Decided]_vars
    <2> SUFFICES ASSUME ControlInv, Next, (rec.pause = None) # (rec'.pause = None)
                 PROVE  \E k \in Calls :
                           /\ dec[k].st = "consumed" /\ dec[k].ident = Ident
                           /\ dec[k].cmd = IF rec.pause = None THEN "PAUSE" ELSE "RESUME"
                           /\ dec'[k].st = "applied"
        OBVIOUS
    <2>1. PICK c \in Controllers : CommitPause(c) \/ CommitResume(c)
        <3>1. ~((rec.pause = None) <=> (rec'.pause = None))
            OBVIOUS
        <3> QED
            BY <3>1, PauseTurns
    <2> QED
        BY <2>1, CommitDecided
<1> QED
    BY <1>1, ControlHolds, PTL DEF Spec, AppliedAsDecided


=============================================================================
