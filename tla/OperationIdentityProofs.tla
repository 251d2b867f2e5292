----------------------- MODULE OperationIdentityProofs -----------------------
(***************************************************************************)
(* For any number of processes, sessions and digests, and for any bounds:  *)
(* authority is never older than the identity it was issued for, tokens    *)
(* stay within one lineage, and a terminal record is final.                *)
(***************************************************************************)
EXTENDS OperationIdentity, TLAPS

----------------------------------------------------------------------------
(***************************************************************************)
(* What each commit leaves in the record: the fields of the record the     *)
(* callback returned, one by one.                                          *)
(***************************************************************************)
LEMMA CommitClears ==
    ASSUME NEW event, NEW e,
           Commit(event, [Kept EXCEPT !.exec = e, !.policy = None, !.binding = Invalidated])
    PROVE  exec' = e /\ semantics' = semantics /\ policy' = None /\ binding' = Invalidated
BY DEF Commit, Kept

\* A claim keeps the execution revision, whatever it clears.
LEMMA CommitClaim ==
    ASSUME NEW event, Commit(event, [Kept EXCEPT !.policy = None, !.binding = Invalidated])
    PROVE  exec' = exec /\ semantics' = semantics /\ policy' = None /\ binding' = Invalidated
BY DEF Commit, Kept

\* A policy binding changes nothing but the policy.
LEMMA CommitPolicy ==
    ASSUME NEW p, Commit(PolicyEvent, [Kept EXCEPT !.policy = p])
    PROVE  /\ exec' = exec /\ semantics' = semantics /\ policy' = p /\ binding' = binding
           /\ policy \in {None, p}
BY DEF Commit, Kept, IdentityTransition, PolicyTransition

\* A participant binding changes nothing but the bindings.
LEMMA CommitBinding ==
    ASSUME NEW b, Commit(BindingEvent, [Kept EXCEPT !.binding = b])
    PROVE  exec' = exec /\ semantics' = semantics /\ policy' = policy /\ binding' = b
BY DEF Commit, Kept

(***************************************************************************)
(* Semantics are bound in one of two ways: they supersede what was there,  *)
(* which opens a new execution revision and clears all authority, or they  *)
(* are the first and leave revision, policy and bindings alone.            *)
(***************************************************************************)
LEMMA CommitSemantics ==
    ASSUME NEW d, Commit(SemanticsEvent, SemanticsBound(d))
    PROVE  /\ semantics' = d
           /\ \/ exec' = exec + 1 /\ policy' = None /\ binding' = Invalidated
              \/ exec' = exec /\ policy' = policy /\ binding' = binding
<1>1. CASE semantics # None \/ Provisional(policy)
    BY <1>1 DEF Commit, Kept, SemanticsBound
<1>2. CASE ~(semantics # None \/ Provisional(policy))
    BY <1>2 DEF Commit, Kept, SemanticsBound
<1> QED
    BY <1>1, <1>2

(***************************************************************************)
(* Invalidated is a legal value of binding and leaves no participant bound.*)
(***************************************************************************)
LEMMA InvalidatedFacts ==
    ASSUME TypeOK
    PROVE  /\ Invalidated \in [Sessions -> View \cup {None}]
           /\ \A s \in Participants : Invalidated[s] = None
BY DEF TypeOK, Invalidated, Participants

----------------------------------------------------------------------------
(***************************************************************************)
(* The inductive invariant.  PolicyCurrent alone is not inductive without  *)
(* the types, BindingsCurrent needs PolicyCurrent when a policy is bound:  *)
(* with no policy there is no binding that could survive it.               *)
(***************************************************************************)
IdentityInv == TypeOK /\ PolicyCurrent /\ BindingsCurrent /\ TokenLineage

LEMMA IdentityInvInit == Init => IdentityInv
<1> SUFFICES ASSUME Init PROVE IdentityInv
    OBVIOUS
<1>1. TypeOK
    BY BoundsAssumption DEF Init, TypeOK
<1>2. PolicyCurrent /\ BindingsCurrent
    BY DEF Init, PolicyCurrent, BindingsCurrent, Participants
<1>3. TokenLineage
    BY DEF Init, TokenLineage
<1> QED
    BY <1>1, <1>2, <1>3 DEF IdentityInv

LEMMA ClaimedStep ==
    ASSUME IdentityInv, NEW c \in Procs, NEW kind \in {"controller", "cancel"},
           epoch < MaxEpoch, Claimed(c, kind)
    PROVE  IdentityInv'
<1> USE DEF IdentityInv
<1>1. /\ exec' = exec /\ semantics' = semantics /\ policy' = None /\ binding' = Invalidated
      /\ epoch' = epoch + 1 /\ ownerPid' = c /\ ownerKind' = kind
      /\ held' = [held EXCEPT ![c] = epoch + 1]
      /\ UNCHANGED <<status, cand, registered, proc, parent, view>>
    BY CommitClaim DEF Claimed
<1>2. TypeOK'
    <2>1. epoch' \in 0..MaxEpoch /\ held' \in [Procs -> 0..epoch']
        BY <1>1, BoundsAssumption DEF TypeOK
    <2> QED
        BY <1>1, <2>1, InvalidatedFacts DEF TypeOK
<1>3. PolicyCurrent' /\ BindingsCurrent'
    BY <1>1, InvalidatedFacts DEF PolicyCurrent, BindingsCurrent, Participants
<1>4. TokenLineage'
    <2>1. \A p \in Procs : held[p] # epoch + 1
        BY DEF TypeOK
    <2> QED
        BY <1>1, <2>1 DEF TokenLineage, SameLineage, TypeOK
<1> QED
    BY <1>2, <1>3, <1>4

LEMMA SpawnStep ==
    ASSUME IdentityInv, NEW c \in Procs, NEW d \in Procs, Spawn(c, d)
    PROVE  IdentityInv'
<1> USE DEF IdentityInv
<1>1. TypeOK'
    BY DEF Spawn, TypeOK, record
<1>2. PolicyCurrent' /\ BindingsCurrent'
    BY DEF Spawn, PolicyCurrent, BindingsCurrent, Current, record
<1>3. TokenLineage'
    <2>1. parent' = [parent EXCEPT ![d] = c] /\ held' = [held EXCEPT ![d] = held[c]]
        BY DEF Spawn
    <2>2. c # d /\ parent[c] = None
        BY DEF Spawn
    <2>3. \A p, q \in Procs \ {d} : SameLineage(p, q) => SameLineage(p, q)'
        BY <2>1 DEF SameLineage, TypeOK
    <2>4. \A p, q \in Procs \ {d} : held'[p] = held'[q] /\ held'[p] # 0 => SameLineage(p, q)'
        BY <2>1, <2>3 DEF TokenLineage, TypeOK
    <2>5. ASSUME NEW q \in Procs \ {d}, held'[q] = held'[d], held'[q] # 0
          PROVE  SameLineage(q, d)' /\ SameLineage(d, q)'
        <3>1. held[q] = held[c] /\ held[q] # 0
            BY <2>1, <2>2, <2>5 DEF TypeOK
        <3>2. SameLineage(c, q)
            BY <3>1 DEF TokenLineage
        <3>3. c = q \/ parent[q] = c
            BY <3>2, <2>2, NoneAssumption DEF SameLineage
        <3>4. parent'[d] = c /\ parent'[q] = parent[q] /\ c # None
            BY <2>1, NoneAssumption DEF TypeOK
        <3> QED
            BY <3>3, <3>4 DEF SameLineage
    <2>6. SameLineage(d, d)'
        BY DEF SameLineage
    <2> QED
        BY <2>4, <2>5, <2>6 DEF TokenLineage
<1> QED
    BY <1>1, <1>2, <1>3

\* A step that takes the token away from a process keeps the lineage.
LEMMA TokenDropped ==
    ASSUME TypeOK, TokenLineage, NEW c \in Procs, held' = [held EXCEPT ![c] = 0], parent' = parent
    PROVE  TokenLineage'
BY DEF TypeOK, TokenLineage, SameLineage

LEMMA CandidateStep ==
    ASSUME IdentityInv, NEW c \in Procs, BindOperationCandidate(c)
    PROVE  IdentityInv'
<1> USE DEF IdentityInv
<1>1. /\ exec' = exec + 1 /\ semantics' = semantics /\ policy' = None /\ binding' = Invalidated
      /\ cand' = cand + 1 /\ exec < MaxExec
      /\ UNCHANGED <<status, epoch, ownerPid, ownerKind, registered, world>>
    BY CommitClears DEF BindOperationCandidate
<1>2. TypeOK'
    <2>1. exec' \in 1..MaxExec /\ cand' \in 1..exec'
        BY <1>1, BoundsAssumption DEF TypeOK
    <2> QED
        BY <1>1, <2>1, InvalidatedFacts DEF TypeOK, world
<1>3. PolicyCurrent' /\ BindingsCurrent'
    BY <1>1, InvalidatedFacts DEF PolicyCurrent, BindingsCurrent, Participants
<1>4. TokenLineage'
    BY <1>1 DEF TokenLineage, SameLineage, world
<1> QED
    BY <1>2, <1>3, <1>4

LEMMA PolicyStep ==
    ASSUME IdentityInv, NEW c \in Procs, NEW b \in BOOLEAN, BindResolvedOperationPolicy(c, b)
    PROVE  IdentityInv'
<1> USE DEF IdentityInv
<1> DEFINE p == [exec |-> view[c].exec, cand |-> view[c].cand,
                 epoch |-> view[c].epoch, provisional |-> b]
<1>1. /\ view[c] # None /\ ~PolicyStale(p) /\ Commit(PolicyEvent, [Kept EXCEPT !.policy = p])
      /\ UNCHANGED <<status, epoch, ownerPid, ownerKind, cand, registered, world>>
    BY DEF BindResolvedOperationPolicy
<1>2. /\ exec' = exec /\ semantics' = semantics /\ policy' = p /\ binding' = binding
      /\ policy \in {None, p}
    BY <1>1, CommitPolicy
<1>3. p \in Policy
    <2>1. view[c] \in View
        BY <1>1 DEF TypeOK
    <2> QED
        BY <2>1 DEF View, Policy
<1>4. TypeOK'
    BY <1>1, <1>2, <1>3 DEF TypeOK, world
<1>5. PolicyCurrent'
    BY <1>1, <1>2 DEF PolicyCurrent, PolicyStale, Current
<1>6. BindingsCurrent'
    <2>1. CASE policy = None
        BY <1>2, <2>1 DEF BindingsCurrent
    <2>2. CASE policy = p
        BY <1>1, <1>2, <2>2 DEF BindingsCurrent, Current
    <2> QED
        BY <1>2, <2>1, <2>2
<1>7. TokenLineage'
    BY <1>1 DEF TokenLineage, SameLineage, world
<1> QED
    BY <1>4, <1>5, <1>6, <1>7

LEMMA SemanticsStep ==
    ASSUME IdentityInv, NEW c \in Procs, NEW d \in Digests, BindOperationExecutionSemantics(c, d)
    PROVE  IdentityInv'
<1> USE DEF IdentityInv
<1>1. /\ exec < MaxExec /\ semantics' = d
      /\ \/ exec' = exec + 1 /\ policy' = None /\ binding' = Invalidated
         \/ exec' = exec /\ policy' = policy /\ binding' = binding
      /\ UNCHANGED <<status, epoch, ownerPid, ownerKind, cand, registered, world>>
    BY CommitSemantics DEF BindOperationExecutionSemantics
<1>2. TypeOK'
    <2>1. exec' \in 1..MaxExec /\ cand' \in 1..exec'
        BY <1>1, BoundsAssumption DEF TypeOK
    <2>2. policy' \in Policy \cup {None} /\ binding' \in [Sessions -> View \cup {None}]
        BY <1>1, InvalidatedFacts DEF TypeOK
    <2> QED
        BY <1>1, <2>1, <2>2 DEF TypeOK, world
<1>3. PolicyCurrent' /\ BindingsCurrent'
    <2>1. CASE policy' = None /\ binding' = Invalidated
        BY <2>1, InvalidatedFacts DEF PolicyCurrent, BindingsCurrent, Participants
    <2>2. CASE exec' = exec /\ policy' = policy /\ binding' = binding
        BY <1>1, <2>2 DEF PolicyCurrent, BindingsCurrent, Current
    <2> QED
        BY <1>1, <2>1, <2>2
<1>4. TokenLineage'
    BY <1>1 DEF TokenLineage, SameLineage, world
<1> QED
    BY <1>2, <1>3, <1>4

LEMMA ParticipantStep ==
    ASSUME IdentityInv, NEW c \in Procs, NEW s \in Sessions,
           BindOperationParticipantExecution(c, s)
    PROVE  IdentityInv'
<1> USE DEF IdentityInv
<1>1. /\ view[c] # None /\ ~BindingStale(view[c])
      /\ exec' = exec /\ semantics' = semantics /\ policy' = policy
      /\ binding' = [binding EXCEPT ![s] = view[c]]
      /\ UNCHANGED <<status, epoch, ownerPid, ownerKind, cand, registered, world>>
    BY CommitBinding DEF BindOperationParticipantExecution
<1>2. TypeOK'
    BY <1>1 DEF TypeOK, world
<1>3. PolicyCurrent'
    BY <1>1 DEF PolicyCurrent, Current
<1>4. BindingsCurrent'
    <2>1. \A x \in Sessions \ {s} : binding'[x] = binding[x]
        BY <1>1 DEF TypeOK
    <2>2. binding'[s] = view[c]
        BY <1>1 DEF TypeOK
    <2>3. Current(view[c]) /\ policy # None /\ view[c].policy = policy
        BY <1>1 DEF BindingStale, Current
    <2> QED
        BY <1>1, <2>1, <2>2, <2>3 DEF BindingsCurrent, Participants, Current
<1>5. TokenLineage'
    BY <1>1 DEF TokenLineage, SameLineage, world
<1> QED
    BY <1>2, <1>3, <1>4, <1>5

LEMMA IdentityInvStep == IdentityInv /\ [Next]_vars => IdentityInv'
<1> SUFFICES ASSUME IdentityInv, [Next]_vars PROVE IdentityInv'
    OBVIOUS
<1> USE DEF IdentityInv, PolicyCurrent, BindingsCurrent, Current, TokenLineage, SameLineage
<1>1. ASSUME NEW c \in Procs, Load(c) PROVE IdentityInv'
    <2>1. [exec |-> exec, cand |-> cand, epoch |-> epoch, policy |-> policy] \in View
        BY DEF TypeOK, View
    <2> QED
        BY <1>1, <2>1 DEF Load, TypeOK, record
<1>2. ASSUME NEW c \in Procs, Claim(c) PROVE IdentityInv'
    BY <1>2, ClaimedStep DEF Claim
<1>3. ASSUME NEW c \in Procs, CancelClaim(c) PROVE IdentityInv'
    BY <1>3, ClaimedStep DEF CancelClaim
<1>4. ASSUME NEW c \in Procs, CancelOperationReturns(c) PROVE IdentityInv'
    <2>1. TypeOK'
        BY <1>4 DEF CancelOperationReturns, TypeOK, record
    <2>2. TokenLineage'
        BY <1>4, TokenDropped DEF CancelOperationReturns
    <2> QED
        BY <1>4, <2>1, <2>2 DEF CancelOperationReturns, record
<1>5. ASSUME NEW c \in Procs, StartRunning(c) PROVE IdentityInv'
    BY <1>5 DEF StartRunning, TypeOK, world
<1>6. ASSUME NEW c \in Procs, NEW d \in Procs, Spawn(c, d) PROVE IdentityInv'
    BY <1>6, SpawnStep
<1>7. ASSUME NEW c \in Procs, NEW d \in Procs, BindControllerProcess(c, d) PROVE IdentityInv'
    BY <1>7 DEF BindControllerProcess, TypeOK, world
<1>8. ASSUME NEW c \in Procs, BindOperationCandidate(c) PROVE IdentityInv'
    BY <1>8, CandidateStep
<1>9. ASSUME NEW c \in Procs, NEW b \in BOOLEAN, BindResolvedOperationPolicy(c, b)
      PROVE  IdentityInv'
    BY <1>9, PolicyStep
<1>10. ASSUME NEW c \in Procs, NEW d \in Digests, BindOperationExecutionSemantics(c, d)
       PROVE  IdentityInv'
    BY <1>10, SemanticsStep
<1>11. ASSUME NEW c \in Procs, NEW s \in Sessions, RegisterOperationAgent(c, s)
       PROVE  IdentityInv'
    BY <1>11 DEF RegisterOperationAgent, TypeOK, world
<1>12. ASSUME NEW c \in Procs, NEW s \in Sessions, BindOperationParticipantExecution(c, s)
       PROVE  IdentityInv'
    BY <1>12, ParticipantStep
<1>13. ASSUME NEW c \in Procs, NEW s \in TerminalStatus, TransitionOperationToTerminal(c, s)
       PROVE  IdentityInv'
    BY <1>13 DEF TransitionOperationToTerminal, TypeOK, world
<1>14. ASSUME NEW c \in Procs, StartProcess(c) PROVE IdentityInv'
    BY <1>14 DEF StartProcess, TypeOK, record
<1>15. ASSUME NEW c \in Procs, Crash(c) PROVE IdentityInv'
    <2>1. TypeOK'
        BY <1>15 DEF Crash, TypeOK, record
    <2>2. TokenLineage'
        BY <1>15, TokenDropped DEF Crash
    <2> QED
        BY <1>15, <2>1, <2>2 DEF Crash, record
<1>16. CASE TransitionOperationAtHardDeadline
    BY <1>16 DEF TransitionOperationAtHardDeadline, TypeOK, TerminalStatus, world
<1>17. CASE UNCHANGED vars
    BY <1>17 DEF vars, TypeOK
<1> QED
    BY <1>1, <1>2, <1>3, <1>4, <1>5, <1>6, <1>7, <1>8, <1>9, <1>10, <1>11, <1>12,
       <1>13, <1>14, <1>15, <1>16, <1>17 DEF Next

(***************************************************************************)
(* Whatever the interleaving of controllers, launchers and cancellations,  *)
(* a frozen policy is the policy of the current candidate, execution       *)
(* revision and epoch, and so is every participant's binding.              *)
(***************************************************************************)
THEOREM AuthorityIsCurrent == Spec => [](TypeOK /\ PolicyCurrent /\ BindingsCurrent)
<1>1. IdentityInv => TypeOK /\ PolicyCurrent /\ BindingsCurrent
    BY DEF IdentityInv
<1> QED
    BY IdentityInvInit, IdentityInvStep, <1>1, PTL DEF Spec

\* Every commit that moves the candidate, the execution revision or the epoch
\* drops or replaces the frozen policy, and a policy compiled from a stale read
\* is refused: what assertOperationPolicyTransition lets through.
THEOREM PolicyIsCurrent == Spec => []PolicyCurrent
BY AuthorityIsCurrent, PTL

(***************************************************************************)
(* No two processes that do not descend from the same claim ever hold the  *)
(* same epoch and token: the fence of assertCurrentControllerOwner tells   *)
(* them apart.                                                             *)
(***************************************************************************)
THEOREM TokensStayInLineage == Spec => []TokenLineage
<1>1. IdentityInv => TokenLineage
    BY DEF IdentityInv
<1> QED
    BY IdentityInvInit, IdentityInvStep, <1>1, PTL DEF Spec

----------------------------------------------------------------------------
\* No step of Next changes a record that is terminal.
LEMMA TerminalStep == [Next]_vars => [IsTerminal => UNCHANGED record]_vars
<1> SUFFICES ASSUME [Next]_vars, IsTerminal PROVE UNCHANGED record
    OBVIOUS
<1> USE DEF Writes
<1>1. ASSUME NEW c \in Procs,
             \/ Load(c) \/ Claim(c) \/ CancelClaim(c) \/ CancelOperationReturns(c)
             \/ StartRunning(c) \/ BindOperationCandidate(c)
             \/ StartProcess(c) \/ Crash(c)
      PROVE  UNCHANGED record
    BY <1>1 DEF Load, Claim, CancelClaim, CancelOperationReturns, StartRunning,
       BindOperationCandidate, StartProcess, Crash
<1>2. ASSUME NEW c \in Procs, NEW d \in Procs, Spawn(c, d) \/ BindControllerProcess(c, d)
      PROVE  UNCHANGED record
    BY <1>2 DEF Spawn, BindControllerProcess
<1>3. ASSUME NEW c \in Procs, NEW b \in BOOLEAN, BindResolvedOperationPolicy(c, b)
      PROVE  UNCHANGED record
    BY <1>3 DEF BindResolvedOperationPolicy
<1>4. ASSUME NEW c \in Procs, NEW d \in Digests, BindOperationExecutionSemantics(c, d)
      PROVE  UNCHANGED record
    BY <1>4 DEF BindOperationExecutionSemantics
<1>5. ASSUME NEW c \in Procs, NEW s \in Sessions,
             RegisterOperationAgent(c, s) \/ BindOperationParticipantExecution(c, s)
      PROVE  UNCHANGED record
    BY <1>5 DEF RegisterOperationAgent, BindOperationParticipantExecution
<1>6. ASSUME NEW c \in Procs, NEW s \in TerminalStatus, TransitionOperationToTerminal(c, s)
      PROVE  UNCHANGED record
    BY <1>6 DEF TransitionOperationToTerminal
<1>7. ~TransitionOperationAtHardDeadline
    BY DEF TransitionOperationAtHardDeadline
<1>8. CASE UNCHANGED vars
    BY <1>8 DEF vars, record
<1> QED
    BY <1>1, <1>2, <1>3, <1>4, <1>5, <1>6, <1>7, <1>8 DEF Next

(***************************************************************************)
(* A terminal operation record never changes again, whoever still holds    *)
(* its token and whatever the watchdog does.                               *)
(***************************************************************************)
THEOREM TerminalIsFinal == Spec => TerminalFinal
BY TerminalStep, PTL DEF Spec, TerminalFinal

----------------------------------------------------------------------------
\* Every step keeps the identity or advances it by one.
LEMMA AdvancesStep == IdentityInv /\ [Next]_vars => [Advances]_vars
<1> SUFFICES ASSUME IdentityInv, [Next]_vars PROVE Advances \/ UNCHANGED vars
    OBVIOUS
<1>0. epoch \in Nat /\ exec \in Nat /\ cand \in Nat
    BY BoundsAssumption DEF IdentityInv, TypeOK
<1>1. ASSUME UNCHANGED <<epoch, exec, cand>> PROVE Advances
    BY <1>1 DEF Advances
<1>2. ASSUME NEW c \in Procs, Claim(c) \/ CancelClaim(c) PROVE Advances
    <2>1. epoch' = epoch + 1 /\ exec' = exec /\ cand' = cand
        BY <1>2, CommitClaim DEF Claim, CancelClaim, Claimed
    <2> QED
        BY <1>0, <2>1 DEF Advances
<1>3. ASSUME NEW c \in Procs, BindOperationCandidate(c) PROVE Advances
    <2>1. epoch' = epoch /\ exec' = exec + 1 /\ cand' = cand + 1
        BY <1>3, CommitClears DEF BindOperationCandidate
    <2> QED
        BY <1>0, <2>1 DEF Advances
<1>4. ASSUME NEW c \in Procs, NEW d \in Digests, BindOperationExecutionSemantics(c, d)
      PROVE  Advances
    <2>1. epoch' = epoch /\ exec' \in {exec, exec + 1} /\ cand' = cand
        BY <1>4, CommitSemantics DEF BindOperationExecutionSemantics
    <2> QED
        BY <1>0, <2>1 DEF Advances
<1>5. ASSUME NEW c \in Procs, NEW b \in BOOLEAN, BindResolvedOperationPolicy(c, b)
      PROVE  UNCHANGED <<epoch, exec, cand>>
    BY <1>5, CommitPolicy DEF BindResolvedOperationPolicy
<1>6. ASSUME NEW c \in Procs, NEW s \in Sessions,
             RegisterOperationAgent(c, s) \/ BindOperationParticipantExecution(c, s)
      PROVE  UNCHANGED <<epoch, exec, cand>>
    BY <1>6, CommitBinding DEF RegisterOperationAgent, BindOperationParticipantExecution
<1>7. ASSUME NEW c \in Procs,
             \/ Load(c) \/ CancelOperationReturns(c) \/ StartRunning(c)
             \/ StartProcess(c) \/ Crash(c)
             \/ \E d \in Procs : Spawn(c, d) \/ BindControllerProcess(c, d)
             \/ \E s \in TerminalStatus : TransitionOperationToTerminal(c, s)
      PROVE  UNCHANGED <<epoch, exec, cand>>
    BY <1>7 DEF Load, CancelOperationReturns, StartRunning, StartProcess, Crash, Spawn,
       BindControllerProcess, TransitionOperationToTerminal, record
<1>8. ASSUME TransitionOperationAtHardDeadline PROVE UNCHANGED <<epoch, exec, cand>>
    BY <1>8 DEF TransitionOperationAtHardDeadline
<1> QED
    BY <1>1, <1>2, <1>3, <1>4, <1>5, <1>6, <1>7, <1>8 DEF Next

(***************************************************************************)
(* Epoch, execution revision and candidate only ever move forward, one at  *)
(* a time, and a new candidate always opens a new execution revision: an   *)
(* identity that was left is never current again.                          *)
(***************************************************************************)
THEOREM IdentityOnlyAdvances == Spec => IdentityAdvances
BY IdentityInvInit, IdentityInvStep, AdvancesStep, PTL DEF Spec, IdentityAdvances
=============================================================================
