------------------------ MODULE ProductChoiceProofs ------------------------
(***************************************************************************)
(* For any number of controllers, humans and requests: a consumed choice   *)
(* has its receipt, work goes on only with a choice of the current epoch,  *)
(* an accepted answer stands, and a request opens without an answer.       *)
(***************************************************************************)
EXTENDS ProductChoice, TLAPS

----------------------------------------------------------------------------
(***************************************************************************)
(* The inductive invariant.                                                *)
(***************************************************************************)

\* Nothing is known of a request that was not issued.
Known ==
    /\ cont # None => cont.req <= issued
    /\ \A r \in Requests : reserved[r] # None => r <= issued

\* What a controller read stays true of the request it read: the binding is
\* that of the request while it is open, and behind the lookup the answer, its
\* decision and then its receipt are in the ledger.
Reads(p) ==
    /\ pc[p] \in {"poll", "consume", "mark"} => seen[p] # None
    /\ seen[p] # None => seen[p].req <= issued
    /\ seen[p] # None /\ Waiting /\ cont.req = seen[p].req => cont.binding = seen[p].binding
    /\ pc[p] \in {"consume", "mark"} =>
           /\ seen[p].req \in decided
           /\ reserved[seen[p].req] # None /\ reserved[seen[p].req].binding = seen[p].binding
    /\ pc[p] = "mark" => seen[p].req \in consumed

\* A submitter past its reservation holds it.
Answers(h) ==
    /\ sub[h].req <= issued
    /\ sub[h].step # "idle" => sub[h].req \in Requests /\ sub[h].binding \in Binding
    /\ sub[h].step \in {"record", "accepted"} =>
           reserved[sub[h].req] # None /\ reserved[sub[h].req].by = h

\* The part of WorkUsesCurrentChoice about p.
Works(p) ==
    pc[p] \in Working /\ owner = p /\ cont # None
        => Consumed /\ cont.sel.at.epoch = id.epoch

ChoiceInv ==
    /\ TypeOK /\ Known /\ ReceiptBacked
    /\ \A p \in Procs : Reads(p) /\ Works(p)
    /\ \A h \in Humans : Answers(h)

LEMMA ChoiceInvInit == Init => ChoiceInv
<1> SUFFICES ASSUME Init PROVE ChoiceInv
    OBVIOUS
<1> USE RequestsAssumption DEF Init
<1>1. id \in Identity /\ 0 \in 0..0
    BY DEF Identity
<1>2. RecordOK
    BY <1>1 DEF RecordOK
<1>3. LedgerOK
    BY DEF LedgerOK
<1>4. ProcsOK
    BY DEF ProcsOK, Steps
<1>5. sub \in [Humans -> Submission]
    BY DEF Submission
<1>6. Known /\ ReceiptBacked
    BY DEF Known, ReceiptBacked, Consumed
<1>7. ASSUME NEW p \in Procs PROVE Reads(p) /\ Works(p)
    BY DEF Reads, Works
<1>8. ASSUME NEW h \in Humans PROVE Answers(h)
    BY DEF Answers
<1> QED
    BY <1>2, <1>3, <1>4, <1>5, <1>6, <1>7, <1>8 DEF ChoiceInv, TypeOK

----------------------------------------------------------------------------
(***************************************************************************)
(* What most steps leave alone.                                            *)
(***************************************************************************)

\* The ledger and the requests only grow, and a reservation is never replaced.
Grows ==
    /\ issued \in Nat /\ issued' \in Nat /\ issued <= issued'
    /\ decided \subseteq decided' /\ consumed \subseteq consumed'
    /\ \A r \in Requests : reserved[r] # None => reserved'[r] = reserved[r]

\* An open continuation is the one it was, or that of a request never issued.
OpenKept ==
    Waiting' => \/ Waiting /\ cont'.req = cont.req /\ cont'.binding = cont.binding
                \/ cont'.req > issued

LEMMA ReadsKept ==
    ASSUME NEW p \in Procs, TypeOK, Reads(p), Grows, OpenKept,
           pc'[p] = pc[p] \/ pc'[p] \notin {"poll", "consume", "mark"}, seen'[p] = seen[p]
    PROVE  Reads(p)'
<1>1. seen[p] # None => seen[p].req \in Requests /\ seen[p].req \in Nat
    BY RequestsAssumption DEF TypeOK, ProcsOK, Reading, Requests
<1>2. Waiting' => cont'.req = cont.req \/ cont'.req > issued
    BY DEF OpenKept
<1>3. seen[p] # None /\ Waiting' /\ cont'.req = seen[p].req => cont'.binding = seen[p].binding
    <2> SUFFICES ASSUME seen[p] # None, Waiting', cont'.req = seen[p].req
                 PROVE  cont'.binding = seen[p].binding
        OBVIOUS
    <2>1. ~(cont'.req > issued)
        BY <1>1 DEF Reads, Grows
    <2> QED
        BY <2>1 DEF OpenKept, Reads
<1> QED
    BY <1>1, <1>3 DEF Reads, Grows

LEMMA AnswersKept ==
    ASSUME NEW h \in Humans, TypeOK, Answers(h), Grows, sub'[h] = sub[h]
    PROVE  Answers(h)'
<1>1. sub[h].req \in Nat
    BY RequestsAssumption DEF TypeOK, Submission
<1> QED
    BY <1>1 DEF Answers, Grows, Requests

LEMMA WorksKept ==
    ASSUME NEW p \in Procs, Works(p), pc'[p] = pc[p], owner' # p
    PROVE  Works(p)'
BY DEF Works

\* What a step of the owner does to a choice that it neither makes nor asks.
ChoiceKept ==
    cont' # None => /\ cont # None /\ cont'.req = cont.req
                    /\ Waiting' => Waiting /\ cont'.binding = cont.binding
                    /\ Consumed' => Consumed /\ cont'.sel = cont.sel

\* A step of the controller p that neither reads nor asks nor marks.
LEMMA Ordinary ==
    ASSUME ChoiceInv, NEW p \in Procs, NEW s, Goto(p, s), s \notin {"poll", "consume", "mark"},
           TypeOK', ChoiceKept, UNCHANGED <<issued, ledger, seen, sub>>,
           Works(p)',
           \A q \in Procs : q # p => owner' # q \/ (owner' = owner /\ cont' = cont /\ id' = id)
    PROVE  ChoiceInv'
<1> USE DEF ledger
<1>1. Grows
    BY RequestsAssumption DEF Grows, ChoiceInv, TypeOK, LedgerOK
<1>2. OpenKept
    BY DEF OpenKept, ChoiceKept, Waiting
<1>3. pc'[p] = s /\ \A q \in Procs : q # p => pc'[q] = pc[q]
    BY DEF Goto, ChoiceInv, TypeOK, ProcsOK
<1>4. Known' /\ ReceiptBacked'
    BY DEF Known, ReceiptBacked, Receipt, ChoiceInv, ChoiceKept, Consumed
<1>5. ASSUME NEW q \in Procs PROVE Reads(q)'
    BY <1>1, <1>2, <1>3, ReadsKept DEF ChoiceInv
<1>6. ASSUME NEW q \in Procs, q # p PROVE Works(q)'
    BY <1>3, <1>6, WorksKept DEF ChoiceInv, Works, Consumed
<1>7. ASSUME NEW h \in Humans PROVE Answers(h)'
    BY <1>1, AnswersKept DEF ChoiceInv
<1> QED
    BY <1>4, <1>5, <1>6, <1>7 DEF ChoiceInv

----------------------------------------------------------------------------
(***************************************************************************)
(* Updates of the two records.                                             *)
(***************************************************************************)

LEMMA IdUpdates ==
    ASSUME NEW i \in Identity
    PROVE  /\ [i EXCEPT !.epoch = @ + 1] \in Identity
           /\ [i EXCEPT !.exec = @ + 1] \in Identity /\ [i EXCEPT !.exec = @ + 1].epoch = i.epoch
           /\ [i EXCEPT !.cand = @ + 1, !.exec = @ + 1] \in Identity
           /\ [i EXCEPT !.cand = @ + 1, !.exec = @ + 1].epoch = i.epoch
<1>1. i.epoch + 1 \in Nat /\ i.exec + 1 \in Nat /\ i.cand + 1 \in Nat
    BY DEF Identity
<1>2. [i EXCEPT !.epoch = @ + 1] \in Identity
    BY <1>1, Zenon DEF Identity
<1>3. [i EXCEPT !.exec = @ + 1] \in Identity /\ [i EXCEPT !.exec = @ + 1].epoch = i.epoch
    BY <1>1 DEF Identity
<1>4. [i EXCEPT !.cand = @ + 1, !.exec = @ + 1] \in Identity
    BY <1>1, Zenon DEF Identity
<1>5. [i EXCEPT !.cand = @ + 1, !.exec = @ + 1].epoch = i.epoch
    BY DEF Identity
<1> QED
    BY <1>2, <1>3, <1>4, <1>5

LEMMA ContRebound ==
    ASSUME NEW k \in Continuation, NEW b \in Binding
    PROVE  LET n == [k EXCEPT !.binding = b]
           IN  n \in Continuation /\ n.state = k.state /\ n.req = k.req /\ n.sel = k.sel
BY DEF Continuation

LEMMA ContMarked ==
    ASSUME NEW k \in Continuation, NEW b \in Binding
    PROVE  LET n == [k EXCEPT !.state = "CHOICE_CONSUMED", !.sel = b]
           IN  n \in Continuation /\ n.state = "CHOICE_CONSUMED" /\ n.req = k.req /\ n.sel = b
BY DEF Continuation

LEMMA ContResumed ==
    ASSUME NEW k \in Continuation
    PROVE  LET n == [k EXCEPT !.state = "RESUMING"]
           IN  n \in Continuation /\ n.state = "RESUMING" /\ n.req = k.req /\ n.sel = k.sel
BY DEF Continuation

LEMMA ContApplied ==
    ASSUME NEW k \in Continuation, NEW b \in Binding
    PROVE  LET n == [k EXCEPT !.state = "CHOICE_CONSUMED", !.applied = TRUE, !.binding = b]
           IN  n \in Continuation /\ n.state = "CHOICE_CONSUMED" /\ n.req = k.req /\ n.sel = k.sel
BY DEF Continuation

LEMMA ContNew ==
    ASSUME NEW r \in Requests, NEW b \in Binding
    PROVE  LET n == [state |-> "WAITING", req |-> r, binding |-> b, sel |-> None, applied |-> FALSE]
           IN  n \in Continuation /\ n.state = "WAITING" /\ n.req = r /\ n.binding = b /\ n.sel = None
BY DEF Continuation

----------------------------------------------------------------------------
(***************************************************************************)
(* Ownership.                                                              *)
(***************************************************************************)

LEMMA GotoType == ASSUME NEW p \in Procs, NEW s \in Steps, ProcsOK, Goto(p, s)
                  PROVE  pc' \in [Procs -> Steps] /\ pc'[p] = s
BY DEF ProcsOK, Goto

LEMMA ClaimedStep ==
    ASSUME ChoiceInv, NEW p \in Procs, Claimed(p), pidAlive' \in BOOLEAN
    PROVE  ChoiceInv'
<1> USE DEF ChoiceInv, TypeOK, ledger
<1>1. id' \in Identity /\ UNCHANGED <<issued, ledger, seen, sub, status, phase, request, cont, dirty, expired, path>>
    BY IdUpdates DEF Claimed, RecordOK
<1>2. pc' \in [Procs -> Steps] /\ pc'[p] = "start" /\ owner' = p /\ policy' = None
    BY GotoType DEF Claimed, Steps, Fencing
<1>3. TypeOK'
    BY <1>1, <1>2 DEF RecordOK, LedgerOK, ProcsOK
<1>4. Works(p)'
    BY <1>2 DEF Works, Working
<1>5. ChoiceKept
    BY <1>1 DEF ChoiceKept, Waiting, Consumed
<1> QED
    BY <1>1, <1>2, <1>3, <1>4, <1>5, Ordinary DEF Claimed

LEMMA StartRunningStep == ASSUME ChoiceInv, NEW p \in Procs, StartRunning(p) PROVE ChoiceInv'
<1> USE DEF ChoiceInv, TypeOK, ledger
<1>1. pc' \in [Procs -> Steps] /\ pc'[p] = "bootstrap"
    BY GotoType DEF StartRunning, Steps, Fencing
<1>2. TypeOK'
    BY <1>1 DEF StartRunning, RecordOK, LedgerOK, ProcsOK
<1>3. Works(p)' /\ ChoiceKept
    BY <1>1 DEF StartRunning, Works, Working, ChoiceKept, Waiting, Consumed
<1> QED
    BY <1>2, <1>3, Ordinary DEF StartRunning

LEMMA TerminalStep ==
    ASSUME ChoiceInv, NEW p \in Procs, NEW s \in {"SUCCEEDED", "FAILED"}, Terminal(s), owner = p,
           Goto(p, "done"), UNCHANGED <<dirty, issued, expired, ledger, path, seen, sub>>
    PROVE  ChoiceInv'
<1> USE DEF ChoiceInv, TypeOK, ledger
<1>1. pc' \in [Procs -> Steps] /\ pc'[p] = "done"
    BY GotoType DEF Steps
<1>2. TypeOK'
    BY <1>1, RequestsAssumption DEF Terminal, RecordOK, LedgerOK, ProcsOK
<1>3. Works(p)' /\ ChoiceKept
    BY <1>1 DEF Terminal, Works, Working, ChoiceKept
<1> QED
    BY <1>2, <1>3, Ordinary DEF Terminal

LEMMA FailsStep == ASSUME ChoiceInv, NEW p \in Procs, Fails(p) PROVE ChoiceInv'
<1> USE DEF ChoiceInv, TypeOK, ledger
<1>1. CASE owner = p
    BY <1>1, TerminalStep DEF Fails
<1>2. CASE owner # p
    <2>1. pc' \in [Procs -> Steps] /\ pc'[p] = "done"
        BY GotoType DEF Fails, Steps
    <2>2. TypeOK'
        BY <1>2, <2>1 DEF Fails, record, RecordOK, LedgerOK, ProcsOK
    <2>3. Works(p)' /\ ChoiceKept
        BY <1>2, <2>1 DEF Fails, record, Works, Working, ChoiceKept, Waiting, Consumed
    <2> QED
        BY <1>2, <2>2, <2>3, Ordinary DEF Fails, record
<1> QED
    BY <1>1, <1>2

LEMMA CrashStep == ASSUME ChoiceInv, NEW p \in Procs, Crash(p) PROVE ChoiceInv'
<1> USE DEF ChoiceInv, TypeOK, ledger
<1>1. pc' \in [Procs -> Steps] /\ pc'[p] = "dead"
    BY GotoType DEF Crash, Steps
<1>2. pidAlive' \in BOOLEAN
    BY DEF Crash
<1>3. TypeOK'
    BY <1>1, <1>2 DEF Crash, RecordOK, LedgerOK, ProcsOK
<1>4. Works(p)' /\ ChoiceKept
    BY <1>1 DEF Crash, Works, Working, ChoiceKept, Waiting, Consumed
<1> QED
    BY <1>3, <1>4, Ordinary DEF Crash

----------------------------------------------------------------------------
(***************************************************************************)
(* Policies and requests.                                                  *)
(***************************************************************************)

\* The checkpoint follows the policy; the choice it is about stays.
LEMMA BindPolicyStep ==
    ASSUME ChoiceInv, NEW p \in Procs, NEW from, NEW to \in {"enter", "resume", "run-pass", "run-fail"},
           BindPolicy(p, from, to)
    PROVE  ChoiceInv'
<1> USE DEF ChoiceInv, TypeOK, ledger
<1>1. /\ owner = p /\ policy' = id /\ cont' = Rewritten
      /\ UNCHANGED <<status, phase, id, owner, pidAlive, request, dirty, issued, expired, ledger, path, seen, sub>>
    BY DEF BindPolicy, At
<1>2. pc' \in [Procs -> Steps] /\ pc'[p] = to
    BY GotoType DEF BindPolicy, Steps, Fencing
<1>3. cont # None => cont \in Continuation
    BY DEF RecordOK
<1>4. cont' = cont \/ (/\ cont # None /\ cont' \in Continuation /\ cont'.state = cont.state
                       /\ cont'.req = cont.req /\ cont'.sel = cont.sel /\ cont.state # "WAITING")
    <2>1. CASE Applied /\ cont.sel.at.epoch = id.epoch
        <3>1. [at |-> id, policy |-> id] \in Binding
            BY DEF RecordOK, Binding
        <3>2. cont # None /\ cont.state # "WAITING"
            BY <2>1 DEF Applied, Consumed
        <3> QED
            BY <1>1, <1>3, <2>1, <3>1, <3>2, ContRebound DEF Rewritten
    <2>2. CASE ~(Applied /\ cont.sel.at.epoch = id.epoch)
        BY <1>1, <2>2 DEF Rewritten
    <2> QED
        BY <2>1, <2>2
<1>5. RecordOK'
    BY <1>1, <1>4 DEF RecordOK
<1>6. TypeOK'
    BY <1>1, <1>2, <1>5 DEF LedgerOK, ProcsOK
<1>7. Works(p)'
    BY <1>2 DEF Works, Working
<1>8. ChoiceKept
    BY <1>4 DEF ChoiceKept, Waiting, Consumed
<1> QED
    BY <1>1, <1>6, <1>7, <1>8, Ordinary DEF BindPolicy

LEMMA EnterFreshStep == ASSUME ChoiceInv, NEW p \in Procs, EnterFresh(p) PROVE ChoiceInv'
<1> USE DEF ChoiceInv, TypeOK, ledger, record
<1>1. pc' \in [Procs -> Steps] /\ pc'[p] = "author"
    BY GotoType DEF EnterFresh, Steps, Working
<1>2. TypeOK'
    BY <1>1 DEF EnterFresh, RecordOK, LedgerOK, ProcsOK
<1>3. Works(p)' /\ ChoiceKept
    BY DEF EnterFresh, Works, ChoiceKept
<1> QED
    BY <1>2, <1>3, Ordinary DEF EnterFresh

\* The owner asks: the number is new, so no controller has read it and the
\* ledger does not know it.
LEMMA AsksStep ==
    ASSUME ChoiceInv, NEW p \in Procs, owner = p, Asks(p), path' \in [Procs -> {"first", "resumed"}]
    PROVE  ChoiceInv'
<1> USE RequestsAssumption DEF ChoiceInv, TypeOK, ledger
<1>1. /\ issued + 1 \in Requests /\ policy = id /\ request' = issued + 1 /\ issued' = issued + 1
      /\ phase' = "HUMAN_REQUIRED"
      /\ cont' = [state |-> "WAITING", req |-> issued + 1, binding |-> Here, sel |-> None, applied |-> FALSE]
      /\ UNCHANGED <<status, id, owner, pidAlive, policy, dirty, expired, ledger, seen, sub>>
    BY DEF Asks, NewRequest, Authorized
<1>2. pc' \in [Procs -> Steps] /\ pc'[p] = "wait" /\ \A q \in Procs : q # p => pc'[q] = pc[q]
    BY GotoType DEF Asks, Goto, ProcsOK, Steps, Fencing
<1>3. Here \in Binding
    BY <1>1 DEF RecordOK, Here, Binding
<1>4. cont' \in Continuation /\ cont'.state = "WAITING" /\ cont'.req = issued + 1 /\ cont'.sel = None
    BY <1>1, <1>3, ContNew
<1>5. Grows /\ issued' \in 0..MaxRequests
    BY <1>1 DEF Grows, LedgerOK, Requests
<1>6. OpenKept
    BY <1>4, <1>5 DEF OpenKept, Grows
<1>7. RecordOK'
    BY <1>1, <1>4, <1>5 DEF RecordOK, Grows
<1>8. LedgerOK'
    BY <1>1, <1>5 DEF LedgerOK
<1>9. TypeOK'
    BY <1>1, <1>2, <1>7, <1>8 DEF ProcsOK
<1>10. Known' /\ ReceiptBacked'
    BY <1>1, <1>4, <1>5 DEF Known, ReceiptBacked, Consumed, Grows, Requests
<1>11. ASSUME NEW q \in Procs PROVE Reads(q)' /\ Works(q)'
    <2>1. Reads(q)'
        BY <1>1, <1>2, <1>5, <1>6, ReadsKept
    <2>2. Works(q)'
        BY <1>1, <1>2, WorksKept DEF Works, Working
    <2> QED
        BY <2>1, <2>2
<1>12. ASSUME NEW h \in Humans PROVE Answers(h)'
    BY <1>1, <1>5, AnswersKept
<1> QED
    BY <1>9, <1>10, <1>11, <1>12

LEMMA AuthorReadyStep == ASSUME ChoiceInv, NEW p \in Procs, AuthorReady(p) PROVE ChoiceInv'
<1> USE DEF ChoiceInv, TypeOK, ledger, record
<1>1. pc' \in [Procs -> Steps] /\ pc'[p] = "compile" /\ pc[p] = "author"
    BY GotoType DEF AuthorReady, Steps, Working
<1>2. TypeOK'
    BY <1>1 DEF AuthorReady, RecordOK, LedgerOK, ProcsOK
<1>3. Works(p)' /\ ChoiceKept
    BY <1>1 DEF AuthorReady, Works, Working, ChoiceKept, Waiting, Consumed
<1> QED
    BY <1>2, <1>3, Ordinary DEF AuthorReady

----------------------------------------------------------------------------
(***************************************************************************)
(* Waiting for the answer.                                                 *)
(***************************************************************************)

LEMMA WaitStep == ASSUME ChoiceInv, NEW p \in Procs, Wait(p) PROVE ChoiceInv'
<1> USE RequestsAssumption DEF ChoiceInv, TypeOK, ledger, record
<1>1. /\ Waiting /\ request = cont.req /\ cont.binding = Here
      /\ seen' = [seen EXCEPT ![p] = [req |-> request, binding |-> Here]]
      /\ UNCHANGED <<status, phase, id, owner, pidAlive, policy, request, cont, dirty, issued,
                     expired, ledger, path, sub>>
    BY DEF Wait, StillWaiting
<1>2. pc' \in [Procs -> Steps] /\ pc'[p] = "poll" /\ \A q \in Procs : q # p => pc'[q] = pc[q]
    BY GotoType DEF Wait, Goto, ProcsOK, Steps
<1>3. request \in Requests /\ request <= issued /\ Here \in Binding
    BY <1>1 DEF RecordOK, Waiting, Continuation, Known
<1>4. [req |-> request, binding |-> Here] \in Reading
    BY <1>3 DEF Reading
<1>5. TypeOK'
    BY <1>1, <1>2, <1>4 DEF RecordOK, LedgerOK, ProcsOK
<1>6. Known' /\ ReceiptBacked' /\ Grows /\ OpenKept
    BY <1>1 DEF Known, ReceiptBacked, Receipt, Consumed, Grows, OpenKept, Waiting, LedgerOK
<1>7. seen'[p].req = request /\ seen'[p].binding = Here
    BY <1>1 DEF ProcsOK
<1>8. seen'[p] # None
    BY <1>1, <1>4, NoneAssumption DEF ProcsOK
<1>9. Reads(p)'
    BY <1>1, <1>2, <1>3, <1>7, <1>8 DEF Reads
<1>10. ASSUME NEW q \in Procs, q # p PROVE Reads(q)'
    BY <1>1, <1>2, <1>6, <1>10, ReadsKept DEF ProcsOK
<1>11. ASSUME NEW q \in Procs PROVE Works(q)'
    BY <1>1, <1>2 DEF Works, Working, Consumed
<1>12. ASSUME NEW h \in Humans PROVE Answers(h)'
    BY <1>1, <1>6, AnswersKept
<1> QED
    BY <1>5, <1>6, <1>9, <1>10, <1>11, <1>12

\* What the ledger steps of a controller share: the record stays.
LEMMA LedgerStep ==
    ASSUME ChoiceInv, NEW p \in Procs, NEW s \in {"consume", "mark"}, Goto(p, s), seen[p] # None,
           UNCHANGED <<record, dirty, issued, expired, reserved, path, seen, sub>>,
           decided \subseteq decided', consumed \subseteq consumed',
           consumed' \subseteq decided', decided' \subseteq 1..issued,
           seen[p].req \in decided',
           reserved[seen[p].req] # None, reserved[seen[p].req].binding = seen[p].binding,
           s = "mark" => seen[p].req \in consumed'
    PROVE  ChoiceInv'
<1> USE RequestsAssumption DEF ChoiceInv, TypeOK, record
<1>1. pc' \in [Procs -> Steps] /\ pc'[p] = s /\ \A q \in Procs : q # p => pc'[q] = pc[q]
    BY GotoType DEF Goto, ProcsOK, Steps, Fencing
<1>2. TypeOK'
    BY <1>1 DEF RecordOK, LedgerOK, ProcsOK
<1>3. Known' /\ ReceiptBacked' /\ Grows /\ OpenKept
    <2>1. Known' /\ ReceiptBacked'
        BY DEF Known, ReceiptBacked, Receipt, Consumed
    <2>2. Grows /\ OpenKept
        BY DEF Grows, OpenKept, Waiting, LedgerOK
    <2> QED
        BY <2>1, <2>2
<1>4. Reads(p)'
    BY <1>1 DEF Reads, Waiting
<1>5. ASSUME NEW q \in Procs, q # p PROVE Reads(q)'
    BY <1>1, <1>3, <1>5, ReadsKept
<1>6. ASSUME NEW q \in Procs PROVE Works(q)'
    BY <1>1 DEF Works, Working, Consumed
<1>7. ASSUME NEW h \in Humans PROVE Answers(h)'
    BY <1>3, AnswersKept
<1> QED
    BY <1>2, <1>3, <1>4, <1>5, <1>6, <1>7

LEMMA PollStep == ASSUME ChoiceInv, NEW p \in Procs, Poll(p) PROVE ChoiceInv'
<1> USE DEF ChoiceInv, TypeOK, record
<1>1. seen[p] # None /\ seen[p].req \in 1..issued
    BY RequestsAssumption DEF Poll, Reads, ProcsOK, Reading, Requests, LedgerOK
<1>2. CASE reserved[seen[p].req] = None
    <2>1. Goto(p, "wait") /\ UNCHANGED <<record, dirty, issued, expired, ledger, path, seen, sub>>
        BY <1>2 DEF Poll, ledger
    <2>2. pc' \in [Procs -> Steps] /\ pc'[p] = "wait"
        BY <2>1, GotoType DEF Steps, Fencing
    <2>3. TypeOK' /\ Works(p)' /\ ChoiceKept
        BY <2>1, <2>2 DEF RecordOK, LedgerOK, ProcsOK, ledger, Works, Working, ChoiceKept, Waiting,
           Consumed
    <2> QED
        BY <2>1, <2>3, Ordinary
<1>3. CASE reserved[seen[p].req] # None
    <2>1. /\ Goto(p, "consume") /\ decided' = decided \cup {seen[p].req}
          /\ reserved[seen[p].req].binding = seen[p].binding
          /\ UNCHANGED <<record, dirty, issued, expired, reserved, consumed, path, seen, sub>>
        BY <1>3 DEF Poll
    <2>2. consumed \subseteq decided /\ decided \subseteq 1..issued
        BY DEF LedgerOK
    <2> QED
        BY <1>1, <1>3, <2>1, <2>2, LedgerStep
<1> QED
    BY <1>2, <1>3

LEMMA ConsumeExactStep == ASSUME ChoiceInv, NEW p \in Procs, ConsumeExact(p) PROVE ChoiceInv'
<1> USE DEF ChoiceInv, TypeOK
<1>1. /\ seen[p] # None /\ seen[p].req \in decided
      /\ reserved[seen[p].req] # None /\ reserved[seen[p].req].binding = seen[p].binding
    BY DEF ConsumeExact, Reads
<1>2. consumed \subseteq decided /\ decided \subseteq 1..issued
    BY DEF LedgerOK
<1> QED
    BY <1>1, <1>2, LedgerStep DEF ConsumeExact

\* The record is marked: what the controller read is still the open request,
\* so the binding saved is the one the answer was reserved under.
LEMMA MarkConsumedStep == ASSUME ChoiceInv, NEW p \in Procs, MarkConsumed(p) PROVE ChoiceInv'
<1> USE RequestsAssumption DEF ChoiceInv, TypeOK, ledger
<1>1. /\ pc[p] = "mark" /\ owner = p /\ Waiting /\ request = cont.req /\ request = seen[p].req
      /\ cont.binding = Here /\ phase' = "REVALIDATING" /\ request' = 0
      /\ cont' = [cont EXCEPT !.state = "CHOICE_CONSUMED", !.sel = Here]
      /\ UNCHANGED <<status, id, owner, pidAlive, policy, dirty, issued, expired, ledger, path, seen, sub>>
    BY DEF MarkConsumed, At, Markable, StillWaiting
<1>2. pc' \in [Procs -> Steps] /\ pc'[p] = "resume" /\ \A q \in Procs : q # p => pc'[q] = pc[q]
    BY GotoType DEF MarkConsumed, Goto, ProcsOK, Steps, Fencing
<1>3. cont \in Continuation /\ cont # None /\ Here \in Binding /\ Here # None
    BY <1>1, NoneAssumption DEF RecordOK, Waiting, Continuation
<1>4. /\ cont' \in Continuation /\ cont'.state = "CHOICE_CONSUMED" /\ cont'.req = cont.req /\ cont'.sel = Here
    BY <1>1, <1>3, ContMarked
<1>5. TypeOK'
    BY <1>1, <1>2, <1>3, <1>4 DEF RecordOK, LedgerOK, ProcsOK
<1>6. seen[p] # None /\ seen[p].binding = Here
    BY <1>1 DEF Reads
<1>7. Receipt'
    BY <1>1, <1>4, <1>6 DEF Receipt, Reads
<1>8. Known' /\ ReceiptBacked' /\ Grows /\ OpenKept
    BY <1>1, <1>3, <1>4, <1>7 DEF Known, ReceiptBacked, Grows, OpenKept, Waiting, LedgerOK
<1>9. ASSUME NEW q \in Procs PROVE Reads(q)' /\ Works(q)'
    <2>1. Reads(q)'
        BY <1>1, <1>2, <1>8, ReadsKept
    <2>2. Works(q)'
        BY <1>1, <1>2, WorksKept DEF Works, Working
    <2> QED
        BY <2>1, <2>2
<1>10. ASSUME NEW h \in Humans PROVE Answers(h)'
    BY <1>1, <1>8, AnswersKept
<1> QED
    BY <1>5, <1>8, <1>9, <1>10

----------------------------------------------------------------------------
(***************************************************************************)
(* The work on a choice.                                                   *)
(***************************************************************************)

\* Only a choice of the current epoch is resumed.
LEMMA ResumeStep == ASSUME ChoiceInv, NEW p \in Procs, Resume(p) PROVE ChoiceInv'
<1> USE DEF ChoiceInv, TypeOK, ledger
<1>1. /\ owner = p /\ cont # None /\ cont.state # "WAITING" /\ cont.sel.at.epoch = id.epoch
      /\ phase' = "spec-authoring" /\ cont' = [cont EXCEPT !.state = "RESUMING"]
      /\ UNCHANGED <<status, id, owner, pidAlive, policy, request, dirty, issued, expired, ledger, path, seen, sub>>
    BY DEF Resume, At, Consumed, ChoiceCurrent
<1>2. PICK s \in {"plan", "author"} : Goto(p, s)
    BY DEF Resume
<1>3. pc' \in [Procs -> Steps] /\ pc'[p] = s
    BY <1>2, GotoType DEF Steps, Working
<1>4. cont' \in Continuation /\ cont' # None /\ cont'.state = "RESUMING" /\ cont'.req = cont.req /\ cont'.sel = cont.sel
    BY <1>1, ContResumed, NoneAssumption DEF RecordOK
<1>5. TypeOK'
    BY <1>1, <1>3, <1>4 DEF RecordOK, LedgerOK, ProcsOK
<1>6. Works(p)' /\ ChoiceKept
    BY <1>1, <1>4 DEF Works, ChoiceKept, Waiting, Consumed
<1> QED
    BY <1>1, <1>2, <1>5, <1>6, Ordinary

LEMMA CompileStep == ASSUME ChoiceInv, NEW p \in Procs, Compile(p) PROVE ChoiceInv'
<1> USE DEF ChoiceInv, TypeOK, ledger
<1>1. /\ pc[p] = "compile" /\ owner = p
      /\ UNCHANGED <<status, phase, owner, pidAlive, request, cont, issued, expired, ledger, path, seen, sub>>
    BY DEF Compile, At
<1>2. pc' \in [Procs -> Steps] /\ pc'[p] = "apply"
    BY GotoType DEF Compile, Steps, Fencing
<1>3. /\ id' \in Identity /\ id'.epoch = id.epoch /\ policy' \in Identity \cup {None} /\ dirty' \in BOOLEAN
    BY IdUpdates DEF Compile, RecordOK, ProcsOK
<1>4. TypeOK'
    BY <1>1, <1>2, <1>3 DEF RecordOK, LedgerOK, ProcsOK
<1>5. Works(p)' /\ ChoiceKept
    BY <1>1, <1>3 DEF Works, Working, ChoiceKept, Waiting, Consumed
<1> QED
    BY <1>1, <1>4, <1>5, Ordinary DEF Compile

LEMMA BindSemanticsStep == ASSUME ChoiceInv, NEW p \in Procs, BindSemantics(p) PROVE ChoiceInv'
<1> USE DEF ChoiceInv, TypeOK, ledger
<1>1. /\ owner = p /\ cont # None /\ cont.state # "WAITING" /\ cont.sel.at.epoch = id.epoch
      /\ id' = [id EXCEPT !.exec = @ + 1] /\ policy' = None
      /\ cont' = [cont EXCEPT !.state = "CHOICE_CONSUMED", !.applied = TRUE,
                              !.binding = [at |-> id', policy |-> cont.binding.policy]]
      /\ UNCHANGED <<status, phase, owner, pidAlive, request, dirty, issued, expired, ledger, path, seen, sub>>
    BY DEF BindSemantics, At, Consumed, ChoiceCurrent
<1>2. pc' \in [Procs -> Steps] /\ pc'[p] = "rebind"
    BY GotoType DEF BindSemantics, Steps, Fencing
<1>3. id' \in Identity /\ id'.epoch = id.epoch
    BY <1>1, IdUpdates DEF RecordOK
<1>4. cont \in Continuation /\ [at |-> id', policy |-> cont.binding.policy] \in Binding
    BY <1>1, <1>3 DEF RecordOK, Continuation, Binding
<1>5. /\ cont' \in Continuation /\ cont' # None /\ cont'.state = "CHOICE_CONSUMED"
      /\ cont'.req = cont.req /\ cont'.sel = cont.sel
    <2> DEFINE b == [at |-> id', policy |-> cont.binding.policy]
    <2>1. cont' = [cont EXCEPT !.state = "CHOICE_CONSUMED", !.applied = TRUE, !.binding = b]
        BY <1>1
    <2>2. b \in Binding
        BY <1>4
    <2> HIDE DEF b
    <2>3. /\ cont' \in Continuation /\ cont'.state = "CHOICE_CONSUMED"
          /\ cont'.req = cont.req /\ cont'.sel = cont.sel
        BY <1>4, <2>1, <2>2, ContApplied
    <2> QED
        BY <2>3, NoneAssumption
<1>6. TypeOK'
    BY <1>1, <1>2, <1>3, <1>5 DEF RecordOK, LedgerOK, ProcsOK
<1>7. Works(p)' /\ ChoiceKept
    BY <1>1, <1>3, <1>5 DEF Works, ChoiceKept, Waiting, Consumed
<1> QED
    BY <1>1, <1>6, <1>7, Ordinary DEF BindSemantics

LEMMA PlanWavesStep == ASSUME ChoiceInv, NEW p \in Procs, PlanWaves(p) PROVE ChoiceInv'
<1> USE DEF ChoiceInv, TypeOK, ledger
<1>1. /\ pc[p] = "plan" /\ owner = p /\ id' = [id EXCEPT !.exec = @ + 1] /\ policy' = None
      /\ UNCHANGED <<status, phase, owner, pidAlive, request, cont, dirty, issued, expired, ledger, path, seen, sub>>
    BY DEF PlanWaves, At
<1>2. pc' \in [Procs -> Steps] /\ pc'[p] = "blueprint"
    BY GotoType DEF PlanWaves, Steps, Fencing
<1>3. id' \in Identity /\ id'.epoch = id.epoch
    BY <1>1, IdUpdates DEF RecordOK
<1>4. TypeOK'
    BY <1>1, <1>2, <1>3 DEF RecordOK, LedgerOK, ProcsOK
<1>5. Works(p)' /\ ChoiceKept
    BY <1>1, <1>3 DEF Works, Working, ChoiceKept, Waiting, Consumed
<1> QED
    BY <1>1, <1>4, <1>5, Ordinary DEF PlanWaves

\* Steps that move the program counter only.
LEMMA PlainStep ==
    ASSUME ChoiceInv, NEW p \in Procs, NothingToApply(p) \/ RunUnplanned(p) \/ BlueprintRefused(p)
    PROVE  ChoiceInv'
<1> USE DEF ChoiceInv, TypeOK, ledger, record
<1>1. PICK s \in {"plan", "run-pass", "run-fail"} : Goto(p, s) /\ (s = "plan" => cont = None)
    BY DEF NothingToApply, RunUnplanned, BlueprintRefused
<1>2. UNCHANGED <<record, dirty, issued, expired, ledger, path, seen, sub>>
    BY DEF NothingToApply, RunUnplanned, BlueprintRefused
<1>3. pc' \in [Procs -> Steps] /\ pc'[p] = s
    BY <1>1, GotoType DEF Steps, Fencing
<1>4. TypeOK'
    BY <1>2, <1>3 DEF RecordOK, LedgerOK, ProcsOK
<1>5. Works(p)' /\ ChoiceKept
    BY <1>1, <1>2, <1>3 DEF Works, Working, ChoiceKept, Waiting, Consumed
<1> QED
    BY <1>1, <1>2, <1>4, <1>5, Ordinary

LEMMA CompleteStep == ASSUME ChoiceInv, NEW p \in Procs, Complete(p) PROVE ChoiceInv'
<1> USE DEF ChoiceInv, TypeOK, ledger
<1>1. PICK s \in {"end-pass", "end-fail"} : Goto(p, s)
    BY DEF Complete
<1>2. pc' \in [Procs -> Steps] /\ pc'[p] = s
    BY <1>1, GotoType DEF Steps, Fencing
<1>3. TypeOK'
    <2>1. 0 \in 0..issued /\ request' = 0 /\ issued' = issued
        BY RequestsAssumption DEF Complete, LedgerOK
    <2>2. RecordOK'
        BY <2>1 DEF Complete, RecordOK
    <2> QED
        BY <1>2, <2>2 DEF Complete, LedgerOK, ProcsOK
<1>4. Works(p)' /\ ChoiceKept
    BY DEF Complete, Works, ChoiceKept
<1> QED
    BY <1>1, <1>3, <1>4, Ordinary DEF Complete

LEMMA FinishStep == ASSUME ChoiceInv, NEW p \in Procs, Finish(p) PROVE ChoiceInv'
BY TerminalStep DEF Finish

----------------------------------------------------------------------------
(***************************************************************************)
(* The submitters.                                                         *)
(***************************************************************************)

\* A step outside the controllers: the record stays, the ledger grows.
LEMMA OutsideStep ==
    ASSUME ChoiceInv, TypeOK', Grows, \A h \in Humans : Answers(h)',
           \A r \in Requests : reserved'[r] # None => r <= issued,
           UNCHANGED <<record, issued, pc, seen>>
    PROVE  ChoiceInv'
<1> USE DEF ChoiceInv, record
<1>1. Known'
    BY DEF Known
<1>2. cont # None => cont.req \in Requests
    BY DEF TypeOK, RecordOK, Continuation
<1>3. ReceiptBacked'
    BY <1>2 DEF ReceiptBacked, Receipt, Consumed, Grows
<1>4. OpenKept
    BY DEF OpenKept, Waiting
<1>5. ASSUME NEW p \in Procs PROVE Reads(p)' /\ Works(p)'
    <2>1. Reads(p)'
        BY <1>4, ReadsKept
    <2>2. Works(p)'
        BY DEF Works, Consumed
    <2> QED
        BY <2>1, <2>2
<1> QED
    BY <1>1, <1>3, <1>5

LEMMA SubmissionUpdates ==
    ASSUME NEW h \in Humans, NEW step \in {"record", "accepted", "conflict", "crashed"},
           TypeOK, Told(h, step)
    PROVE  /\ sub' \in [Humans -> Submission]
           /\ sub'[h].step = step /\ sub'[h].req = sub[h].req /\ sub'[h].binding = sub[h].binding
           /\ \A k \in Humans : k # h => sub'[k] = sub[k]
<1>1. sub[h] \in Submission
    BY DEF TypeOK
<1>2. /\ [sub[h] EXCEPT !.step = step] \in Submission
      /\ [sub[h] EXCEPT !.step = step].step = step
      /\ [sub[h] EXCEPT !.step = step].req = sub[h].req
      /\ [sub[h] EXCEPT !.step = step].binding = sub[h].binding
    BY <1>1 DEF Submission
<1>3. sub' = [sub EXCEPT ![h] = [sub[h] EXCEPT !.step = step]]
    BY DEF Told, TypeOK
<1> QED
    BY <1>2, <1>3 DEF TypeOK

LEMMA SubmitStep == ASSUME ChoiceInv, NEW h \in Humans, Submit(h) PROVE ChoiceInv'
<1> USE RequestsAssumption DEF ChoiceInv, TypeOK, ledger, record
<1>1. /\ cont # None /\ request = cont.req /\ cont.binding = Here
      /\ sub' = [sub EXCEPT ![h] = [step |-> "reserve", req |-> request, binding |-> Here]]
      /\ UNCHANGED <<record, dirty, issued, expired, ledger, pc, path, seen>>
    BY DEF Submit, StillWaiting, Waiting
<1>2. request \in Requests /\ request \in 0..MaxRequests /\ request <= issued /\ Here \in Binding
    BY <1>1 DEF RecordOK, LedgerOK, Continuation, Requests
<1>3. [step |-> "reserve", req |-> request, binding |-> Here] \in Submission
    BY <1>2 DEF Submission
<1>4. TypeOK'
    BY <1>1, <1>3 DEF RecordOK, LedgerOK, ProcsOK
<1>5. Grows
    BY <1>1 DEF Grows, LedgerOK
<1>6. sub'[h] = [step |-> "reserve", req |-> request, binding |-> Here] /\ \A k \in Humans : k # h => sub'[k] = sub[k]
    BY <1>1
<1>7. Answers(h)'
    BY <1>1, <1>2, <1>6 DEF Answers
<1>8. ASSUME NEW k \in Humans, k # h PROVE Answers(k)'
    BY <1>5, <1>6, <1>8, AnswersKept
<1> QED
    BY <1>1, <1>4, <1>5, <1>7, <1>8, OutsideStep DEF Known

\* The reservation is created exclusively: the first answer stands.
LEMMA ReserveStep == ASSUME ChoiceInv, NEW h \in Humans, Reserve(h) PROVE ChoiceInv'
<1> USE RequestsAssumption DEF ChoiceInv, TypeOK, record
<1>1. /\ sub[h].step = "reserve"
      /\ UNCHANGED <<record, dirty, issued, expired, decided, consumed, pc, path, seen>>
    BY DEF Reserve
<1>2. sub[h].req \in Requests /\ sub[h].req <= issued /\ sub[h].binding \in Binding
    BY <1>1 DEF Answers
<1>3. CASE reserved[sub[h].req] = None
    <2> DEFINE a == [by |-> h, binding |-> sub[h].binding]
    <2>1. reserved' = [reserved EXCEPT ![sub[h].req] = a] /\ Told(h, "record")
        BY <1>3 DEF Reserve
    <2>2. a \in Answer /\ a # None /\ a.by = h
        BY <1>2, NoneAssumption DEF Answer
    <2> HIDE DEF a
    <2>3. /\ sub' \in [Humans -> Submission]
          /\ sub'[h].step = "record" /\ sub'[h].req = sub[h].req /\ sub'[h].binding = sub[h].binding
          /\ \A k \in Humans : k # h => sub'[k] = sub[k]
        BY <2>1, SubmissionUpdates
    <2>4. /\ reserved' \in [Requests -> Answer \cup {None}] /\ reserved'[sub[h].req] = a
          /\ \A r \in Requests : r # sub[h].req => reserved'[r] = reserved[r]
        BY <1>2, <2>1, <2>2 DEF LedgerOK
    <2>5. TypeOK'
        BY <1>1, <2>3, <2>4 DEF RecordOK, LedgerOK, ProcsOK
    <2>6. Grows
        BY <1>1, <1>3, <2>4 DEF Grows, LedgerOK
    <2>7. Answers(h)'
        BY <1>1, <1>2, <2>2, <2>3, <2>4 DEF Answers
    <2>8. ASSUME NEW k \in Humans, k # h PROVE Answers(k)'
        BY <2>3, <2>6, <2>8, AnswersKept
    <2>9. \A r \in Requests : reserved'[r] # None => r <= issued
        BY <1>2, <2>4 DEF Known
    <2> QED
        BY <1>1, <2>5, <2>6, <2>7, <2>8, <2>9, OutsideStep
<1>4. CASE reserved[sub[h].req] # None
    <2>1. Told(h, "conflict") /\ reserved' = reserved
        BY <1>4 DEF Reserve
    <2>2. /\ sub' \in [Humans -> Submission]
          /\ sub'[h].step = "conflict" /\ sub'[h].req = sub[h].req /\ sub'[h].binding = sub[h].binding
          /\ \A k \in Humans : k # h => sub'[k] = sub[k]
        BY <2>1, SubmissionUpdates
    <2>3. TypeOK' /\ Grows
        BY <1>1, <2>1, <2>2 DEF RecordOK, LedgerOK, ProcsOK, Grows
    <2>4. Answers(h)'
        BY <1>1, <1>2, <2>2 DEF Answers
    <2>5. ASSUME NEW k \in Humans, k # h PROVE Answers(k)'
        BY <2>2, <2>3, <2>5, AnswersKept
    <2> QED
        BY <1>1, <2>1, <2>3, <2>4, <2>5, OutsideStep DEF Known
<1> QED
    BY <1>3, <1>4

LEMMA RecordDecisionStep == ASSUME ChoiceInv, NEW h \in Humans, RecordDecision(h) PROVE ChoiceInv'
<1> USE RequestsAssumption DEF ChoiceInv, TypeOK, record
<1>1. /\ sub[h].step = "record" /\ decided' = decided \cup {sub[h].req}
      /\ UNCHANGED <<record, dirty, issued, expired, reserved, consumed, pc, path, seen>>
    BY DEF RecordDecision
<1>2. PICK step \in {"conflict", "accepted"} : Told(h, step)
    BY DEF RecordDecision
<1>3. /\ sub[h].req \in 1..issued /\ sub[h].req \in Requests /\ sub[h].binding \in Binding /\ sub[h].req <= issued
      /\ reserved[sub[h].req] # None /\ reserved[sub[h].req].by = h
    BY <1>1 DEF Answers, LedgerOK, Requests
<1>4. /\ sub' \in [Humans -> Submission]
      /\ sub'[h].step = step /\ sub'[h].req = sub[h].req /\ sub'[h].binding = sub[h].binding
      /\ \A k \in Humans : k # h => sub'[k] = sub[k]
    BY <1>2, SubmissionUpdates
<1>5. TypeOK' /\ Grows
    <2>1. RecordOK' /\ ProcsOK'
        BY <1>1 DEF RecordOK, ProcsOK
    <2>2. LedgerOK'
        BY <1>1, <1>3 DEF LedgerOK
    <2>3. Grows
        BY <1>1 DEF LedgerOK, Grows
    <2> QED
        BY <1>4, <2>1, <2>2, <2>3
<1>6. Answers(h)'
    BY <1>1, <1>3, <1>4 DEF Answers
<1>7. ASSUME NEW k \in Humans, k # h PROVE Answers(k)'
    BY <1>4, <1>5, <1>7, AnswersKept
<1> QED
    BY <1>1, <1>5, <1>6, <1>7, OutsideStep DEF Known

LEMMA SubmitterCrashStep == ASSUME ChoiceInv, NEW h \in Humans, SubmitterCrash(h) PROVE ChoiceInv'
<1> USE RequestsAssumption DEF ChoiceInv, TypeOK, record, ledger
<1>1. /\ sub[h].step \in {"reserve", "record"} /\ Told(h, "crashed")
      /\ UNCHANGED <<record, dirty, issued, expired, ledger, pc, path, seen>>
    BY DEF SubmitterCrash
<1>2. /\ sub' \in [Humans -> Submission]
      /\ sub'[h].step = "crashed" /\ sub'[h].req = sub[h].req /\ sub'[h].binding = sub[h].binding
      /\ \A k \in Humans : k # h => sub'[k] = sub[k]
    BY <1>1, SubmissionUpdates
<1>3. TypeOK' /\ Grows
    BY <1>1, <1>2 DEF RecordOK, LedgerOK, ProcsOK, Grows
<1>4. Answers(h)'
    BY <1>1, <1>2 DEF Answers
<1>5. ASSUME NEW k \in Humans, k # h PROVE Answers(k)'
    BY <1>2, <1>3, <1>5, AnswersKept
<1> QED
    BY <1>1, <1>3, <1>4, <1>5, OutsideStep DEF Known

LEMMA ExpireStep == ASSUME ChoiceInv, Expire PROVE ChoiceInv'
<1> USE RequestsAssumption DEF ChoiceInv, TypeOK, record, ledger
<1>1. request \in 1..issued
    BY DEF Expire, RecordOK, LedgerOK
<1>2. TypeOK' /\ Grows
    <2>1. RecordOK' /\ ProcsOK'
        BY DEF Expire, RecordOK, ProcsOK
    <2>2. LedgerOK' /\ Grows
        BY <1>1 DEF Expire, LedgerOK, Grows
    <2> QED
        BY <2>1, <2>2 DEF Expire
<1>3. ASSUME NEW h \in Humans PROVE Answers(h)'
    BY <1>2, AnswersKept DEF Expire
<1> QED
    BY <1>2, <1>3, OutsideStep DEF Expire, Known

----------------------------------------------------------------------------

LEMMA AskingStep ==
    ASSUME ChoiceInv, NEW p \in Procs,
           EnterWaiting(p) \/ EnterConsumed(p) \/ Suspend(p) \/ ReissueExpired(p)
    PROVE  ChoiceInv' /\ Asks(p)
<1>1. owner = p /\ Asks(p) /\ path' \in [Procs -> {"first", "resumed"}]
    BY DEF EnterWaiting, EnterConsumed, Suspend, ReissueExpired, At, ChoiceInv, TypeOK, ProcsOK
<1> QED
    BY <1>1, AsksStep

LEMMA ControllerStep == ASSUME ChoiceInv, NEW p \in Procs, Controller(p) PROVE ChoiceInv'
<1>1. CASE \/ Fenced(p) \/ BootstrapRefused(p) \/ EnterRefused(p)
           \/ ConsumeRefused(p) \/ MarkRefused(p) \/ ApplyRefused(p)
    BY <1>1, FailsStep DEF Fenced, BootstrapRefused, EnterRefused, ConsumeRefused, MarkRefused,
       ApplyRefused
<1>2. CASE Bootstrap(p) \/ Rebind(p) \/ CompileBlueprint(p)
    BY <1>2, BindPolicyStep DEF Bootstrap, Rebind, CompileBlueprint
<1> QED
    BY <1>1, <1>2, StartRunningStep, EnterFreshStep, AskingStep, AuthorReadyStep, WaitStep, PollStep,
       ConsumeExactStep, MarkConsumedStep, ResumeStep, CompileStep, PlainStep, BindSemanticsStep,
       PlanWavesStep, CompleteStep, FinishStep
    DEF Controller

LEMMA ChoiceInvStep == ChoiceInv /\ [Next]_vars => ChoiceInv'
<1> SUFFICES ASSUME ChoiceInv, [Next]_vars PROVE ChoiceInv'
    OBVIOUS
<1>1. ASSUME NEW p \in Procs, Launch(p) \/ TakeOver(p) PROVE ChoiceInv'
    BY <1>1, ClaimedStep DEF Launch, TakeOver
<1>2. ASSUME NEW h \in Humans, Submitter(h) PROVE ChoiceInv'
    BY <1>2, SubmitStep, ReserveStep, RecordDecisionStep, SubmitterCrashStep DEF Submitter
<1>3. CASE UNCHANGED vars
    <2>1. UNCHANGED <<record, dirty, issued, expired, ledger, pc, path, seen, sub>>
        BY <1>3 DEF vars, record, ledger
    <2>2. TypeOK' /\ Grows
        BY <2>1, RequestsAssumption DEF record, ledger, ChoiceInv, TypeOK, RecordOK, LedgerOK,
           ProcsOK, Grows
    <2>3. ASSUME NEW h \in Humans PROVE Answers(h)'
        BY <2>1, <2>2, AnswersKept DEF ChoiceInv
    <2> QED
        BY <2>1, <2>2, <2>3, OutsideStep DEF ChoiceInv, Known, ledger
<1> QED
    BY <1>1, <1>2, <1>3, CrashStep, ControllerStep, ExpireStep DEF Next

LEMMA Choice == Spec => []ChoiceInv
BY ChoiceInvInit, ChoiceInvStep, PTL DEF Spec

\* Every value of every variable is well formed in every reachable state.
THEOREM ChoiceTypes == Spec => []TypeOK
<1>1. ChoiceInv => TypeOK
    BY DEF ChoiceInv
<1> QED
    BY <1>1, Choice, PTL

\* A record that says a choice was consumed has the decision, its receipt and
\* a reservation under exactly the binding the record saved.
THEOREM ConsumedHasReceipt == Spec => []ReceiptBacked
<1>1. ChoiceInv => ReceiptBacked
    BY DEF ChoiceInv
<1> QED
    BY <1>1, Choice, PTL

\* The owner works on with a choice only if it was given in the owner's epoch,
\* whatever crashes and takeovers came before.
THEOREM ChoiceIsCurrent == Spec => []WorkUsesCurrentChoice
<1>1. ChoiceInv => WorkUsesCurrentChoice
    BY DEF ChoiceInv, Works, WorkUsesCurrentChoice
<1> QED
    BY <1>1, Choice, PTL

\* The answer of a submitter that was told "accepted" is the one in the ledger.
THEOREM AcceptedAnswerStands == Spec => []AcceptedStands
<1>1. ChoiceInv => AcceptedStands
    BY DEF ChoiceInv, Answers, AcceptedStands
<1> QED
    BY <1>1, Choice, PTL

\* A request that opens is new to the ledger: no answer and no receipt of an
\* earlier request can be replayed for it.
THEOREM ConsentIsFresh == Spec => FreshConsent
<1> DEFINE Fresh == request' \notin {0, request} => reserved[request'] = None /\ request' \notin consumed
<1>1. ASSUME ChoiceInv, NEW p \in Procs, Asks(p) PROVE Fresh
    <2>1. request' = issued + 1 /\ issued + 1 \in Requests
        BY <1>1 DEF Asks, NewRequest
    <2>2. issued \in Nat /\ consumed \subseteq 1..issued
        BY <1>1, RequestsAssumption DEF ChoiceInv, TypeOK, LedgerOK
    <2> QED
        BY <1>1, <2>1, <2>2 DEF ChoiceInv, Known
<1>2. ASSUME NEW p \in Procs, Fails(p) PROVE request' \in {0, request}
    BY <1>2 DEF Fails, Terminal, record
<1>3. ASSUME NEW p \in Procs, Controller(p) PROVE request' \in {0, request} \/ Asks(p)
    <2>1. CASE \/ Fenced(p) \/ BootstrapRefused(p) \/ EnterRefused(p)
               \/ ConsumeRefused(p) \/ MarkRefused(p) \/ ApplyRefused(p)
        BY <1>2, <2>1 DEF Fenced, BootstrapRefused, EnterRefused, ConsumeRefused, MarkRefused,
           ApplyRefused
    <2>2. CASE EnterWaiting(p) \/ EnterConsumed(p) \/ Suspend(p) \/ ReissueExpired(p)
        BY <2>2 DEF EnterWaiting, EnterConsumed, Suspend, ReissueExpired
    <2>3. CASE \/ StartRunning(p) \/ Bootstrap(p) \/ Rebind(p) \/ CompileBlueprint(p) \/ EnterFresh(p)
               \/ AuthorReady(p) \/ Wait(p) \/ Poll(p) \/ ConsumeExact(p) \/ MarkConsumed(p) \/ Resume(p)
        BY <2>3 DEF StartRunning, Bootstrap, Rebind, CompileBlueprint, BindPolicy, EnterFresh,
           AuthorReady,
                    Wait, Poll, ConsumeExact, MarkConsumed, Resume, record
    <2>4. CASE \/ Compile(p) \/ NothingToApply(p) \/ BindSemantics(p) \/ RunUnplanned(p) \/ PlanWaves(p)
               \/ BlueprintRefused(p) \/ Complete(p) \/ Finish(p)
        BY <2>4 DEF Compile, NothingToApply, BindSemantics, RunUnplanned, PlanWaves, BlueprintRefused,
                    Complete, Finish, Terminal, record
    <2> QED
        BY <1>3, <2>1, <2>2, <2>3, <2>4 DEF Controller
<1>4. ASSUME NEW p \in Procs, Launch(p) \/ TakeOver(p) \/ Crash(p) PROVE request' = request
    BY <1>4 DEF Launch, TakeOver, Claimed, Crash
<1>5. ASSUME NEW h \in Humans, Submitter(h) PROVE request' = request
    BY <1>5 DEF Submitter, Submit, Reserve, RecordDecision, SubmitterCrash, record
<1>6. ChoiceInv /\ [Next]_vars => [Fresh]_vars
    BY <1>1, <1>3, <1>4, <1>5 DEF Next, Expire, record
<1> QED
    BY <1>6, Choice, PTL DEF Spec, FreshConsent

=============================================================================
