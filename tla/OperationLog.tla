---------------------------- MODULE OperationLog ----------------------------
(***************************************************************************)
(* What the durable operation store promises: a commit replaces the record *)
(* and publishes its event in one indivisible step.  There is one record,  *)
(* with a revision that commits may advance, and one event per commit, in  *)
(* commit order.                                                           *)
(***************************************************************************)
EXTENDS Naturals, Sequences

VARIABLES commits,     \* how many commits the record has seen
          revision,    \* revision of the record
          events       \* the events published so far

Init == commits = 0 /\ revision = 0 /\ events = <<>>

Commit ==
    /\ commits' = commits + 1
    /\ revision' \in {revision, revision + 1}
    /\ events' = Append(events, [commit |-> commits', rev |-> revision'])

Spec == Init /\ [][Commit]_<<commits, revision, events>>
=============================================================================
