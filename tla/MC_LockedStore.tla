--------------------------- MODULE MC_LockedStore ---------------------------
(* Two callers, each in a process of its own. *)
EXTENDS LockedStore

CONSTANTS c1, c2, p1, p2

MCCallers == {c1, c2}
MCPids == {p1, p2}
MCPidOf == [c \in MCCallers |-> IF c = c1 THEN p1 ELSE p2]
=============================================================================
