--------------------------- MODULE MCBoardTransport ---------------------------
(* BoardTransport for TLC: scripts that between them take each phase of the   *)
(* simulation's own, on a ring of two slots that every one of them wraps.     *)
EXTENDS BoardTransportInv

\* A command polled for, one published on into a full ring, one by interrupt.
Poll(k) == [kind |-> k, irq |-> FALSE, room |-> FALSE]
Full(k) == [kind |-> k, irq |-> FALSE, room |-> TRUE]
Irq(k)  == [kind |-> k, irq |-> TRUE, room |-> FALSE]

MCScripts ==
  { [wedge_at |-> None,
     cmds |-> <<Poll("wide"), Poll("badbank"), Poll("after"), Poll("gemm")>>],
    [wedge_at |-> None,
     cmds |-> <<Poll("wide"), Poll("badbank"), Full("after"), Full("gemm")>>],
    [wedge_at |-> None,
     cmds |-> <<Poll("unusable"), Poll("after"), Irq("wide"), Irq("after")>>],
    [wedge_at |-> 1,
     cmds |-> <<Poll("gemm"), Poll("wide"), Poll("badbank"), Irq("after")>>],
    [wedge_at |-> 1,
     cmds |-> <<Poll("gemm"), Poll("wide"), Full("gemm"), Full("after")>>],
    [wedge_at |-> 2,
     cmds |-> <<Irq("badbank"), Poll("gemm"), Irq("gemm"), Poll("wide")>>] }

=============================================================================
