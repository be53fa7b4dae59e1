--------------------------- MODULE MCCredentials ---------------------------
EXTENDS Credentials, TLC

\* What an idle process last did, and what was last read with the lock, have no
\* part in what comes next: Begin sets the one, Acquire the other.
Relevant ==
  <<disk, lock, pc, server, withdrawn, faults, IF lock = NoOne THEN <<>> ELSE inventory,
    [p \in Procs |-> IF pc[p] = "idle" THEN <<>> ELSE <<op[p], org[p], work[p]>>]>>
=============================================================================
