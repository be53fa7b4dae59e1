--------------------------- MODULE GroupContract ---------------------------
(***************************************************************************)
(* What a routine.Group promises the server that owns it, with none of its *)
(* mechanism: a group opens at most once, work joins it only while it is   *)
(* open, and a call of Stop returns only to a closed, empty group.         *)
(* RoutineGroup implements it.                                             *)
(***************************************************************************)
CONSTANTS Resident,  \* what Start starts
          Visitor,   \* what Task hands in
          Caller     \* the calls of Stop

VARIABLES phase,     \* "new", "open", then "closed"
          active,    \* the goroutines that have not returned
          returned   \* the calls of Stop that have returned

vars == <<phase, active, returned>>

TypeOK ==
  /\ phase \in {"new", "open", "closed"}
  /\ active \in SUBSET (Resident \cup Visitor)
  /\ returned \in SUBSET Caller

Init ==
  /\ phase = "new"
  /\ active = {}
  /\ returned = {}

Open ==
  /\ phase = "new"
  /\ phase' = "open"
  /\ active' \in SUBSET Resident
  /\ UNCHANGED returned

Join(t) ==
  /\ phase = "open"
  /\ active' = active \cup {t}
  /\ UNCHANGED <<phase, returned>>

Leave(r) ==
  /\ r \in active
  /\ active' = active \ {r}
  /\ UNCHANGED <<phase, returned>>

Close ==
  /\ phase' = "closed"
  /\ UNCHANGED <<active, returned>>

\* A Stop of a group that never opened closes it and returns in one step.
CloseNew(s) ==
  /\ phase # "open"
  /\ active = {}
  /\ phase' = "closed"
  /\ returned' = returned \cup {s}
  /\ UNCHANGED active

Return(s) ==
  /\ phase = "closed"
  /\ active = {}
  /\ returned' = returned \cup {s}
  /\ UNCHANGED <<phase, active>>

Next ==
  \/ Open
  \/ Close
  \/ \E t \in Visitor : Join(t)
  \/ \E r \in active : Leave(r)
  \/ \E s \in Caller : CloseNew(s) \/ Return(s)

Spec == Init /\ [][Next]_vars

\* After any Stop has returned, the group is closed for good and nothing of
\* it runs: what its routines use can be closed (routine.go:232).
Quiescent == returned # {} => phase = "closed" /\ active = {}
=============================================================================
