---------------------------- MODULE SharedProofs ----------------------------
(***************************************************************************)
(* Theorems of the shared packages, and of what the commands make of them. *)
(* RoutineGroup, for any routines, tasks and calls of Stop: whatever       *)
(* closes done has first seen every goroutine gone after stopped was set,  *)
(* and nothing starts a goroutine once it is.  Backoff, for any width of   *)
(* the integers and any number of attempts.  Failures, whatever the codes  *)
(* and the chain of a failure.  Calls, for any door and anything wrong:    *)
(* what is wrong and not yet met is still to come, so that the first that  *)
(* is met is the one told.  Discovery, for any ops, groups, codes and      *)
(* callers.  Inputs, for any declarations and anything typed.              *)
(***************************************************************************)
EXTENDS RoutineGroup, Backoff, Calls, Discovery, Inputs,
        SequenceTheorems, FiniteSetTheorems, WellFoundedInduction, TLAPS

\* What the actions of the goroutines have in common.
GoroutineMoves ==
  \E r \in Goroutines, to \in {"ready", "waiting", "running", "backoff", "returned"} :
    /\ pc[r] \in ActivePC
    /\ pc' = [pc EXCEPT ![r] = to]
    /\ UNCHANGED <<group, ctxs, waiter, stop, expired, crash>>
    /\ cutShort' = cutShort \/ drain = "cancelled"

\* The waiter: what each of its states says of the group.
WaiterInv ==
  /\ stopping <=> waiter # "none"
  /\ waiter # "none" => started /\ stopped /\ drain # "nil"
  /\ waiter \in {"closing", "gone"} => Active = {}
  /\ done <=> waiter = "gone" \/ (started /\ drain = "nil")
  /\ drain = "nil" => Active = {}
  /\ started /\ drain = "nil" => stopped
  /\ drain # "nil" => started

\* A call of Stop: where it waits, and what its return shows.
StopInv ==
  /\ \A s \in Stoppers :
       /\ stop[s] # "idle" => stopped
       /\ stop[s] \in {"waiting", "cutting", "err"} => started
       /\ stop[s] \in {"nil", "err"} => done \/ ~started
       /\ stop[s] \in {"cutting", "err"} => expired[s]
  /\ stopped /\ started /\ drain # "nil" => stopping

\* Why a drain context has ended, and why a goroutine was reported.
DrainInv ==
  /\ drain = "cancelled" =>
       \/ waiter \in {"closing", "gone"}
       \/ \E s \in Stoppers : stop[s] \in {"cutting", "err"}
  /\ cutShort # {} => \E s \in Stoppers : stop[s] \in {"cutting", "err"}

IInv == TypeOK /\ WaiterInv /\ StopInv /\ DrainInv

\* What has no drain context has run nothing.
Unrun == drain = "nil" => \A r \in Goroutines : pc[r] = "idle"
-----------------------------------------------------------------------------
(* Type correctness.                                                       *)

\* Every step keeps every variable in its type, and each kind of goroutine
\* among the places its own code has.
THEOREM TypeCorrect == Spec => []TypeOK
<1>1. Init => TypeOK
  BY RoutineAssumption
  DEF Init, TypeOK, Goroutines, Routines, ActivePC
<1>2. TypeOK /\ [Next]_vars => TypeOK'
  <2> SUFFICES ASSUME TypeOK, [Next]_vars PROVE TypeOK'
    OBVIOUS
  <2> USE RoutineAssumption DEF TypeOK, Goroutines, Routines, ActivePC
  <2>1. CASE Start
    BY <2>1, ZenonT(60) DEF Start, history
  <2>2. CASE StartTwice
    BY <2>2 DEF StartTwice, Die, group, ctxs, history
  <2>3. ASSUME NEW r \in Routines, Register(r) PROVE TypeOK'
    BY <2>3 DEF Register, Die, group, ctxs, history
  <2>4. ASSUME NEW t \in Tasks, Task(t) PROVE TypeOK'
    BY <2>4 DEF Task, group, ctxs, history
  <2>5. ASSUME NEW e \in Everys, EveryStep(e) PROVE TypeOK'
    <3>1. CASE EveryChecks(e)
      BY <3>1 DEF EveryChecks, Moves, group, ctxs, history
    <3>2. CASE EveryFires(e)
      BY <3>2 DEF EveryFires, Begins, Moves, group, ctxs, history
    <3>3. CASE EveryWakes(e)
      BY <3>3 DEF EveryWakes, Moves, group, ctxs, history
    <3>4. CASE EveryEnds(e)
      BY <3>4 DEF EveryEnds, Moves, ReportsCutShort, group, ctxs, history
    <3> QED
      BY <2>5, <3>1, <3>2, <3>3, <3>4 DEF EveryStep
  <2>6. ASSUME NEW l \in Loops, LoopStep(l) PROVE TypeOK'
    <3>1. CASE LoopEnds(l)
      BY <3>1 DEF LoopEnds, Moves, group, ctxs, history
    <3>2. CASE LoopRestarts(l)
      BY <3>2 DEF LoopRestarts, Begins, Moves, group, ctxs, history
    <3>3. CASE LoopWakes(l)
      BY <3>3 DEF LoopWakes, Moves, group, ctxs, history
    <3> QED
      BY <2>6, <3>1, <3>2, <3>3 DEF LoopStep
  <2>7. ASSUME NEW w \in Workers, WorkerEnds(w) PROVE TypeOK'
    BY <2>7 DEF WorkerEnds, Moves, ReportsCutShort, group, ctxs, history
  <2>8. ASSUME NEW t \in Tasks, TaskEnds(t) PROVE TypeOK'
    BY <2>8 DEF TaskEnds, Moves, ReportsCutShort, group, ctxs, history
  <2>9. ASSUME NEW r \in Goroutines, Panics(r) PROVE TypeOK'
    BY <2>9 DEF Panics, Die, group, ctxs, history
  <2>10. CASE WaiterDrains
    BY <2>10 DEF WaiterDrains, group, ctxs, history
  <2>11. CASE WaiterCloses
    BY <2>11 DEF WaiterCloses, group, ctxs, history
  <2>12. ASSUME NEW s \in Stoppers,
                StopCall(s) \/ DeadlineEnds(s) \/ StopDone(s) \/ StopCutDone(s)
         PROVE TypeOK'
    <3>1. CASE StopCall(s)
      BY <3>1, ZenonT(60) DEF StopCall, ctxs, history
    <3>2. CASE DeadlineEnds(s)
      BY <3>2 DEF DeadlineEnds, group, ctxs, history
    <3>3. CASE StopDone(s) \/ StopCutDone(s)
      BY <3>3 DEF StopDone, StopCutDone, group, ctxs, history
    <3> QED
      BY <2>12, <3>1, <3>2, <3>3
  <2>13. ASSUME NEW s \in Stoppers, StopCuts(s) PROVE TypeOK'
    BY <2>13 DEF StopCuts, Die, group, ctxs, history
  <2>14. CASE UNCHANGED vars
    BY <2>14 DEF vars, group, ctxs, history
  <2> QED
    BY <2>1, <2>2, <2>3, <2>4, <2>5, <2>6, <2>7, <2>8, <2>9, <2>10, <2>11, <2>12,
       <2>13, <2>14
    DEF Next, Owner, Goroutine, Stopping
<1> QED
  BY <1>1, <1>2, PTL DEF Spec
-----------------------------------------------------------------------------
(* The inductive invariant.                                                *)

\* A step of a goroutine moves that goroutine alone, from an active place,
\* and reports it cut short only once the drain context has ended.
LEMMA GoroutineStep ==
  ASSUME TypeOK
  PROVE  /\ \A e \in Everys : EveryStep(e) => GoroutineMoves
         /\ \A l \in Loops : LoopStep(l) => GoroutineMoves
         /\ \A w \in Workers : WorkerEnds(w) => GoroutineMoves
         /\ \A t \in Tasks : TaskEnds(t) => GoroutineMoves
<1> USE DEF GoroutineMoves, Moves, Goroutines, Routines, ActivePC, history
<1>1. ASSUME NEW e \in Everys, EveryStep(e) PROVE GoroutineMoves
  <2>1. CASE EveryChecks(e)
    BY <2>1 DEF EveryChecks
  <2>2. CASE EveryFires(e)
    BY <2>2 DEF EveryFires, Begins
  <2>3. CASE EveryWakes(e)
    BY <2>3 DEF EveryWakes
  <2>4. CASE EveryEnds(e)
    BY <2>4 DEF EveryEnds, ReportsCutShort
  <2> QED
    BY <1>1, <2>1, <2>2, <2>3, <2>4 DEF EveryStep
<1>2. ASSUME NEW l \in Loops, LoopStep(l) PROVE GoroutineMoves
  <2>1. CASE LoopEnds(l)
    BY <2>1 DEF LoopEnds
  <2>2. CASE LoopRestarts(l)
    BY <2>2 DEF LoopRestarts, Begins
  <2>3. CASE LoopWakes(l)
    BY <2>3 DEF LoopWakes
  <2> QED
    BY <1>2, <2>1, <2>2, <2>3 DEF LoopStep
<1>3. ASSUME NEW w \in Workers, WorkerEnds(w) PROVE GoroutineMoves
  BY <1>3 DEF WorkerEnds, ReportsCutShort
<1>4. ASSUME NEW t \in Tasks, TaskEnds(t) PROVE GoroutineMoves
  BY <1>4 DEF TaskEnds, ReportsCutShort
<1> QED
  BY <1>1, <1>2, <1>3, <1>4

\* Such a step starts no goroutine.
LEMMA MovesShrink ==
  ASSUME TypeOK, GoroutineMoves
  PROVE  Active' \subseteq Active /\ (Active = {} => FALSE)
BY DEF TypeOK, GoroutineMoves, Active

LEMMA Inductive == IInv /\ [Next]_vars /\ TypeOK' => IInv'
<1> SUFFICES ASSUME IInv, [Next]_vars, TypeOK'
             PROVE  WaiterInv' /\ StopInv' /\ DrainInv'
  BY DEF IInv
<1> USE DEF IInv, WaiterInv, StopInv, DrainInv
<1>1. CASE Start
  <2>1. stopped => Active' = Active
    BY <1>1 DEF Start, Active
  <2>2. drain = "nil" /\ waiter = "none"
    BY <1>1 DEF Start, TypeOK
  <2> QED
    BY <1>1, <2>1, <2>2 DEF Start, history
<1>2. ASSUME NEW why, Die(why) PROVE WaiterInv' /\ StopInv' /\ DrainInv'
  BY <1>2 DEF Die, Active, group, ctxs, history
<1>3. ASSUME NEW r \in Routines, Register(r)
      PROVE  WaiterInv' /\ StopInv' /\ DrainInv'
  BY <1>2, <1>3 DEF Register, Active, ctxs, history
<1>4. ASSUME NEW t \in Tasks, Task(t)
      PROVE  WaiterInv' /\ StopInv' /\ DrainInv'
  BY <1>4 DEF Task, TypeOK, group, ctxs, history
<1>5. CASE GoroutineMoves
  <2>1. Active' \subseteq Active /\ Active # {}
    BY <1>5, MovesShrink
  <2>2. UNCHANGED <<group, ctxs, waiter, stop, expired>>
    BY <1>5 DEF GoroutineMoves
  <2>3. cutShort' = cutShort \/ drain = "cancelled"
    BY <1>5 DEF GoroutineMoves
  <2> QED
    BY <2>1, <2>2, <2>3 DEF group, ctxs
<1>6. CASE WaiterDrains
  BY <1>6 DEF WaiterDrains, Active, group, history
<1>7. CASE WaiterCloses
  BY <1>7 DEF WaiterCloses, Active, ctxs, history
<1>8. ASSUME NEW s \in Stoppers, StopCall(s)
      PROVE  WaiterInv' /\ StopInv' /\ DrainInv'
  BY <1>8 DEF StopCall, TypeOK, Active, history
<1>9. ASSUME NEW s \in Stoppers, DeadlineEnds(s) \/ StopDone(s) \/ StopCutDone(s)
      PROVE  WaiterInv' /\ StopInv' /\ DrainInv'
  BY <1>9 DEF DeadlineEnds, StopDone, StopCutDone, TypeOK, Active, group, ctxs, history
<1>10. ASSUME NEW s \in Stoppers, StopCuts(s)
       PROVE  WaiterInv' /\ StopInv' /\ DrainInv'
  BY <1>2, <1>10 DEF StopCuts, TypeOK, Active, group, history
<1>11. CASE UNCHANGED vars
  BY <1>11 DEF vars, Active, group, ctxs, history
<1> QED
  BY <1>1, <1>2, <1>3, <1>4, <1>5, <1>6, <1>7, <1>8, <1>9, <1>10, <1>11, GoroutineStep
  DEF Next, Owner, Goroutine, Stopping, StartTwice, Panics

LEMMA Invariance == Spec => []IInv
<1>1. Init => IInv
  BY RoutineAssumption
  DEF Init, IInv, TypeOK, WaiterInv, StopInv, DrainInv, Active, Goroutines, Routines,
      ActivePC
<1>2. IInv /\ [Next]_vars /\ TypeOK' => IInv'
  BY Inductive
<1> QED
  BY <1>1, <1>2, TypeCorrect, PTL DEF Spec
-----------------------------------------------------------------------------
(* What the owner may rely on.                                             *)

\* Once any call of Stop has returned, no goroutine of the group runs.
THEOREM StopIsQuiescent == Spec => []StopReturnsQuiescent
<1>1. IInv => StopReturnsQuiescent
  BY DEF IInv, TypeOK, WaiterInv, StopInv, StopReturnsQuiescent, StopReturned
<1> QED
  BY <1>1, Invariance, PTL

\* Nothing is cut short before the deadline of some Stop.
THEOREM CutShortIsJustified == Spec => []CutShortOnlyAtDeadline
<1>1. IInv => CutShortOnlyAtDeadline
  BY DEF IInv, WaiterInv, StopInv, DrainInv, CutShortOnlyAtDeadline
<1> QED
  BY <1>1, Invariance, PTL

\* Nothing runs in a group until the Start that sets its drain context.
LEMMA NothingRanUndrained == Spec => []Unrun
<1>1. Init => Unrun
  BY DEF Init, Unrun
<1>2. ASSUME IInv, Unrun, [Next]_vars PROVE Unrun'
  <2>1. CASE drain' # "nil"
    BY <2>1 DEF Unrun
  <2>2. CASE drain' = "nil" /\ pc' = pc /\ drain = "nil"
    BY <1>2, <2>2 DEF Unrun
  <2>3. CASE GoroutineMoves
    BY <1>2, <2>3, MovesShrink DEF GoroutineMoves, IInv, WaiterInv, Unrun, ctxs
  <2>4. CASE Owner
    BY <1>2, <2>4 DEF Owner, Start, StartTwice, Register, Task, Die, IInv, WaiterInv, Unrun, ctxs
  <2>5. CASE Stopping
    BY <1>2, <2>5 DEF Stopping, WaiterDrains, WaiterCloses, StopCall, DeadlineEnds, StopDone,
         StopCuts, StopCutDone, Die, Unrun, ctxs
  <2>6. CASE UNCHANGED vars
    BY <1>2, <2>6 DEF vars, ctxs, Unrun
  <2>7. ASSUME NEW r \in Goroutines, Panics(r) PROVE Unrun'
    BY <1>2, <2>7 DEF Panics, Die, ctxs, Unrun
  <2> QED
    BY <1>2, <2>3, <2>4, <2>5, <2>6, <2>7, GoroutineStep DEF Next, Goroutine, IInv
<1> QED
  BY <1>1, <1>2, Invariance, PTL DEF Spec

\* A Stop crashes only a group that was stopped before it started, in which
\* nothing ever ran: of any other group it finds the cancelDrain that Start set.
THEOREM StopCrashesOnlyTheUnstarted == Spec => []StopIsHarmless
<1>1. Init => StopIsHarmless
  BY DEF Init, StopIsHarmless
<1>2. ASSUME IInv, Unrun, StopIsHarmless, [Next]_vars PROVE StopIsHarmless'
  <2>1. CASE ~Alive
    <3>1. ~Next
      BY <2>1 DEF Next, Owner, Goroutine, Stopping, Start, StartTwice, Register, Task,
           EveryStep, EveryChecks, EveryFires, EveryWakes, EveryEnds, LoopStep, LoopEnds,
           LoopRestarts, LoopWakes, WorkerEnds, TaskEnds, Panics, WaiterDrains, WaiterCloses,
           StopCall, DeadlineEnds, StopDone, StopCuts, StopCutDone
    <3> QED
      BY <1>2, <3>1 DEF StopIsHarmless, vars, group
  <2>2. ASSUME NEW s \in Stoppers, StopCuts(s) PROVE StopIsHarmless'
    BY <1>2, <2>2 DEF StopIsHarmless, StopCuts, Die, IInv, Unrun, WaiterInv, StopInv, group, ctxs
  <2>3. CASE Alive /\ ~(\E s \in Stoppers : StopCuts(s))
    <3>1. crash' # "stop"
      <4>1. CASE \E why \in {"misuse", "routine"} : Die(why)
        BY <4>1 DEF Die
      <4>2. CASE crash' = crash
        BY <2>3, <4>2 DEF Alive
      <4>3. GoroutineMoves => crash' = crash
        BY DEF GoroutineMoves
      <4>4. Goroutine => GoroutineMoves \/ Die("routine")
        BY <1>2, GoroutineStep DEF Goroutine, Panics, IInv
      <4>5. Owner => crash' = crash \/ Die("misuse")
        BY DEF Owner, Start, StartTwice, Register, Task
      <4>6. Stopping => crash' = crash \/ \E s \in Stoppers : StopCuts(s)
        BY DEF Stopping, WaiterDrains, WaiterCloses, StopCall, DeadlineEnds, StopDone, StopCutDone
      <4>7. UNCHANGED vars => crash' = crash
        BY DEF vars
      <4> QED
        BY <1>2, <2>3, <4>1, <4>2, <4>3, <4>4, <4>5, <4>6, <4>7 DEF Next
    <3> QED
      BY <3>1 DEF StopIsHarmless
  <2> QED
    BY <1>2, <2>1, <2>2, <2>3
<1> QED
  BY <1>1, <1>2, Invariance, NothingRanUndrained, PTL DEF Spec
-----------------------------------------------------------------------------
(* Late runs.                                                              *)

\* A routine that began a run after Stop began is not about to begin another:
\* it has still to look at stopping, or at the loops' context.
LateInv ==
  /\ stopping => loopCancelled
  /\ lateRuns # {} => stopping
  /\ \A r \in lateRuns : pc[r] \in {"running", "returned"} \/ (r \in Everys /\ pc[r] = "ready")

LEMMA LateInductive == TypeOK /\ LateInv /\ WaiterInv /\ [Next]_vars => LateInv'
<1> SUFFICES ASSUME TypeOK, LateInv, WaiterInv, [Next]_vars PROVE LateInv'
  OBVIOUS
<1> USE RoutineAssumption DEF LateInv, TypeOK, Goroutines, Routines
<1>1. CASE Start
  BY <1>1 DEF Start, WaiterInv, history
<1>2. ASSUME NEW why, Die(why) PROVE LateInv'
  BY <1>2 DEF Die, group, ctxs, history
<1>3. ASSUME NEW r \in Routines, Register(r) PROVE LateInv'
  BY <1>2, <1>3 DEF Register, ctxs, history
<1>4. ASSUME NEW t \in Tasks, Task(t) PROVE LateInv'
  BY <1>4 DEF Task, group, ctxs, history
<1>5. ASSUME NEW e \in Everys, EveryStep(e) PROVE LateInv'
  <2> USE DEF Moves, group, ctxs, history
  <2>1. CASE EveryChecks(e)
    BY <2>1 DEF EveryChecks
  <2>2. CASE EveryFires(e)
    BY <2>2 DEF EveryFires, Begins
  <2>3. CASE EveryWakes(e)
    BY <2>3 DEF EveryWakes
  <2>4. CASE EveryEnds(e)
    BY <2>4 DEF EveryEnds, ReportsCutShort
  <2> QED
    BY <1>5, <2>1, <2>2, <2>3, <2>4 DEF EveryStep
<1>6. ASSUME NEW l \in Loops, LoopStep(l) PROVE LateInv'
  <2> USE DEF Moves, group, ctxs, history
  <2>1. CASE LoopEnds(l)
    BY <2>1 DEF LoopEnds
  <2>2. CASE LoopRestarts(l)
    BY <2>2 DEF LoopRestarts, Begins
  <2>3. CASE LoopWakes(l)
    BY <2>3 DEF LoopWakes
  <2> QED
    BY <1>6, <2>1, <2>2, <2>3 DEF LoopStep
<1>7. ASSUME NEW w \in Workers \cup Tasks, WorkerEnds(w) \/ TaskEnds(w) PROVE LateInv'
  BY <1>7 DEF WorkerEnds, TaskEnds, Moves, ReportsCutShort, group, ctxs, history
<1>8. CASE WaiterDrains \/ WaiterCloses
  BY <1>8 DEF WaiterDrains, WaiterCloses, group, ctxs, history
<1>9. ASSUME NEW s \in Stoppers, StopCall(s) PROVE LateInv'
  BY <1>9 DEF StopCall, history
<1>10. ASSUME NEW s \in Stoppers, DeadlineEnds(s) \/ StopDone(s) \/ StopCutDone(s)
       PROVE  LateInv'
  BY <1>10 DEF DeadlineEnds, StopDone, StopCutDone, group, ctxs, history
<1>11. ASSUME NEW s \in Stoppers, StopCuts(s) PROVE LateInv'
  BY <1>2, <1>11 DEF StopCuts, group, history
<1>12. CASE UNCHANGED vars
  BY <1>12 DEF vars, group, ctxs, history
<1> QED
  BY <1>1, <1>2, <1>3, <1>4, <1>5, <1>6, <1>7, <1>8, <1>9, <1>10, <1>11, <1>12, SMTT(30)
  DEF Next, Owner, Goroutine, Stopping, StartTwice, Panics

\* A routine begins at most one run after Stop began.
THEOREM LateRunIsTheLast == Spec => AtMostOneLateRun
<1>1. Init => LateInv
  BY DEF Init, LateInv
<1>2. TypeOK /\ LateInv /\ WaiterInv /\ [Next]_vars => LateInv'
  BY LateInductive
<1>3. IInv => WaiterInv
  BY DEF IInv
<1>4. TypeOK /\ LateInv /\ WaiterInv /\ [Next]_vars
        => [\A r \in Routines :
              (stopping /\ pc[r] # "running" /\ pc'[r] = "running") => r \notin lateRuns]_vars
  <2> SUFFICES ASSUME TypeOK, LateInv, WaiterInv, [Next]_vars, NEW r \in lateRuns,
                      r \in Routines, stopping, pc[r] # "running", pc'[r] = "running"
               PROVE  FALSE
    OBVIOUS
  <2>1. pc[r] = "returned" \/ (r \in Everys /\ pc[r] = "ready")
    BY DEF LateInv
  <2>2. ~Start
    BY DEF Start, WaiterInv
  <2>3. ASSUME NEW q \in Goroutines, NEW to, Moves(q, to), pc[q] # "ready" \/ to # "running",
               pc[q] # "returned"
        PROVE  FALSE
    BY <2>1, <2>3 DEF Moves, TypeOK, Goroutines
  <2>4. ASSUME NEW e \in Everys, EveryStep(e) PROVE FALSE
    BY <2>3, <2>4 DEF EveryStep, EveryChecks, EveryFires, EveryWakes, EveryEnds, Begins,
                      Goroutines, Routines
  <2>5. ASSUME NEW l \in Loops, LoopStep(l) PROVE FALSE
    BY <2>3, <2>5 DEF LoopStep, LoopEnds, LoopRestarts, LoopWakes, Begins, Goroutines, Routines
  <2>6. ASSUME NEW w \in Workers \cup Tasks, WorkerEnds(w) \/ TaskEnds(w) PROVE FALSE
    BY <2>3, <2>6 DEF WorkerEnds, TaskEnds, Goroutines, Routines
  <2>7. ASSUME NEW t \in Tasks, Task(t) PROVE FALSE
    BY <2>7, RoutineAssumption DEF Task, TypeOK, Routines, Goroutines
  <2>8. UNCHANGED pc => FALSE
    OBVIOUS
  <2>9. UNCHANGED vars => FALSE
    BY <2>8 DEF vars
  <2>10. (\E q \in Routines : Register(q)) \/ StartTwice \/ (\E q \in Goroutines : Panics(q))
           => FALSE
    BY <2>8 DEF Register, StartTwice, Panics, Die
  <2>11. Stopping => FALSE
    BY <2>8 DEF Stopping, WaiterDrains, WaiterCloses, StopCall, DeadlineEnds, StopDone,
                StopCuts, StopCutDone, Die
  <2> QED
    BY <2>2, <2>4, <2>5, <2>6, <2>7, <2>9, <2>10, <2>11 DEF Next, Owner, Goroutine
<1> QED
  BY <1>1, <1>2, <1>3, <1>4, TypeCorrect, Invariance, PTL DEF Spec, AtMostOneLateRun
-----------------------------------------------------------------------------
(* Refinement.                                                             *)

Returned == {s \in Stoppers : StopReturned(s)}

\* A step of a goroutine is a step of the contract in which it leaves, or a
\* stuttering one.
LEMMA MoveRefines ==
  ASSUME TypeOK, GoroutineMoves
  PROVE  UNCHANGED Contract!vars \/ \E r \in Active : Contract!Leave(r)
<1>1. PICK r \in Goroutines, to \in {"ready", "waiting", "running", "backoff", "returned"} :
        /\ pc[r] \in ActivePC
        /\ pc' = [pc EXCEPT ![r] = to]
        /\ UNCHANGED <<group, ctxs, waiter, stop, expired, crash>>
  BY DEF GoroutineMoves
<1>2. UNCHANGED <<started, stopped, stop>>
  BY <1>1 DEF group
<1>3. CASE to = "returned"
  <2>1. r \in Active /\ Active' = Active \ {r}
    BY <1>1, <1>3 DEF Active, TypeOK, ActivePC
  <2> QED
    BY <1>2, <2>1 DEF Contract!Leave, StopReturned
<1>4. CASE to # "returned"
  <2>1. Active' = Active
    BY <1>1, <1>4 DEF Active, TypeOK, ActivePC
  <2> QED
    BY <1>2, <2>1 DEF Contract!vars, StopReturned
<1> QED
  BY <1>3, <1>4

\* Every behaviour of a Group is one its contract allows.
THEOREM GroupImplementsContract == Spec => ImplementsContract
<1>1. Init => Contract!Init
  BY DEF Init, Contract!Init, Active, ActivePC, StopReturned
<1>2. IInv /\ [Next]_vars => [Contract!Next]_(Contract!vars)
  <2> SUFFICES ASSUME IInv, [Next]_vars
               PROVE  Contract!Next \/ UNCHANGED Contract!vars
    BY DEF Contract!vars
  <2> USE DEF IInv
  <2>1. CASE Start
    <3>1. Active = {} /\ drain = "nil"
      BY <2>1 DEF Start, WaiterInv, TypeOK
    <3>2. CASE stopped
      <4>1. Active' = Active
        BY <2>1, <3>2 DEF Start, Active
      <4> QED
        BY <2>1, <3>2, <4>1 DEF Start, Contract!vars, StopReturned
    <3>3. CASE ~stopped
      <4>1. Active' \in SUBSET Routines
        BY <2>1, <3>1, <3>3 DEF Start, Active, TypeOK, Goroutines
      <4> QED
        BY <2>1, <3>3, <4>1 DEF Start, StopReturned, Contract!Next, Contract!Open
    <3> QED
      BY <3>2, <3>3
  <2>2. ASSUME UNCHANGED <<started, stopped, pc, stop>>
        PROVE  UNCHANGED Contract!vars
    BY <2>2 DEF Contract!vars, Active, StopReturned
  <2>3. StartTwice \/ (\E r \in Routines : Register(r)) \/ (\E r \in Goroutines : Panics(r))
          \/ WaiterDrains \/ WaiterCloses \/ (\E s \in Stoppers : DeadlineEnds(s))
          => UNCHANGED <<started, stopped, pc, stop>>
    BY DEF StartTwice, Register, Panics, WaiterDrains, WaiterCloses, DeadlineEnds, Die, group
  <2>4. ASSUME NEW t \in Tasks, Task(t) PROVE Contract!Next
    <3>1. Active' = Active \cup {t}
      BY <2>4 DEF Task, Active, TypeOK, Goroutines, ActivePC
    <3>2. UNCHANGED <<started, stopped, stop>> /\ started /\ ~stopped
      BY <2>4 DEF Task, group
    <3> QED
      BY <3>1, <3>2 DEF Contract!Next, Contract!Join, StopReturned
  <2>5. ASSUME GoroutineMoves PROVE Contract!Next \/ UNCHANGED Contract!vars
    BY <2>5, MoveRefines DEF Contract!Next
  <2>6. ASSUME NEW s \in Stoppers, StopCall(s) PROVE Contract!Next \/ UNCHANGED Contract!vars
    <3>1. Active' = Active
      BY <2>6 DEF StopCall, Active
    <3>2. CASE ~started
      <4>1. Active = {}
        BY <3>2 DEF WaiterInv, TypeOK
      <4>2. Returned' = Returned \cup {s}
        BY <2>6, <3>2 DEF StopCall, StopReturned, Returned, TypeOK
      <4> QED
        BY <2>6, <3>1, <3>2, <4>1, <4>2
        DEF StopCall, Returned, Contract!Next, Contract!CloseNew
    <3>3. CASE started
      <4>1. Returned' = Returned
        BY <2>6, <3>3 DEF StopCall, StopReturned, Returned, TypeOK
      <4> QED
        BY <2>6, <3>1, <3>3, <4>1 DEF StopCall, Returned, Contract!Next, Contract!Close
    <3> QED
      BY <3>2, <3>3
  <2>7. ASSUME NEW s \in Stoppers, StopDone(s) \/ StopCutDone(s) PROVE Contract!Next
    <3>1. Active' = Active /\ Active = {} /\ stopped
      BY <2>7 DEF StopDone, StopCutDone, group, Active, WaiterInv, StopInv, TypeOK
    <3>2. Returned' = Returned \cup {s}
      BY <2>7 DEF StopDone, StopCutDone, StopReturned, Returned, TypeOK
    <3>3. UNCHANGED <<started, stopped>>
      BY <2>7 DEF StopDone, StopCutDone, group
    <3> QED
      BY <3>1, <3>2, <3>3 DEF Returned, Contract!Next, Contract!Return
  <2>8. ASSUME NEW s \in Stoppers, StopCuts(s) PROVE UNCHANGED Contract!vars
    <3>1. UNCHANGED <<started, stopped, pc>> /\ Returned' = Returned
      BY <2>8 DEF StopCuts, Die, group, StopReturned, Returned, TypeOK
    <3> QED
      BY <3>1 DEF Contract!vars, Active, Returned
  <2>9. UNCHANGED vars => UNCHANGED <<started, stopped, pc, stop>>
    BY DEF vars, group
  <2> QED
    BY <2>1, <2>2, <2>3, <2>4, <2>5, <2>6, <2>7, <2>8, <2>9, GoroutineStep
    DEF Next, Owner, Goroutine, Stopping
<1> QED
  BY <1>1, <1>2, Invariance, PTL DEF Spec, ImplementsContract, Contract!Spec

\* What a group's contract gives its owner, and so whatever implements it: once
\* a Stop has returned (routine.go:231-233) it is closed and empty for good, for
\* any routines, tasks and calls of Stop.
THEOREM ContractIsQuiescent == Contract!Spec => [](Contract!TypeOK /\ Contract!Quiescent)
<1> USE DEF Contract!TypeOK, Contract!Quiescent
<1>1. Contract!Init => Contract!TypeOK /\ Contract!Quiescent
  BY DEF Contract!Init
<1>2. Contract!TypeOK /\ Contract!Quiescent /\ [Contract!Next]_(Contract!vars) => (Contract!TypeOK /\ Contract!Quiescent)'
  <2> SUFFICES ASSUME Contract!TypeOK, Contract!Quiescent, [Contract!Next]_(Contract!vars)
               PROVE  (Contract!TypeOK /\ Contract!Quiescent)'
    OBVIOUS
  <2>1. CASE Contract!Open
    BY <2>1 DEF Contract!Open
  <2>2. CASE Contract!Close
    BY <2>2 DEF Contract!Close
  <2>3. ASSUME NEW t \in Tasks, Contract!Join(t) PROVE (Contract!TypeOK /\ Contract!Quiescent)'
    BY <2>3 DEF Contract!Join
  <2>4. ASSUME NEW r \in Active, Contract!Leave(r) PROVE (Contract!TypeOK /\ Contract!Quiescent)'
    BY <2>4 DEF Contract!Leave
  <2>5. ASSUME NEW s \in Stoppers, Contract!CloseNew(s) PROVE (Contract!TypeOK /\ Contract!Quiescent)'
    BY <2>5 DEF Contract!CloseNew
  <2>6. ASSUME NEW s \in Stoppers, Contract!Return(s) PROVE (Contract!TypeOK /\ Contract!Quiescent)'
    BY <2>6 DEF Contract!Return
  <2>7. CASE UNCHANGED Contract!vars
    BY <2>7 DEF Contract!vars
  <2> QED
    BY <2>1, <2>2, <2>3, <2>4, <2>5, <2>6, <2>7 DEF Contract!Next
<1> QED
  BY <1>1, <1>2, PTL DEF Contract!Spec

-----------------------------------------------------------------------------
(* What is told of a failure. *)

\* The layers of errors: each of a code or plain.
Layers(L) == \A l \in L : l.code \in Codes \union {Plain}

\* What wraps an error is on top of it.
LEMMA TopOf ==
  ASSUME NEW L, NEW e \in Seq(L), NEW top
  PROVE  On(top, e)[1] = top
<1>1. <<top>> \in Seq(L \union {top}) /\ Len(<<top>>) = 1 /\ <<top>>[1] = top
  OBVIOUS
<1>2. e \in Seq(L \union {top}) /\ Len(e) \in Nat
  BY SeqMonotonic, LenProperties
<1> QED
  BY <1>1, <1>2, ConcatProperties DEF On

\* An error wrapped stays as it is, one layer down.
LEMMA Below ==
  ASSUME NEW L, NEW e \in Seq(L), NEW top, NEW i \in 1 .. Len(e)
  PROVE  On(top, e)[i + 1] = e[i]
<1>1. <<top>> \in Seq(L \union {top}) /\ Len(<<top>>) = 1
  OBVIOUS
<1>2. e \in Seq(L \union {top}) /\ Len(e) \in Nat
  BY SeqMonotonic, LenProperties
<1>3. i + 1 \in 1 .. Len(<<top>>) + Len(e) /\ ~(i + 1 <= Len(<<top>>)) /\ (i + 1) - Len(<<top>>) = i
  BY <1>1, <1>2
<1> QED
  BY <1>1, <1>2, <1>3, ConcatProperties DEF On

\* An error wrapped is a chain of layers too.
LEMMA OnIsAnError ==
  ASSUME NEW L, NEW e \in Seq(L), NEW top
  PROVE  On(top, e) \in Seq(L \union {top}) /\ On(top, e) # <<>>
<1>1. <<top>> \in Seq(L \union {top}) /\ Len(<<top>>) = 1
  OBVIOUS
<1>2. e \in Seq(L \union {top}) /\ Len(e) \in Nat
  BY SeqMonotonic, LenProperties
<1>3. On(top, e) \in Seq(L \union {top}) /\ Len(On(top, e)) = 1 + Len(e)
  BY <1>1, <1>2, ConcatProperties DEF On
<1> QED
  BY <1>2, <1>3, EmptySeq

\* What From makes of an error is formal already, of a code that is defined.
LEMMA FromIsFormal ==
  ASSUME NEW L, Layers(L), NEW e \in Seq(L), e # <<>>
  PROVE  From(From(e)) = From(e)
<1>1. CASE IsFormal(e)
  BY <1>1 DEF From
<1>2. CASE ~IsFormal(e)
  <2>1. From(e)[1] = Layer(Internal, Unclassified, FALSE)
    BY <1>2, TopOf DEF From
  <2>2. From(e)[1].code = Internal
    BY <2>1 DEF Layer
  <2> QED
    BY <2>2, CodesAssumption DEF From, IsFormal
<1> QED
  BY <1>1, <1>2

\* An error wrapped is formal as it is, and of its wrapper's code.
LEMMA WrapIsFormal ==
  ASSUME NEW L, NEW e \in Seq(L), NEW top, top.code \in Codes
  PROVE  From(On(top, e)) = On(top, e)
<1>1. On(top, e)[1] = top
  BY TopOf
<1> QED
  BY <1>1, CodesAssumption DEF From, IsFormal

LEMMA WrapIsOfItsCode ==
  ASSUME NEW L, NEW e \in Seq(L), NEW top, top.code \in Codes
  PROVE  Public(On(top, e)) = PublicOf[top.code]
<1>1. On(top, e)[1] = top
  BY TopOf
<1>2. From(On(top, e)) = On(top, e)
  BY WrapIsFormal
<1> QED
  BY <1>1, <1>2 DEF Public, CodeOf

\* What an error wrapped says: its wrapper's message, unless that is a
\* diagnosis.
LEMMA WrapSays ==
  ASSUME NEW L, NEW e \in Seq(L), NEW top, top.code \in Codes
  PROVE  ClientMessage(On(top, e), TRUE) = IF PublicOf[top.code] # Internal THEN top.says ELSE Default(Internal)
<1>1. On(top, e)[1] = top
  BY TopOf
<1>2. From(On(top, e)) = On(top, e)
  BY WrapIsFormal
<1> QED
  BY <1>1, <1>2 DEF ClientMessage

-----------------------------------------------------------------------------
\* A server answers with none but the codes it serves, whatever a library
\* below it fails with (status.go:37-41; "fails closed", docs/designs/errors.md),
\* and where causes are hidden says no more of an internal_server_error, its own
\* or one that stands for a code it does not serve, than that it is one.
THEOREM OnlyServedIsAnswered ==
  ASSUME NEW L, Layers(L), NEW e \in Seq(L), e # <<>>, NEW hidden \in BOOLEAN
  PROVE  /\ Render(e, hidden).code \in Serves
         /\ hidden /\ Render(e, hidden).code = Internal => Render(e, hidden).message = Default(Internal)
<1>1. CASE Served(CodeOf(e)) = Public(e)
  <2>1. Render(e, hidden).code = Public(From(e))
    BY <1>1 DEF Render, Response
  <2>2. Public(From(e)) = Public(e)
    BY FromIsFormal DEF Public, CodeOf
  <2>3. Public(e) \in Serves
    BY <1>1, CodesAssumption DEF Served, Public
  <2>4. Render(e, hidden).message = ClientMessage(From(e), hidden)
    BY <1>1 DEF Render, Response
  <2>5. From(From(e)) = From(e)
    BY FromIsFormal DEF From
  <2>6. hidden /\ Public(From(e)) = Internal => ClientMessage(From(e), hidden) = Default(Internal)
    BY <2>5 DEF ClientMessage, Public, CodeOf
  <2> QED
    BY <2>1, <2>2, <2>3, <2>4, <2>6
<1>2. CASE Served(CodeOf(e)) # Public(e)
  <2> DEFINE masked == Encapsulate(e, Internal, Unserved, hidden)
             shown == WithSteps(masked, From(e)[1].steps)
  <2>1. Render(e, hidden).code = Public(shown)
    BY <1>2 DEF Render, Response
  <2>2. PICK top : masked = On(top, e) /\ top.code = Internal /\ top = Layer(Internal, top.says, ~hidden)
    <3> DEFINE says == IF Unserved # {} THEN Unserved ELSE IF hidden THEN Default(Internal) ELSE ClientMessage(e, hidden)
               t == Layer(Internal, says, ~hidden)
    <3>1. masked = On(t, e)
      BY DEF Encapsulate
    <3>2. t.code = Internal /\ t.says = says
      BY DEF Layer
    <3> WITNESS t
    <3> QED
      BY <3>1, <3>2
  <2>3. masked[1] = top
    BY <2>2, TopOf
  <2>4. masked \in Seq(L \union {top}) /\ masked # <<>>
    BY <2>2, OnIsAnError
  <2> HIDE DEF masked
  <2>5. Tail(masked) \in Seq(L \union {top})
    BY <2>4, HeadTailProperties
  <2> DEFINE topped == [top EXCEPT !.steps = From(e)[1].steps]
  <2>6. topped.code = Internal
    BY <2>2 DEF Layer
  <2>7. shown = On(topped, Tail(masked))
    BY <2>3 DEF WithSteps
  <2> HIDE DEF topped, shown
  <2>8. Public(shown) = PublicOf[topped.code]
    BY <2>5, <2>6, <2>7, CodesAssumption, WrapIsOfItsCode
  <2>9. Render(e, hidden).message = ClientMessage(shown, hidden)
    BY <1>2 DEF Render, Response, shown, masked
  <2>10. hidden => ClientMessage(shown, hidden) = Default(Internal)
    BY <2>6, <2>8, CodesAssumption DEF ClientMessage, Public, CodeOf
  <2> QED
    BY <2>1, <2>6, <2>8, <2>9, <2>10, CodesAssumption
<1> QED
  BY <1>1, <1>2

\* Where causes are hidden, what a client is told of an error says nothing of
\* its cause: not in its message, its code or its scope, and no step of it
\* (encapsulation.go:27-46, error.go:78-101).
THEOREM NothingBeneathIsTold ==
  ASSUME NEW L, NEW e \in Seq(L), NEW f \in Seq(L), NEW c \in Codes, NEW says
  PROVE  LET told == Response(Encapsulate(e, c, says, TRUE), TRUE)
             other == Response(Encapsulate(f, c, says, TRUE), TRUE)
         IN  /\ told.message = other.message /\ told.code = other.code /\ told.scope = other.scope
             /\ \A i \in 1 .. Len(e) + 1 : DisclosedAt(Encapsulate(e, c, says, TRUE), i) = <<>>
<1> DEFINE top == Layer(c, IF says # {} THEN says ELSE Default(c), FALSE)
<1>1. \A g \in Seq(L) : Encapsulate(g, c, says, TRUE) = On(top, g)
  BY DEF Encapsulate
<1>2. top.code = c /\ top.steps = <<>> /\ top.shows = FALSE
  BY DEF Layer
<1> HIDE DEF top
<1>3. ClientMessage(On(top, e), TRUE) = ClientMessage(On(top, f), TRUE)
  <2> DEFINE said == IF PublicOf[top.code] # Internal THEN top.says ELSE Default(Internal)
  <2>1. ClientMessage(On(top, e), TRUE) = said
    BY <1>2, WrapSays
  <2>2. ClientMessage(On(top, f), TRUE) = said
    BY <1>2, WrapSays
  <2> HIDE DEF said
  <2> QED
    BY <2>1, <2>2
<1>4. Public(On(top, e)) = Public(On(top, f))
  <2>1. Public(On(top, e)) = PublicOf[c]
    BY <1>2, WrapIsOfItsCode
  <2>2. Public(On(top, f)) = PublicOf[c]
    BY <1>2, WrapIsOfItsCode
  <2> QED
    BY <2>1, <2>2
<1>5. ASSUME NEW i \in 1 .. Len(e) + 1 PROVE DisclosedAt(On(top, e), i) = <<>>
  <2>1. On(top, e)[1] = top
    BY TopOf
  <2>2. CASE i = 1
    BY <1>2, <2>1, <2>2 DEF DisclosedAt
  <2>3. CASE i # 1
    <3>1. Len(e) \in Nat
      BY LenProperties
    <3>2. 1 \in 1 .. i - 1
      BY <2>3, <3>1
    <3> QED
      BY <1>2, <2>1, <3>2 DEF DisclosedAt
  <2> QED
    BY <2>2, <2>3
<1> QED
  BY <1>1, <1>3, <1>4, <1>5 DEF Response

\* An error nobody classified is answered as an internal one, in the same
\* words whatever it is, where causes are hidden (from.go:10-32).
THEOREM UnclassifiedIsNotTold ==
  ASSUME NEW L, NEW e \in Seq(L), e # <<>>, ~IsFormal(e)
  PROVE  Render(e, TRUE).code = Internal /\ Render(e, TRUE).message = Default(Internal)
<1> DEFINE top == Layer(Internal, Unclassified, FALSE)
<1>1. From(e) = On(top, e)
  BY DEF From
<1>2. top.code = Internal
  BY DEF Layer
<1> HIDE DEF top
<1>3. From(On(top, e)) = On(top, e)
  BY <1>2, CodesAssumption, WrapIsFormal
<1>4. On(top, e)[1] = top
  BY TopOf
<1>5. CodeOf(e) = Internal /\ Public(e) = Internal /\ Public(From(e)) = Internal
  BY <1>1, <1>2, <1>3, <1>4, CodesAssumption DEF Public, CodeOf
<1>6. Render(e, TRUE) = Response(From(e), TRUE)
  BY <1>5, CodesAssumption DEF Render, Served
<1>7. ClientMessage(From(e), TRUE) = Default(Internal)
  BY <1>1, <1>2, <1>3, <1>4, CodesAssumption DEF ClientMessage
<1>8. Response(From(e), TRUE).code = Public(From(e))
  BY DEF Response
<1>9. Response(From(e), TRUE).message = ClientMessage(From(e), TRUE)
  BY DEF Response
<1>10. Render(e, TRUE).code = Internal
  BY <1>5, <1>6, <1>8
<1>11. Render(e, TRUE).message = Default(Internal)
  BY <1>6, <1>7, <1>9
<1> QED
  BY <1>10, <1>11

\* An error re-coded keeps its message and its steps, but an internal one's
\* message, which is a diagnosis (error.go:59-66).
THEOREM TranslateKeeps ==
  ASSUME NEW L, Layers(L), NEW e \in Seq(L), e # <<>>, NEW c \in Codes, PublicOf[c] # Internal
  PROVE  /\ ClientMessage(Translate(e, c, TRUE), TRUE) = IF Public(e) = Internal THEN Default(c) ELSE ClientMessage(e, TRUE)
         /\ \A i \in 1 .. Len(e) : DisclosedAt(Translate(e, c, TRUE), i + 1) = DisclosedAt(e, i)
<1> DEFINE says == IF Public(e) = Internal THEN Default(c) ELSE ClientMessage(e, TRUE)
           top == Layer(c, says, TRUE)
<1>1. Translate(e, c, TRUE) = On(top, e)
  BY DEF Translate
<1>2. top.code = c /\ top.says = says /\ top.shows = TRUE
  BY DEF Layer
<1> HIDE DEF top
<1>3. ClientMessage(On(top, e), TRUE) = says
  <2> HIDE DEF says
  <2>1. ClientMessage(On(top, e), TRUE) = IF PublicOf[top.code] # Internal THEN top.says ELSE Default(Internal)
    BY <1>2, WrapSays
  <2> QED
    BY <1>2, <2>1
<1>4. ASSUME NEW i \in 1 .. Len(e) PROVE DisclosedAt(On(top, e), i + 1) = DisclosedAt(e, i)
  <2>1. Len(e) \in Nat /\ On(top, e)[1] = top
    BY LenProperties, TopOf
  <2>2. On(top, e)[i + 1] = e[i]
    BY Below
  <2>3. ASSUME \A j \in 1 .. (i + 1) - 1 : On(top, e)[j].shows, NEW j \in 1 .. i - 1 PROVE e[j].shows
    <3>1. j \in 1 .. Len(e) /\ j + 1 \in 1 .. (i + 1) - 1
      BY <2>1
    <3>2. On(top, e)[j + 1] = e[j]
      BY <3>1, Below
    <3>3. On(top, e)[j + 1].shows
      BY <2>3, <3>1
    <3> QED
      BY <3>2, <3>3
  <2>4. ASSUME \A j \in 1 .. i - 1 : e[j].shows, NEW j \in 1 .. (i + 1) - 1 PROVE On(top, e)[j].shows
    <3>1. CASE j = 1
      BY <1>2, <2>1, <3>1
    <3>2. CASE j # 1
      <4> DEFINE k == j - 1
      <4>1. k \in 1 .. i - 1 /\ k \in 1 .. Len(e) /\ k + 1 = j
        BY <2>1, <3>2
      <4> HIDE DEF k
      <4>2. On(top, e)[k + 1] = e[k]
        BY <4>1, Below
      <4>3. e[k].shows
        BY <2>4, <4>1
      <4> QED
        BY <4>1, <4>2, <4>3
    <3> QED
      BY <3>1, <3>2
  <2> QED
    BY <2>2, <2>3, <2>4 DEF DisclosedAt
<1> QED
  BY <1>1, <1>3, <1>4

-----------------------------------------------------------------------------
(* The failures of a call. *)

Happened == Troubles \union {"left", "call", "interrupted"}
Sayings == {"said", "cause", "default", "unclassified", "unserved"} \X (Happened \union Codes)
AllLayers == [code : Codes \union {Plain}, says : SUBSET Sayings, steps : Seq({"op", "host op", "start_sidecar"}), shows : BOOLEAN]
Errors == Seq(AllLayers) \ {<<>>}

Clean(message) == message \intersect Causes = {}

\* A failure on top of another is one.
LEMMA OnIs ==
  ASSUME NEW e \in Seq(AllLayers), NEW top \in AllLayers
  PROVE  On(top, e) \in Errors /\ On(top, e)[1] = top /\ Tail(On(top, e)) = e
<1>1. AllLayers \union {top} = AllLayers
  OBVIOUS
<1>2. On(top, e) \in Errors
  BY <1>1, OnIsAnError DEF Errors
<1>3. On(top, e)[1] = top
  BY TopOf
<1>4. Tail(On(top, e)) = e
  <2>1. <<top>> \in Seq(AllLayers) /\ Len(<<top>>) = 1
    OBVIOUS
  <2>2. Len(e) \in Nat /\ Len(On(top, e)) = Len(e) + 1
    BY <2>1, LenProperties, ConcatProperties DEF On
  <2>3. Len(Tail(On(top, e))) = Len(e) /\ Tail(On(top, e)) \in Seq(AllLayers)
    BY <1>2, <2>2, HeadTailProperties DEF Errors
  <2>4. ASSUME NEW i \in 1 .. Len(e) PROVE Tail(On(top, e))[i] = e[i]
    <3>1. Tail(On(top, e))[i] = On(top, e)[i + 1]
      BY <1>2, <2>2, <2>3, HeadTailProperties DEF Errors
    <3> QED
      BY <3>1, Below
  <2> QED
    BY <2>3, <2>4, SeqEqual
<1> QED
  BY <1>2, <1>3, <1>4

LEMMA LayerIs ==
  ASSUME NEW c \in Codes \union {Plain}, NEW says \in SUBSET Sayings, NEW shows \in BOOLEAN
  PROVE  /\ Layer(c, says, shows) \in AllLayers
         /\ Layer(c, says, shows).code = c /\ Layer(c, says, shows).says = says
  BY DEF Layer, AllLayers

LEMMA SayingsAre ==
  /\ \A c \in Codes : Default(c) \in SUBSET Sayings
  /\ \A t \in Happened : Said(t) \in SUBSET Sayings /\ {<<"cause", t>>} \in SUBSET Sayings
  /\ Unclassified \in SUBSET Sayings /\ Unserved \in SUBSET Sayings /\ {} \in SUBSET Sayings
  BY CodesAssumption DEF Default, Said, Unclassified, Unserved, Sayings

\* None of what is said of a failure but its cause is a cause.
LEMMA CleanAre ==
  /\ \A c \in Codes : Clean(Default(c))
  /\ \A t \in Happened : Clean(Said(t))
  /\ Clean(Unserved) /\ Clean({})
  BY DEF Clean, Causes, Default, Said, Unserved

\* From makes a formal error of any, of its code.
LEMMA FromIs ==
  ASSUME NEW e \in Errors
  PROVE  /\ From(e) \in Errors /\ CodeOf(e) \in Codes /\ From(e)[1] \in AllLayers /\ From(e)[1].code = CodeOf(e)
         /\ From(From(e)) = From(e) /\ CodeOf(From(e)) = CodeOf(e)
<1>1. e \in Seq(AllLayers) /\ e # <<>> /\ e[1] \in AllLayers
  <2>1. Len(e) \in Nat /\ Len(e) # 0
    BY LenProperties, EmptySeq DEF Errors
  <2> QED
    BY <2>1, ElementOfSeq DEF Errors
<1>2. CASE IsFormal(e)
  <2>1. From(e) = e /\ e[1].code \in Codes
    BY <1>1, <1>2 DEF From, IsFormal, AllLayers
  <2> QED
    BY <1>1, <2>1 DEF CodeOf
<1>3. CASE ~IsFormal(e)
  <2> DEFINE top == Layer(Internal, Unclassified, FALSE)
  <2>1. top \in AllLayers /\ top.code = Internal
    BY LayerIs, SayingsAre, CodesAssumption
  <2>2. From(e) = On(top, e)
    BY <1>3 DEF From
  <2> HIDE DEF top
  <2>3. From(e) \in Errors /\ From(e)[1] = top
    BY <1>1, <2>1, <2>2, OnIs
  <2>4. From(From(e)) = From(e)
    BY <1>1, <2>1, <2>2, WrapIsFormal, CodesAssumption
  <2> QED
    BY <2>1, <2>3, <2>4, CodesAssumption DEF CodeOf
<1> QED
  BY <1>2, <1>3

\* What a failure is told as, and its message where that is one of its own.
LEMMA LayeredIs ==
  ASSUME NEW e \in Seq(AllLayers), NEW top \in AllLayers, top.code \in Codes, NEW hidden \in BOOLEAN
  PROVE  /\ On(top, e) \in Errors /\ CodeOf(On(top, e)) = top.code /\ From(On(top, e)) = On(top, e)
         /\ ClientMessage(On(top, e), hidden) =
              IF PublicOf[top.code] # Internal THEN top.says
              ELSE IF hidden THEN Default(Internal)
              ELSE IF top.says = Unclassified THEN Text(e) ELSE top.says
<1>1. On(top, e) \in Errors /\ On(top, e)[1] = top /\ Tail(On(top, e)) = e
  BY OnIs
<1>2. From(On(top, e)) = On(top, e)
  BY WrapIsFormal
<1> QED
  BY <1>1, <1>2 DEF CodeOf, ClientMessage

LEMMA NewIs ==
  ASSUME NEW c \in Codes, NEW says \in SUBSET Sayings, NEW hidden \in BOOLEAN, PublicOf[c] # Internal
  PROVE  New(c, says) \in Errors /\ CodeOf(New(c, says)) = c /\ ClientMessage(New(c, says), hidden) = says
<1> DEFINE top == Layer(c, says, FALSE)
<1>1. top \in AllLayers /\ top.code = c /\ top.says = says
  BY LayerIs
<1>2. <<>> \in Seq(AllLayers)
  OBVIOUS
<1>3. New(c, says) = On(top, <<>>)
  BY <1>1 DEF New, On
<1> HIDE DEF top
<1> QED
  BY <1>1, <1>2, <1>3, LayeredIs

LEMMA CauseIs ==
  ASSUME NEW t \in Happened
  PROVE  /\ Cause(t) \in Errors /\ CodeOf(Cause(t)) = Internal
         /\ ClientMessage(Cause(t), TRUE) = Default(Internal) /\ ClientMessage(Cause(t), FALSE) = {<<"cause", t>>}
<1> DEFINE plain == Layer(Plain, {<<"cause", t>>}, FALSE)
           top == Layer(Internal, Unclassified, FALSE)
<1>1. plain \in AllLayers /\ plain.code = Plain /\ plain.says = {<<"cause", t>>}
  BY LayerIs, SayingsAre
<1>2. top \in AllLayers /\ top.code = Internal /\ top.says = Unclassified
  BY LayerIs, SayingsAre, CodesAssumption
<1>3. Cause(t) = <<plain>>
  BY DEF Cause
<1> HIDE DEF plain, top
<1>4. Cause(t) \in Errors /\ Cause(t)[1] = plain /\ DOMAIN Cause(t) = {1} /\ Cause(t) \in Seq(AllLayers)
  BY <1>1, <1>3 DEF Errors
<1>5. From(Cause(t)) = On(top, Cause(t))
  BY <1>1, <1>4 DEF From, IsFormal, top
<1>6. Text(Cause(t)) = {<<"cause", t>>}
  BY <1>1, <1>4 DEF Text
<1>7. CodeOf(On(top, Cause(t))) = Internal /\ From(On(top, Cause(t))) = On(top, Cause(t))
  BY <1>2, <1>4, LayeredIs, CodesAssumption
<1>8. /\ ClientMessage(On(top, Cause(t)), TRUE) = Default(Internal)
      /\ ClientMessage(On(top, Cause(t)), FALSE) = {<<"cause", t>>}
  BY <1>2, <1>4, <1>6, LayeredIs, CodesAssumption
<1> QED
  BY <1>4, <1>5, <1>7, <1>8 DEF CodeOf, ClientMessage

LEMMA MessageIs ==
  ASSUME NEW e \in Errors, NEW hidden \in BOOLEAN
  PROVE  ClientMessage(e, hidden) \in SUBSET Sayings
<1> DEFINE f == From(e)
<1>1. f \in Seq(AllLayers) /\ f # <<>> /\ f[1] \in AllLayers
  BY FromIs DEF Errors
<1>2. Tail(f) \in Seq(AllLayers)
  BY <1>1, HeadTailProperties
<1>3. \A g \in Seq(AllLayers) : Text(g) \in SUBSET Sayings
  <2> SUFFICES ASSUME NEW g \in Seq(AllLayers), NEW i \in DOMAIN g PROVE g[i].says \in SUBSET Sayings
    BY DEF Text
  <2>1. g[i] \in AllLayers
    BY ElementOfSeq, LenProperties
  <2> QED
    BY <2>1 DEF AllLayers
<1>4. f[1].says \in SUBSET Sayings
  BY <1>1 DEF AllLayers
<1>5. Default(Internal) \in SUBSET Sayings
  BY SayingsAre, CodesAssumption
<1> HIDE DEF f
<1> QED
  BY <1>2, <1>3, <1>4, <1>5 DEF ClientMessage, f

LEMMA EncapsulatedIs ==
  ASSUME NEW e \in Errors, NEW c \in Codes, NEW says \in SUBSET Sayings, NEW hidden \in BOOLEAN
  PROVE  /\ Encapsulate(e, c, says, hidden) \in Errors /\ CodeOf(Encapsulate(e, c, says, hidden)) = c
         /\ PublicOf[c] # Internal => ClientMessage(Encapsulate(e, c, says, hidden), hidden) =
              IF says # {} THEN says ELSE IF hidden THEN Default(c) ELSE ClientMessage(e, hidden)
<1> DEFINE told == IF says # {} THEN says ELSE IF hidden THEN Default(c) ELSE ClientMessage(e, hidden)
           top == Layer(c, told, ~hidden)
<1>1. told \in SUBSET Sayings
  BY SayingsAre, MessageIs
<1>2. Encapsulate(e, c, says, hidden) = On(top, e)
  BY DEF Encapsulate
<1> HIDE DEF told
<1>3. top \in AllLayers /\ top.code = c /\ top.says = told
  BY <1>1, LayerIs
<1> HIDE DEF top
<1>4. e \in Seq(AllLayers)
  BY DEF Errors
<1> QED
  BY <1>2, <1>3, <1>4, LayeredIs DEF told

\* The steps of a failure are not in its code or its message.
LEMMA StepsKeep ==
  ASSUME NEW e \in Errors, IsFormal(e), NEW steps \in Seq({"op", "host op", "start_sidecar"})
  PROVE  /\ WithSteps(e, steps) \in Errors /\ IsFormal(WithSteps(e, steps)) /\ CodeOf(WithSteps(e, steps)) = CodeOf(e)
         /\ \A hidden \in BOOLEAN : ClientMessage(WithSteps(e, steps), hidden) = ClientMessage(e, hidden)
<1> DEFINE top == [e[1] EXCEPT !.steps = steps]
<1>1. From(e) = e
  BY DEF From
<1>2. e[1] \in AllLayers /\ Tail(e) \in Seq(AllLayers)
  BY <1>1, FromIs, HeadTailProperties DEF Errors
<1>3. top \in AllLayers /\ top.code = e[1].code /\ top.says = e[1].says
  BY <1>2 DEF AllLayers
<1>4. WithSteps(e, steps) = On(top, Tail(e))
  BY DEF WithSteps
<1> HIDE DEF top
<1>5. On(top, Tail(e)) \in Errors /\ On(top, Tail(e))[1] = top /\ Tail(On(top, Tail(e))) = Tail(e)
  BY <1>2, <1>3, OnIs
<1>6. IsFormal(On(top, Tail(e)))
  BY <1>3, <1>5 DEF IsFormal
<1>7. From(On(top, Tail(e))) = On(top, Tail(e))
  BY <1>6 DEF From
<1> QED
  BY <1>1, <1>3, <1>4, <1>5, <1>6, <1>7 DEF CodeOf, ClientMessage

LEMMA FormalIs ==
  ASSUME NEW e \in Errors
  PROVE  IsFormal(From(e)) /\ \A hidden \in BOOLEAN : ClientMessage(From(e), hidden) = ClientMessage(e, hidden)
  BY FromIs, CodesAssumption DEF IsFormal, ClientMessage

LEMMA OnlyOne ==
  ASSUME NEW S, NEW x \in S
  PROVE  <<x>> \in Seq(S)
  OBVIOUS

LEMMA StepIs ==
  ASSUME NEW e \in Errors, NEW step \in {"op", "host op", "start_sidecar"}
  PROVE  /\ WithStep(e, step) \in Errors /\ CodeOf(WithStep(e, step)) = CodeOf(e)
         /\ \A hidden \in BOOLEAN : ClientMessage(WithStep(e, step), hidden) = ClientMessage(e, hidden)
<1> DEFINE steps == <<step>> \o From(e)[1].steps
<1>1. From(e) \in Errors /\ IsFormal(From(e)) /\ From(e)[1] \in AllLayers /\ CodeOf(From(e)) = CodeOf(e)
  BY FromIs, FormalIs
<1>2. From(e)[1].steps \in Seq({"op", "host op", "start_sidecar"})
  BY <1>1 DEF AllLayers
<1>3. steps \in Seq({"op", "host op", "start_sidecar"})
  <2>1. <<step>> \in Seq({"op", "host op", "start_sidecar"})
    BY OnlyOne
  <2> QED
    BY <1>2, <2>1, ConcatProperties
<1>4. WithStep(e, step) = WithSteps(From(e), steps)
  BY DEF WithStep
<1> HIDE DEF steps
<1>5. /\ WithSteps(From(e), steps) \in Errors /\ CodeOf(WithSteps(From(e), steps)) = CodeOf(From(e))
      /\ \A hidden \in BOOLEAN : ClientMessage(WithSteps(From(e), steps), hidden) = ClientMessage(From(e), hidden)
  BY <1>1, <1>3, StepsKeep
<1> QED
  BY <1>1, <1>4, <1>5, FormalIs

\* What a failure is told as: by itself, and by a server.
LEMMA ResponseIs ==
  ASSUME NEW e \in Errors, NEW hidden \in BOOLEAN
  PROVE  Response(e, hidden).code = PublicOf[CodeOf(e)] /\ Response(e, hidden).message = ClientMessage(e, hidden)
  BY DEF Response, Public

LEMMA RenderIs ==
  ASSUME NEW e \in Errors, NEW hidden \in BOOLEAN
  PROVE  /\ Render(e, hidden).code = Served(CodeOf(e))
         /\ Render(e, hidden).message =
              IF Served(CodeOf(e)) = PublicOf[CodeOf(e)] THEN ClientMessage(e, hidden)
              ELSE IF hidden THEN Default(Internal) ELSE Unserved
<1>1. From(e) \in Errors /\ IsFormal(From(e)) /\ CodeOf(From(e)) = CodeOf(e) /\ From(e)[1] \in AllLayers
  BY FromIs, FormalIs
<1>2. CASE Served(CodeOf(e)) = PublicOf[CodeOf(e)]
  <2>1. Render(e, hidden) = Response(From(e), hidden)
    BY <1>2 DEF Render, Public
  <2> QED
    BY <1>1, <1>2, <2>1, ResponseIs, FormalIs
<1>3. CASE Served(CodeOf(e)) # PublicOf[CodeOf(e)]
  <2> DEFINE top == Layer(Internal, Unserved, ~hidden)
             masked == Encapsulate(e, Internal, Unserved, hidden)
             steps == From(e)[1].steps
  <2>1. Unserved # {} /\ Unserved # Unclassified /\ Unserved \in SUBSET Sayings
    BY SayingsAre DEF Unserved, Unclassified
  <2>2. masked = On(top, e)
    BY <2>1 DEF Encapsulate
  <2>3. top \in AllLayers /\ top.code = Internal /\ top.says = Unserved
    BY <2>1, LayerIs, CodesAssumption
  <2>4. steps \in Seq({"op", "host op", "start_sidecar"})
    BY <1>1 DEF AllLayers
  <2>5. Render(e, hidden) = Response(WithSteps(masked, steps), hidden)
    BY <1>3 DEF Render, Public
  <2> HIDE DEF top, masked, steps
  <2>6. e \in Seq(AllLayers)
    BY DEF Errors
  <2>7. /\ masked \in Errors /\ CodeOf(masked) = Internal /\ From(masked) = masked
        /\ ClientMessage(masked, hidden) = IF hidden THEN Default(Internal) ELSE Unserved
    BY <2>1, <2>2, <2>3, <2>6, LayeredIs, CodesAssumption
  <2>8. IsFormal(masked)
    BY <2>7, FormalIs
  <2>9. /\ WithSteps(masked, steps) \in Errors /\ CodeOf(WithSteps(masked, steps)) = Internal
        /\ ClientMessage(WithSteps(masked, steps), hidden) = IF hidden THEN Default(Internal) ELSE Unserved
    BY <2>4, <2>7, <2>8, StepsKeep
  <2>10. Served(CodeOf(e)) = Internal /\ PublicOf[Internal] = Internal
    BY <1>3, CodesAssumption DEF Served
  <2> QED
    BY <1>3, <2>5, <2>9, <2>10, ResponseIs
<1> QED
  BY <1>2, <1>3

-----------------------------------------------------------------------------
(* A call. *)

AllDoors == OverHTTP \union {"alone", "embedded"}
ToAdmit == {"guard", "body", "repo", "sidecars", "admit"}
ToRun == ToAdmit \union {"input", "check", "authorize", "handle", "run"}
Over == {"done", "dead"}

CallKnown ==
  /\ call \in [door : AllDoors, mounted : BOOLEAN, hidden : BOOLEAN, valid : BOOLEAN, wrong : SUBSET Troubles]
  /\ call.mounted => call.door \in {"http", "stream", "mcp"}
  /\ call.wrong \subseteq CanBe(call)
  /\ \A s, t \in call.wrong \intersect Outcomes : s = t
  /\ \A s, t \in call.wrong \intersect Deliveries : s = t

\* Where a call is, by its door.
Placed ==
  /\ at \in ToRun \union Over \union {"answer", "panicked"}
  /\ at \in {"guard", "body"} => call.door \in OverHTTP
  /\ at = "answer" => call.door # "embedded"
  /\ at \in {"repo", "sidecars"} => call.door = "alone"
  /\ at = "run" => call.door = "stream"
  /\ at = "panicked" => Wrong("panic") /\ First = "panic" /\ error # <<>>
  /\ at = "dead" => call.door = "remote"
  /\ context \in {"live", "left"}

\* What is wrong and has not been met, while nothing has failed: of the sidecars,
\* where they were not asked for, what refuses the input is still to come.
Unmet ==
  error = <<>> /\ at # "dead" =>
    /\ Wrong("guard") => at = "guard"
    /\ Wrong("body") => at \in {"guard", "body"}
    /\ Wrong("repo") => at = "repo"
    /\ Wrong("sidecar") => at \in {"repo", "sidecars"} \/ (at \in {"admit", "input", "check"} /\ (Wrong("mistyped") \/ Wrong("check")))
    /\ Wrong("admission") => at \in ToAdmit
    /\ call.wrong \intersect {"unread", "mistyped", "unfit"} # {} => at \in ToAdmit \union {"input"}
    /\ Wrong("check") => at \in ToAdmit \union {"input", "check"}
    /\ Wrong("authorize") => at \in ToAdmit \union {"input", "check", "authorize"}
    /\ Ailing # {} => at \in ToRun

\* The code of what fails first.
CodeAt(t) ==
  CASE t \in {"guard", "body", "unread", "mistyped", "unfit"} -> Invalid
    [] t \in {"admission", "authorize"} -> Denied
    [] t \in {"check", "refused"} -> Refused
    [] t \in {"sidecar", "down"} -> Down
    [] t = "finer" -> Finer
    [] t = "foreign" -> Foreign
    [] t \in {"repo", "plain", "panic", "late"} -> Internal
TimedOut == First \in Outcomes \union {"late"} /\ First # "panic" /\ Wrong("late") /\ call.mounted
Diagnosed == {"repo", "sidecar", "plain", "late", "panic", "unwritten"}

\* The code c is of the first thing wrong, which ends the call.
FirstFits(c) ==
  /\ ~(call.wrong \subseteq Deliveries)
  /\ First \in Troubles \ Deliveries
  /\ c = IF TimedOut THEN Late ELSE CodeAt(First)

\* A failure is of the first thing wrong, while its client is there.
ErrorFits(e) ==
  /\ e \in Errors
  /\ CodeOf(e) \in {Invalid, Denied, Refused, Finer, Foreign, Down, Internal, Late}
  /\ call.hidden => Clean(ClientMessage(e, TRUE))
  /\ context = "live" => FirstFits(CodeOf(e))
  /\ context = "live" /\ ~call.hidden /\ First \in Diagnosed => <<"cause", First>> \in ClientMessage(e, FALSE)
FailureIs == error # <<>> => ErrorFits(error) /\ at \in Over \union {"answer", "panicked"}

\* What was sent, and the line that says so.
Begun == [as |-> "started"]
SentIs ==
  /\ at # "done" => lines = <<>> /\ (sent = Nothing \/ (sent = Begun /\ call.door = "stream"))
  /\ at = "done" /\ call.door \in OverHTTP =>
       \/ sent = [as |-> "answer"] /\ error = <<>> /\ lines = <<OkLine>>
       \/ error # <<>> /\ sent = ErrorBody /\ lines = <<IF call.door = "mcp" /\ ~Wrong("guard") THEN OkLine ELSE LineOf(error)>>
       \/ /\ sent = Nothing \/ (sent = Begun /\ call.door = "stream")
          /\ call.door # "mcp" /\ Len(lines) = 1
          /\ context = "left" \/ (Wrong("panic") /\ First = "panic" /\ sent = Begun)
  /\ at = "done" /\ call.door = "alone" => Len(lines) = (IF error = <<>> \/ Wrong("repo") THEN 0 ELSE 1)
  /\ pinging => call.door = "stream" /\ (at = "done" => Wrong("panic"))

\* What a call is told, where it is told whole.
ToldWell(told) ==
  /\ context = "live" /\ at = "done" =>
       IF call.wrong = {} THEN told.as = "answer" ELSE told.as = "error" /\ told.code = Expected
  /\ told.as = "error" =>
       /\ call.hidden => Clean(told.message)
       /\ ~call.hidden /\ context = "live" /\ at = "done" /\ First \in Diagnosed => <<"cause", First>> \in told.message
CliIs ==
  /\ IF call.door \in AtCLI THEN cli.at \in {"waits", "exited"} ELSE cli.at = "none"
  /\ cli.at = "exited" => (context = "left" \/ at \in Over) /\ ToldWell(cli.told) /\ cli.told.as \in {"answer", "error"}
  /\ InterruptIsSaid

CallInv == CallKnown /\ Placed /\ Unmet /\ FailureIs /\ SentIs /\ CliIs

-----------------------------------------------------------------------------
(* The first thing wrong with a call. *)

LEMMA OrderIs ==
  /\ DOMAIN Order = 1 .. 20
  /\ Order[1] = "guard" /\ Order[2] = "body" /\ Order[3] = "repo" /\ Order[4] = "admission"
  /\ Order[5] = "unread" /\ Order[6] = "mistyped" /\ Order[7] = "unfit" /\ Order[8] = "check"
  /\ Order[9] = "authorize" /\ Order[10] = "sidecar" /\ Order[11] = "refused" /\ Order[12] = "finer"
  /\ Order[13] = "foreign" /\ Order[14] = "plain" /\ Order[15] = "down" /\ Order[16] = "panic"
  /\ Order[17] = "late" /\ Order[18] = "expired" /\ Order[19] = "unwritten" /\ Order[20] = "transfer"
  BY DEF Order

LEMMA FirstAt ==
  ASSUME NEW i \in 1 .. 20, Wrong(Order[i]), \A j \in 1 .. i - 1 : ~Wrong(Order[j])
  PROVE  FirstWrong = Order[i]
<1> DEFINE EarliestAt(k) == Wrong(Order[k]) /\ \A j \in 1 .. k - 1 : ~Wrong(Order[j])
<1>1. i \in DOMAIN Order /\ EarliestAt(i)
  BY OrderIs
<1>2. ASSUME NEW k \in DOMAIN Order, EarliestAt(k) PROVE k = i
  <2>1. k \in 1 .. 20
    BY OrderIs
  <2>2. ~(k < i) /\ ~(i < k)
    BY <1>1, <1>2, <2>1
  <2> QED
    BY <2>1, <2>2
<1> HIDE DEF EarliestAt
<1>3. (CHOOSE k \in DOMAIN Order : EarliestAt(k)) = i
  BY <1>1, <1>2
<1> QED
  BY <1>3 DEF FirstWrong, EarliestAt

\* What may be wrong with a call, by its door.
LEMMA CanBeIs ==
  ASSUME CallKnown
  PROVE  /\ call.wrong \subseteq Troubles
         /\ Wrong("guard") => call.door \in {"http", "stream", "mcp"}
         /\ Wrong("body") => call.door \in {"http", "stream"}
         /\ Wrong("unread") => call.door \in {"http", "stream", "embedded"}
         /\ Wrong("panic") => call.door \in {"http", "stream", "remote"}
         /\ Wrong("repo") \/ Wrong("sidecar") => call.door = "alone"
         /\ call.wrong \intersect Deliveries # {} => call.door \in AtCLI
         /\ Wrong("admission") \/ Wrong("authorize") => call.mounted \/ call.door = "embedded"
  BY DEF CallKnown, CanBe, Wrong, Outcomes, Deliveries, AtCLI

\* The code of the first thing wrong is the one expected, by whoever tells it.
LEMMA CodedIsExpected ==
  ASSUME CallKnown, NEW c, FirstFits(c)
  PROVE  /\ c \in Codes
         /\ call.door \in {"alone", "embedded"} => PublicOf[c] = Expected
         /\ call.door \in OverHTTP => Served(c) = Expected
<1>1. CASE TimedOut
  BY <1>1, CallsAssumption DEF FirstFits, TimedOut, Expected, Served
<1>2. CASE ~TimedOut
  <2>1. c = CodeAt(First) /\ First \in Troubles \ Deliveries
    BY <1>2 DEF FirstFits
  <2>2. Expected = IF First = "foreign" /\ call.door \in {"alone", "embedded"} THEN Foreign ELSE Promised(First)
    BY <1>2 DEF TimedOut, Expected
  <2>3. c \in Codes
    BY <2>1, CallsAssumption, CodesAssumption DEF CodeAt, Troubles, Outcomes, Deliveries
  <2>4. PublicOf[c] = IF First = "foreign" THEN Foreign ELSE Promised(First)
    BY <2>1, CallsAssumption, CodesAssumption DEF CodeAt, Promised, Troubles, Outcomes, Deliveries
  <2>5. Served(c) = Promised(First)
    BY <2>1, CallsAssumption, CodesAssumption DEF Served, CodeAt, Promised, Troubles, Outcomes, Deliveries
  <2> QED
    BY <2>2, <2>3, <2>4, <2>5 DEF OverHTTP
<1> QED
  BY <1>1, <1>2

\* A failure that fits is told well, by the call's own end and by a server.
LEMMA FitIsToldWell ==
  ASSUME CallKnown, ErrorFits(error)
  PROVE  /\ call.door \in {"alone", "embedded"} => ToldWell(AsError(Response(error, call.hidden)))
         /\ call.door \in OverHTTP => ToldWell(ErrorBody)
<1> DEFINE own == AsError(Response(error, call.hidden))
<1>1. error \in Errors /\ call.hidden \in BOOLEAN
  BY DEF CallKnown, ErrorFits
<1>2. own.as = "error" /\ own.code = PublicOf[CodeOf(error)] /\ own.message = ClientMessage(error, call.hidden)
  BY <1>1, ResponseIs DEF AsError
<1>3. /\ ErrorBody.as = "error" /\ ErrorBody.code = Served(CodeOf(error))
      /\ ErrorBody.message = IF Served(CodeOf(error)) = PublicOf[CodeOf(error)] THEN ClientMessage(error, call.hidden)
                             ELSE IF call.hidden THEN Default(Internal) ELSE Unserved
  BY <1>1, RenderIs DEF AsError, ErrorBody
<1> HIDE DEF own
<1>4. ASSUME context = "live"
      PROVE  /\ call.wrong # {} /\ FirstFits(CodeOf(error))
             /\ First \in Diagnosed => Served(CodeOf(error)) = PublicOf[CodeOf(error)]
  <2>1. FirstFits(CodeOf(error))
    BY <1>4 DEF ErrorFits
  <2>2. First \in Diagnosed => CodeOf(error) \in {Internal, Down, Late}
    BY <2>1 DEF FirstFits, Diagnosed, CodeAt, Deliveries
  <2> QED
    BY <2>1, <2>2, CodesAssumption, CallsAssumption DEF FirstFits, Served
<1>5. Clean(Default(Internal))
  BY CleanAre, CodesAssumption
<1>6. ASSUME call.door \in {"alone", "embedded"} PROVE ToldWell(own)
  BY <1>1, <1>2, <1>4, <1>6, CodedIsExpected DEF ErrorFits, ToldWell
<1>7. ASSUME call.door \in OverHTTP PROVE ToldWell(ErrorBody)
  BY <1>1, <1>3, <1>4, <1>5, <1>7, CodedIsExpected DEF ErrorFits, ToldWell
<1> QED
  BY <1>6, <1>7 DEF own

-----------------------------------------------------------------------------
(* The errors an op fails with fit. *)

LEMMA StepFits ==
  ASSUME NEW e, ErrorFits(e), NEW step \in {"op", "host op", "start_sidecar"}
  PROVE  ErrorFits(WithStep(e, step))
<1>1. e \in Errors
  BY DEF ErrorFits
<1>2. /\ WithStep(e, step) \in Errors /\ CodeOf(WithStep(e, step)) = CodeOf(e)
      /\ \A hidden \in BOOLEAN : ClientMessage(WithStep(e, step), hidden) = ClientMessage(e, hidden)
  BY <1>1, StepIs
<1> QED
  BY <1>2 DEF ErrorFits

LEMMA NewFits ==
  ASSUME CallKnown, NEW c \in {Invalid, Denied, Refused, Foreign}, NEW says \in SUBSET Sayings, Clean(says),
         context = "live" => FirstFits(c) /\ First \notin Diagnosed
  PROVE  ErrorFits(New(c, says))
<1>1. c \in Codes /\ PublicOf[c] # Internal
  BY CallsAssumption
<1>2. New(c, says) \in Errors /\ CodeOf(New(c, says)) = c /\ ClientMessage(New(c, says), TRUE) = says
  BY <1>1, NewIs
<1> QED
  BY <1>2 DEF ErrorFits

LEMMA CauseFits ==
  ASSUME CallKnown, NEW t \in Happened, context = "live" => FirstFits(Internal) /\ (First = t \/ First \notin Diagnosed)
  PROVE  ErrorFits(Cause(t))
<1>1. /\ Cause(t) \in Errors /\ CodeOf(Cause(t)) = Internal
      /\ ClientMessage(Cause(t), TRUE) = Default(Internal) /\ ClientMessage(Cause(t), FALSE) = {<<"cause", t>>}
  BY CauseIs
<1>2. Clean(Default(Internal))
  BY CleanAre, CodesAssumption
<1> QED
  BY <1>1, <1>2 DEF ErrorFits

\* Of a code that is told: its own words, or its cause where those are shown.
LEMMA EncapsulatedFits ==
  ASSUME CallKnown, NEW e \in Errors, NEW c \in {Invalid, Finer, Down, Late}, NEW says \in SUBSET Sayings, Clean(says),
         context = "live" => /\ FirstFits(c)
                             /\ First \in Diagnosed => says = {} /\ <<"cause", First>> \in ClientMessage(e, FALSE)
  PROVE  ErrorFits(Encapsulate(e, c, says, call.hidden))
<1>1. c \in Codes /\ PublicOf[c] # Internal /\ call.hidden \in BOOLEAN
  BY CallsAssumption DEF CallKnown
<1> DEFINE made == Encapsulate(e, c, says, call.hidden)
<1>2. /\ made \in Errors /\ CodeOf(made) = c
      /\ ClientMessage(made, call.hidden) =
           IF says # {} THEN says ELSE IF call.hidden THEN Default(c) ELSE ClientMessage(e, call.hidden)
  BY <1>1, EncapsulatedIs
<1>3. Clean(Default(c))
  BY <1>1, CleanAre
<1> HIDE DEF made
<1>4. ErrorFits(made)
  BY <1>1, <1>2, <1>3 DEF ErrorFits
<1> QED
  BY <1>4 DEF made

-----------------------------------------------------------------------------
(* A step of a call. *)

\* Nothing has failed before the answer.
LEMMA NotYet ==
  ASSUME CallInv, at \in ToRun
  PROVE  error = <<>>
  BY DEF CallInv, FailureIs, ToRun, ToAdmit, Over

\* What the CLI has been told stays so: it had left, the call not over.
LEMMA CliKeeps ==
  ASSUME CallKnown, CliIs, at \notin Over, UNCHANGED <<call, context, cli>>
  PROVE  CliIs'
<1>1. InterruptIsSaid'
  BY DEF CliIs, InterruptIsSaid
<1>2. ASSUME cli.at = "exited" PROVE context = "left" /\ ToldWell(cli.told)'
  BY <1>2 DEF CliIs, ToldWell
<1> QED
  BY <1>1, <1>2 DEF CliIs

LEMMA GoesKeeps ==
  ASSUME CallInv, at \in ToRun, NEW stage \in ToRun \union {"answer", "done"}, Goes(stage), Placed', Unmet',
         stage = "done" => call.door = "embedded"
  PROVE  CallInv'
<1>1. error = <<>> /\ error' = <<>> /\ at \notin Over /\ at # "done"
  BY NotYet DEF Goes, Over, ToRun, ToAdmit
<1>2. CliIs'
  BY <1>1, CliKeeps DEF CallInv, Goes, Same
<1>3. CallKnown'
  BY DEF CallInv, CallKnown, Goes, Same, CanBe
<1>4. SentIs'
  BY <1>1 DEF CallInv, SentIs, Goes, Same, OverHTTP
<1> QED
  BY <1>1, <1>2, <1>3, <1>4 DEF CallInv, FailureIs

LEMMA FailsKeeps ==
  ASSUME CallInv, at \in ToRun, NEW e, ErrorFits(e), Fails(e)
  PROVE  CallInv'
<1>1. error' = e /\ e # <<>> /\ at' \in {"done", "answer"} /\ at \notin Over /\ at # "done" /\ (at' = "answer" <=> call.door # "embedded")
  BY DEF ErrorFits, Errors, Fails, After, Over, ToRun, ToAdmit
<1>2. UNCHANGED <<call, context, sent, lines, pinging, cli>>
  BY DEF Fails, Same
<1>3. CliIs'
  BY <1>1, <1>2, CliKeeps DEF CallInv
<1>4. CallKnown'
  BY <1>2 DEF CallInv, CallKnown, CanBe
<1>5. Placed' /\ Unmet'
  BY <1>1, <1>2 DEF CallInv, Placed, Unmet, Over
<1>6. ErrorFits(error)'
  BY <1>1, <1>2 DEF ErrorFits, FirstFits, TimedOut, First, FirstWrong, Wrong
<1>7. SentIs'
  BY <1>1, <1>2 DEF CallInv, SentIs, OverHTTP
<1> QED
  BY <1>1, <1>3, <1>4, <1>5, <1>6, <1>7 DEF CallInv, FailureIs, Over

\* A failure takes the op's step, and the host's.
LEMMA HostFailsKeeps ==
  ASSUME CallInv, at \in ToRun, NEW e, ErrorFits(e), HostFails(e) \/ OpFails(e)
  PROVE  CallInv'
<1>1. ErrorFits(WithStep(e, "op")) /\ ErrorFits(WithStep(e, "host op"))
  BY StepFits
<1>2. ErrorFits(WithStep(WithStep(e, "op"), "host op"))
  BY <1>1, StepFits
<1>3. CASE HostFails(e)
  BY <1>1, <1>3, FailsKeeps DEF HostFails
<1>4. CASE OpFails(e)
  BY <1>1, <1>2, <1>4, FailsKeeps DEF OpFails
<1> QED
  BY <1>3, <1>4

-----------------------------------------------------------------------------
(* Each action keeps the invariant. *)

LEMMA GuardedKeeps ==
  ASSUME CallInv, Guarded
  PROVE  CallInv'
<1>1. at = "guard" /\ at \in ToRun /\ error = <<>> /\ CallKnown /\ Placed /\ Unmet
  BY NotYet DEF Guarded, ToRun, ToAdmit, CallInv
<1>2. CASE Wrong("guard")
  <2>1. FirstWrong = "guard"
    BY <1>2, OrderIs, FirstAt
  <2>2. FirstFits(Invalid) /\ First \notin Diagnosed
    BY <1>2, <2>1 DEF FirstFits, First, TimedOut, CodeAt, Diagnosed, Troubles, Outcomes, Deliveries, Wrong
  <2>3. ErrorFits(New(Invalid, Said("guard")))
    BY <1>1, <2>2, NewFits, SayingsAre, CleanAre DEF Happened, Troubles
  <2> QED
    BY <1>1, <1>2, <2>3, FailsKeeps DEF Guarded
<1>3. CASE ~Wrong("guard")
  <2>1. Goes("body") /\ at' = "body" /\ call' = call /\ error' = error
    BY <1>3 DEF Guarded, Goes, Same
  <2>2. Placed'
    BY <1>1, <2>1 DEF Placed, Goes, Same, ToRun, ToAdmit, Over
  <2>3. Unmet'
    BY <1>1, <1>3, <2>1, CanBeIs DEF Placed, Unmet, Wrong, Ailing, ToRun, ToAdmit, OverHTTP
  <2> QED
    BY <1>1, <2>1, <2>2, <2>3, GoesKeeps DEF ToRun, ToAdmit
<1> QED
  BY <1>2, <1>3

LEMMA ReadBodyKeeps ==
  ASSUME CallInv, ReadBody
  PROVE  CallInv'
<1>1. at = "body" /\ at \in ToRun /\ at \notin Over /\ error = <<>> /\ CallKnown /\ Placed /\ Unmet
  BY NotYet DEF ReadBody, ToRun, ToAdmit, Over, CallInv
<1>2. CASE Wrong("body")
  <2>1. FirstWrong = "body"
    BY <1>1, <1>2, OrderIs, FirstAt DEF Unmet
  <2>2. FirstFits(Invalid) /\ First \notin Diagnosed
    BY <1>2, <2>1 DEF FirstFits, First, TimedOut, CodeAt, Diagnosed, Troubles, Outcomes, Deliveries, Wrong
  <2>3. Cause("body") \in Errors
    BY CauseIs DEF Happened, Troubles
  <2>4. ErrorFits(Encapsulate(Cause("body"), Invalid, Said("body"), call.hidden))
    BY <1>1, <2>2, <2>3, EncapsulatedFits, SayingsAre, CleanAre DEF Happened, Troubles
  <2> QED
    BY <1>1, <1>2, <2>4, FailsKeeps DEF ReadBody
<1>3. CASE ~Wrong("body")
  <2>1. at' = "admit" /\ pinging' = (call.door = "stream") /\ UNCHANGED <<call, error, context, sent, lines, cli>>
    BY <1>3 DEF ReadBody
  <2>2. Placed'
    BY <1>1, <2>1 DEF Placed, ToRun, ToAdmit, Over
  <2>3. Unmet'
    BY <1>1, <1>3, <2>1, CanBeIs DEF Placed, Unmet, Wrong, Ailing, ToRun, ToAdmit, OverHTTP
  <2>4. CliIs' /\ CallKnown'
    BY <1>1, <2>1, CliKeeps DEF CallInv, CallKnown, CanBe
  <2>5. SentIs'
    BY <1>1, <2>1 DEF CallInv, SentIs
  <2> QED
    BY <1>1, <2>1, <2>2, <2>3, <2>4, <2>5 DEF CallInv, FailureIs
<1> QED
  BY <1>2, <1>3

LEMMA SetUpKeeps ==
  ASSUME CallInv, SetUp
  PROVE  CallInv'
<1>1. at = "repo" /\ at \in ToRun /\ error = <<>> /\ CallKnown /\ Placed /\ Unmet
  BY NotYet DEF SetUp, ToRun, ToAdmit, CallInv
<1>2. CASE Wrong("repo")
  <2>1. FirstWrong = "repo"
    BY <1>1, <1>2, OrderIs, FirstAt DEF Unmet
  <2>2. FirstFits(Internal) /\ First = "repo"
    BY <1>2, <2>1 DEF FirstFits, First, TimedOut, CodeAt, Troubles, Outcomes, Deliveries, Wrong
  <2>3. ErrorFits(Cause("repo"))
    BY <1>1, <2>2, CauseFits DEF Happened, Troubles
  <2> QED
    BY <1>1, <1>2, <2>3, FailsKeeps DEF SetUp
<1>3. CASE ~Wrong("repo")
  <2>1. Goes("sidecars") /\ at' = "sidecars" /\ call' = call /\ error' = error
    BY <1>3 DEF SetUp, Goes, Same
  <2>2. Placed'
    BY <1>1, <2>1 DEF Placed, Goes, Same, ToRun, ToAdmit, Over
  <2>3. Unmet'
    BY <1>1, <1>3, <2>1, CanBeIs DEF Placed, Unmet, Wrong, Ailing, ToRun, ToAdmit
  <2> QED
    BY <1>1, <2>1, <2>2, <2>3, GoesKeeps DEF ToRun, ToAdmit
<1> QED
  BY <1>2, <1>3

LEMMA StartSidecarsKeeps ==
  ASSUME CallInv, StartSidecars
  PROVE  CallInv'
<1> DEFINE needed == ~Wrong("mistyped") /\ ~Wrong("check")
           unstarted(why) == Encapsulate(Cause(why), Down, {}, call.hidden)
<1>1. at = "sidecars" /\ at \in ToRun /\ error = <<>> /\ CallKnown /\ Placed /\ Unmet /\ call.door = "alone"
  BY NotYet DEF StartSidecars, ToRun, ToAdmit, CallInv, Placed
<1>2. ASSUME NEW why \in {"sidecar", "left"}, ErrorFits(unstarted(why)), Fails(WithStep(unstarted(why), "start_sidecar"))
      PROVE  CallInv'
  <2>1. ErrorFits(WithStep(unstarted(why), "start_sidecar"))
    BY <1>2, StepFits
  <2> QED
    BY <1>1, <1>2, <2>1, FailsKeeps
<1>3. CASE needed /\ Wrong("sidecar") /\ Fails(WithStep(unstarted("sidecar"), "start_sidecar"))
  <2>1. ~Wrong("admission") /\ ~Wrong("authorize") /\ ~Wrong("unread") /\ ~Wrong("guard") /\ ~Wrong("body") /\ ~Wrong("repo")
    BY <1>1, CanBeIs DEF Unmet, CallKnown
  <2>2. First = "sidecar"
    <3>1. CASE Wrong("unfit")
      <4>1. FirstWrong = "unfit"
        BY <1>3, <2>1, <3>1, OrderIs, FirstAt
      <4> QED
        BY <1>1, <1>3, <4>1 DEF First
    <3>2. CASE ~Wrong("unfit")
      <4>1. FirstWrong = "sidecar"
        BY <1>3, <2>1, <3>2, OrderIs, FirstAt
      <4> QED
        BY <4>1 DEF First
    <3> QED
      BY <3>1, <3>2
  <2>3. FirstFits(Down)
    BY <1>3, <2>2 DEF FirstFits, TimedOut, CodeAt, Troubles, Outcomes, Deliveries, Wrong
  <2>4. Cause("sidecar") \in Errors /\ ClientMessage(Cause("sidecar"), FALSE) = {<<"cause", "sidecar">>}
    BY CauseIs DEF Happened, Troubles
  <2>5. ErrorFits(unstarted("sidecar"))
    BY <1>1, <2>2, <2>3, <2>4, EncapsulatedFits, SayingsAre, CleanAre
  <2> QED
    BY <1>2, <1>3, <2>5
<1>4. CASE needed /\ context = "left" /\ Fails(WithStep(unstarted("left"), "start_sidecar"))
  <2>1. Cause("left") \in Errors
    BY CauseIs DEF Happened
  <2>2. ErrorFits(unstarted("left"))
    BY <1>1, <1>4, <2>1, EncapsulatedFits, SayingsAre, CleanAre
  <2> QED
    BY <1>2, <1>4, <2>2
<1>5. CASE ~(needed /\ Wrong("sidecar")) /\ Goes("admit")
  <2>1. at' = "admit" /\ call' = call /\ error' = error
    BY <1>5 DEF Goes, Same
  <2>2. Placed'
    BY <1>1, <1>5, <2>1 DEF Placed, Goes, Same, ToRun, ToAdmit, Over
  <2>3. Unmet'
    BY <1>1, <1>5, <2>1 DEF Unmet, Wrong, Ailing, ToRun, ToAdmit
  <2> QED
    BY <1>1, <1>5, <2>2, <2>3, GoesKeeps DEF ToRun, ToAdmit
<1> QED
  BY <1>3, <1>4, <1>5 DEF StartSidecars

LEMMA AdmitKeeps ==
  ASSUME CallInv, Admit
  PROVE  CallInv'
<1>1. at = "admit" /\ at \in ToRun /\ error = <<>> /\ CallKnown /\ Placed /\ Unmet
  BY NotYet DEF Admit, ToRun, ToAdmit, CallInv
<1>2. CASE Wrong("admission")
  <2>1. FirstWrong = "admission"
    BY <1>1, <1>2, OrderIs, FirstAt DEF Unmet
  <2>2. FirstFits(Denied) /\ First \notin Diagnosed
    BY <1>2, <2>1 DEF FirstFits, First, TimedOut, CodeAt, Diagnosed, Troubles, Outcomes, Deliveries, Wrong
  <2>3. ErrorFits(New(Denied, Said("admission")))
    BY <1>1, <2>2, NewFits, SayingsAre, CleanAre DEF Happened, Troubles
  <2> QED
    BY <1>1, <1>2, <2>3, FailsKeeps, HostFailsKeeps DEF Admit
<1>3. CASE ~Wrong("admission")
  <2>1. Goes("input") /\ at' = "input" /\ call' = call /\ error' = error
    BY <1>3 DEF Admit, Goes, Same
  <2>2. Placed'
    BY <1>1, <2>1 DEF Placed, Goes, Same, ToRun, ToAdmit, Over
  <2>3. Unmet'
    BY <1>1, <1>3, <2>1 DEF Unmet, Wrong, Ailing, ToRun, ToAdmit
  <2> QED
    BY <1>1, <2>1, <2>2, <2>3, GoesKeeps DEF ToRun, ToAdmit
<1> QED
  BY <1>2, <1>3

LEMMA DecodeKeeps ==
  ASSUME CallInv, Decode
  PROVE  CallInv'
<1>1. at = "input" /\ at \in ToRun /\ error = <<>> /\ CallKnown /\ Placed /\ Unmet
  BY NotYet DEF Decode, ToRun, ToAdmit, CallInv
<1>2. ~Wrong("guard") /\ ~Wrong("body") /\ ~Wrong("repo") /\ ~Wrong("admission")
  BY <1>1 DEF Unmet, ToAdmit
<1>3. CASE Wrong("unread")
  <2>1. FirstWrong = "unread"
    BY <1>2, <1>3, OrderIs, FirstAt
  <2>2. FirstFits(Invalid) /\ First \notin Diagnosed
    BY <1>3, <2>1 DEF FirstFits, First, TimedOut, CodeAt, Diagnosed, Troubles, Outcomes, Deliveries, Wrong
  <2>3. Cause("unread") \in Errors
    BY CauseIs DEF Happened, Troubles
  <2>4. ErrorFits(Encapsulate(Cause("unread"), Invalid, Said("unread"), call.hidden))
    BY <1>1, <2>2, <2>3, EncapsulatedFits, SayingsAre, CleanAre DEF Happened, Troubles
  <2> QED
    BY <1>1, <1>3, <2>4, HostFailsKeeps DEF Decode
<1>4. CASE ~Wrong("unread") /\ (Wrong("mistyped") \/ Wrong("unfit"))
  <2>1. FirstWrong = IF Wrong("mistyped") THEN "mistyped" ELSE "unfit"
    <3>1. CASE Wrong("mistyped")
      BY <1>2, <1>4, <3>1, OrderIs, FirstAt
    <3>2. CASE ~Wrong("mistyped")
      BY <1>2, <1>4, <3>2, OrderIs, FirstAt
    <3> QED
      BY <3>1, <3>2
  <2>2. First = FirstWrong
    BY <1>1, <2>1 DEF First, Unmet, ToAdmit
  <2>3. FirstFits(Invalid) /\ First \notin Diagnosed
    BY <1>4, <2>1, <2>2 DEF FirstFits, TimedOut, CodeAt, Diagnosed, Troubles, Outcomes, Deliveries, Wrong
  <2>4. ErrorFits(New(Invalid, {}))
    BY <1>1, <2>3, NewFits, SayingsAre, CleanAre
  <2> QED
    BY <1>1, <1>4, <2>4, HostFailsKeeps DEF Decode
<1>5. CASE ~Wrong("unread") /\ ~Wrong("mistyped") /\ ~Wrong("unfit")
  <2>1. Goes("check") /\ at' = "check" /\ call' = call /\ error' = error
    BY <1>5 DEF Decode, Goes, Same
  <2>2. Placed'
    BY <1>1, <2>1 DEF Placed, Goes, Same, ToRun, ToAdmit, Over
  <2>3. Unmet'
    BY <1>1, <1>5, <2>1 DEF Unmet, Wrong, Ailing, ToRun, ToAdmit
  <2> QED
    BY <1>1, <2>1, <2>2, <2>3, GoesKeeps DEF ToRun, ToAdmit
<1> QED
  BY <1>3, <1>4, <1>5

LEMMA PrepareKeeps ==
  ASSUME CallInv, Prepare
  PROVE  CallInv'
<1>1. at = "check" /\ at \in ToRun /\ error = <<>> /\ CallKnown /\ Placed /\ Unmet
  BY NotYet DEF Prepare, ToRun, ToAdmit, CallInv
<1>2. /\ ~Wrong("guard") /\ ~Wrong("body") /\ ~Wrong("repo") /\ ~Wrong("admission")
      /\ ~Wrong("unread") /\ ~Wrong("mistyped") /\ ~Wrong("unfit")
  BY <1>1 DEF Unmet, ToAdmit, Wrong
<1>3. CASE Wrong("check")
  <2>1. FirstWrong = "check"
    BY <1>2, <1>3, OrderIs, FirstAt
  <2>2. FirstFits(Refused) /\ First \notin Diagnosed
    BY <1>3, <2>1 DEF FirstFits, First, TimedOut, CodeAt, Diagnosed, Troubles, Outcomes, Deliveries, Wrong
  <2>3. ErrorFits(New(Refused, Said("check")))
    BY <1>1, <2>2, NewFits, SayingsAre, CleanAre DEF Happened, Troubles
  <2> QED
    BY <1>1, <1>3, <2>3, HostFailsKeeps DEF Prepare
<1>4. CASE ~Wrong("check")
  <2>1. Goes("authorize") /\ at' = "authorize" /\ call' = call /\ error' = error
    BY <1>4 DEF Prepare, Goes, Same
  <2>2. Placed'
    BY <1>1, <2>1 DEF Placed, Goes, Same, ToRun, ToAdmit, Over
  <2>3. Unmet'
    BY <1>1, <1>2, <1>4, <2>1 DEF Unmet, Wrong, Ailing, ToRun, ToAdmit
  <2> QED
    BY <1>1, <2>1, <2>2, <2>3, GoesKeeps DEF ToRun, ToAdmit
<1> QED
  BY <1>3, <1>4

LEMMA AuthorizeKeeps ==
  ASSUME CallInv, Authorize
  PROVE  CallInv'
<1>1. at = "authorize" /\ at \in ToRun /\ error = <<>> /\ CallKnown /\ Placed /\ Unmet
  BY NotYet DEF Authorize, ToRun, ToAdmit, CallInv
<1>2. /\ ~Wrong("guard") /\ ~Wrong("body") /\ ~Wrong("repo") /\ ~Wrong("admission")
      /\ ~Wrong("unread") /\ ~Wrong("mistyped") /\ ~Wrong("unfit") /\ ~Wrong("check")
  BY <1>1 DEF Unmet, ToAdmit, Wrong
<1>3. CASE Wrong("authorize")
  <2>1. FirstWrong = "authorize"
    BY <1>2, <1>3, OrderIs, FirstAt
  <2>2. FirstFits(Denied) /\ First \notin Diagnosed
    BY <1>3, <2>1 DEF FirstFits, First, TimedOut, CodeAt, Diagnosed, Troubles, Outcomes, Deliveries, Wrong
  <2>3. ErrorFits(New(Denied, Said("authorize")))
    BY <1>1, <2>2, NewFits, SayingsAre, CleanAre DEF Happened, Troubles
  <2> QED
    BY <1>1, <1>3, <2>3, HostFailsKeeps DEF Authorize
<1>4. CASE ~Wrong("authorize")
  <2>1. Goes("handle") /\ at' = "handle" /\ call' = call /\ error' = error
    BY <1>4 DEF Authorize, Goes, Same
  <2>2. Placed'
    BY <1>1, <2>1 DEF Placed, Goes, Same, ToRun, ToAdmit, Over
  <2>3. Unmet'
    BY <1>1, <1>2, <1>4, <2>1 DEF Unmet, Wrong, Ailing, ToRun, ToAdmit
  <2> QED
    BY <1>1, <2>1, <2>2, <2>3, GoesKeeps DEF ToRun, ToAdmit
<1> QED
  BY <1>3, <1>4

\* Once the op is at work, nothing is wrong that it was to meet before.
LEMMA AtWork ==
  ASSUME CallInv, at \in {"handle", "run"}
  PROVE  /\ at \in ToRun /\ at \notin Over /\ error = <<>>
         /\ ~Wrong("guard") /\ ~Wrong("body") /\ ~Wrong("repo") /\ ~Wrong("admission") /\ ~Wrong("unread")
         /\ ~Wrong("mistyped") /\ ~Wrong("unfit") /\ ~Wrong("check") /\ ~Wrong("authorize") /\ ~Wrong("sidecar")
<1>1. at \in ToRun /\ at \notin Over /\ error = <<>>
  BY NotYet DEF ToRun, ToAdmit, Over
<1> QED
  BY <1>1 DEF CallInv, Unmet, ToAdmit, Wrong

\* What fails first of what the handler can fail with is the first thing wrong.
LEMMA AilsFirst ==
  ASSUME CallInv, at \in {"handle", "run"}, NEW o \in Ailing, o = "late" => Ailing = {"late"}
  PROVE  First = o
<1>1. o \in Outcomes \union {"late"} /\ Wrong(o)
  BY DEF Ailing, Wrong
<1>2. \A s \in Outcomes \ {o} : ~Wrong(s)
  BY <1>1 DEF CallInv, CallKnown, Ailing, Wrong, Outcomes
<1>3. FirstWrong = o
  <2>1. CASE o = "refused"
    BY <1>1, <2>1, AtWork, OrderIs, FirstAt
  <2>2. CASE o = "finer"
    BY <1>1, <1>2, <2>2, AtWork, OrderIs, FirstAt DEF Outcomes
  <2>3. CASE o = "foreign"
    BY <1>1, <1>2, <2>3, AtWork, OrderIs, FirstAt DEF Outcomes
  <2>4. CASE o = "plain"
    BY <1>1, <1>2, <2>4, AtWork, OrderIs, FirstAt DEF Outcomes
  <2>5. CASE o = "down"
    BY <1>1, <1>2, <2>5, AtWork, OrderIs, FirstAt DEF Outcomes
  <2>6. CASE o = "panic"
    BY <1>1, <1>2, <2>6, AtWork, OrderIs, FirstAt DEF Outcomes
  <2>7. CASE o = "late"
    BY <1>1, <1>2, <2>7, AtWork, OrderIs, FirstAt DEF Outcomes
  <2> QED
    BY <1>1, <2>1, <2>2, <2>3, <2>4, <2>5, <2>6, <2>7 DEF Outcomes
<1> QED
  BY <1>1, <1>3 DEF First, Outcomes

\* How the handler fails, by itself.
LEMMA OutcomeIs ==
  ASSUME CallKnown, NEW o \in (Outcomes \ {"panic"}) \union {"late", "left"}
  PROVE  /\ Outcome(o) \in Errors
         /\ call.hidden => Clean(ClientMessage(Outcome(o), TRUE))
         /\ CodeOf(Outcome(o)) = IF o = "left" THEN Internal ELSE CodeAt(o)
         /\ o \in {"plain", "late"} => <<"cause", o>> \in ClientMessage(Outcome(o), FALSE)
<1>1. call.hidden \in BOOLEAN
  BY DEF CallKnown
<1>2. CASE o = "refused"
  <2>1. Outcome(o) = New(Refused, Said(o)) /\ o \in Happened
    BY <1>2 DEF Outcome, Happened, Troubles, Outcomes, Deliveries
  <2>2. Refused \in Codes /\ PublicOf[Refused] # Internal /\ CodeAt(o) = Refused
    BY <1>2, CallsAssumption DEF CodeAt
  <2>3. Said(o) \in SUBSET Sayings /\ Clean(Said(o))
    BY <2>1, SayingsAre, CleanAre
  <2>4. Outcome(o) \in Errors /\ CodeOf(Outcome(o)) = Refused /\ ClientMessage(Outcome(o), TRUE) = Said(o)
    BY <2>1, <2>2, <2>3, NewIs
  <2> QED
    BY <1>2, <2>2, <2>3, <2>4
<1>3. CASE o = "foreign"
  <2>1. Outcome(o) = New(Foreign, Said(o)) /\ o \in Happened
    BY <1>3 DEF Outcome, Happened, Troubles, Outcomes, Deliveries
  <2>2. Foreign \in Codes /\ PublicOf[Foreign] # Internal /\ CodeAt(o) = Foreign
    BY <1>3, CallsAssumption DEF CodeAt
  <2>3. Said(o) \in SUBSET Sayings /\ Clean(Said(o))
    BY <2>1, SayingsAre, CleanAre
  <2>4. Outcome(o) \in Errors /\ CodeOf(Outcome(o)) = Foreign /\ ClientMessage(Outcome(o), TRUE) = Said(o)
    BY <2>1, <2>2, <2>3, NewIs
  <2> QED
    BY <1>3, <2>2, <2>3, <2>4
<1>4. CASE o \in {"finer", "down"}
  <2> DEFINE c == IF o = "finer" THEN Finer ELSE Down
  <2>1. Outcome(o) = Encapsulate(Cause(o), c, Said(o), call.hidden) /\ o \in Happened
    BY <1>4 DEF Outcome, Happened, Troubles, Outcomes, Deliveries
  <2>2. c \in Codes /\ PublicOf[c] # Internal /\ c = CodeAt(o)
    BY <1>4, CallsAssumption DEF CodeAt
  <2> HIDE DEF c
  <2>3. Cause(o) \in Errors /\ Said(o) \in SUBSET Sayings /\ Clean(Said(o)) /\ Said(o) # {}
    BY <2>1, CauseIs, SayingsAre, CleanAre DEF Said
  <2>4. /\ Outcome(o) \in Errors /\ CodeOf(Outcome(o)) = c
        /\ ClientMessage(Outcome(o), call.hidden) = Said(o)
    BY <1>1, <2>1, <2>2, <2>3, EncapsulatedIs
  <2>5. call.hidden => ClientMessage(Outcome(o), TRUE) = Said(o)
    BY <2>4
  <2> QED
    BY <1>4, <2>2, <2>3, <2>4, <2>5
<1>5. CASE o \in {"plain", "late", "left"}
  <2>1. Outcome(o) = Cause(o) /\ o \in Happened
    BY <1>5 DEF Outcome, Happened, Troubles, Outcomes, Deliveries
  <2> QED
    BY <1>5, <2>1, CauseIs, CleanAre, CodesAssumption DEF CodeAt
<1> QED
  BY <1>2, <1>3, <1>4, <1>5 DEF Outcomes

LEMMA OutcomeFits ==
  ASSUME CallInv, at \in {"handle", "run"}, NEW o \in Ailing \ {"panic"}, o = "late" => Ailing = {"late"}
  PROVE  ErrorFits(NamedLate(Outcome(o)))
<1>1. First = o /\ CallKnown /\ o \in (Outcomes \ {"panic"}) \union {"late"} /\ Wrong(o)
  BY AilsFirst DEF Ailing, CallInv, Wrong
<1>2. /\ Outcome(o) \in Errors
      /\ call.hidden => Clean(ClientMessage(Outcome(o), TRUE))
      /\ CodeOf(Outcome(o)) = CodeAt(o)
      /\ o \in {"plain", "late"} => <<"cause", o>> \in ClientMessage(Outcome(o), FALSE)
  BY <1>1, OutcomeIs DEF Outcomes
<1>3. TimedOut <=> Wrong("late") /\ call.mounted
  BY <1>1 DEF TimedOut
<1>4. ~(call.wrong \subseteq Deliveries) /\ First \in Troubles \ Deliveries
  BY <1>1 DEF Wrong, Troubles, Outcomes, Deliveries
<1>5. First \in Diagnosed => o \in {"plain", "late"}
  BY <1>1 DEF Diagnosed, Outcomes
<1>6. CASE Wrong("late") /\ call.mounted /\ context = "live"
  <2>1. FirstFits(Late)
    BY <1>3, <1>4, <1>6 DEF FirstFits
  <2>2. ErrorFits(Encapsulate(Outcome(o), Late, {}, call.hidden))
    BY <1>1, <1>2, <1>5, <2>1, EncapsulatedFits, SayingsAre, CleanAre
  <2> QED
    BY <1>6, <2>2 DEF NamedLate
<1>7. CASE ~(Wrong("late") /\ call.mounted /\ context = "live")
  <2>1. context = "live" => FirstFits(CodeAt(o))
    BY <1>1, <1>3, <1>4, <1>7 DEF FirstFits
  <2>2. CodeAt(o) \in {Invalid, Denied, Refused, Finer, Foreign, Down, Internal, Late}
    BY <1>1 DEF CodeAt, Outcomes
  <2>3. ErrorFits(Outcome(o))
    BY <1>1, <1>2, <1>5, <2>1, <2>2 DEF ErrorFits
  <2> QED
    BY <1>7, <2>3 DEF NamedLate
<1> QED
  BY <1>6, <1>7

LEMMA HandlerFailsKeeps ==
  ASSUME CallInv, at \in {"handle", "run"}, HandlerFails
  PROVE  CallInv'
<1>1. at \in ToRun /\ at \notin Over /\ at # "done" /\ error = <<>> /\ CallKnown /\ Placed /\ Unmet
  BY AtWork DEF CallInv, Over
<1>2. CASE \E o \in Ailing \ {"panic"} : (o = "late" => Ailing = {"late"}) /\ OpFails(NamedLate(Outcome(o)))
  BY <1>1, <1>2, OutcomeFits, HostFailsKeeps
<1>3. CASE context = "left" /\ OpFails(Outcome("left"))
  <2>1. Outcome("left") = Cause("left")
    BY DEF Outcome
  <2>2. ErrorFits(Cause("left"))
    BY <1>1, <1>3, CauseFits DEF Happened
  <2> QED
    BY <1>1, <1>3, <2>1, <2>2, HostFailsKeeps
<1>4. CASE Wrong("panic") /\ at' = "panicked" /\ error' = Cause("panic") /\ Same
  <2>1. UNCHANGED <<call, context, sent, lines, pinging, cli>> /\ at' = "panicked" /\ error' = Cause("panic")
    BY <1>4 DEF Same
  <2>2. "panic" \in Ailing
    BY <1>4 DEF Ailing, Wrong, Outcomes
  <2>3. First = "panic"
    BY <2>2, AilsFirst
  <2>4. FirstFits(Internal)
    BY <1>4, <2>3 DEF FirstFits, TimedOut, CodeAt, Troubles, Outcomes, Deliveries, Wrong
  <2>5. ErrorFits(Cause("panic"))
    BY <1>1, <2>3, <2>4, CauseFits DEF Happened, Troubles, Outcomes, Deliveries
  <2>6. ErrorFits(error)'
    BY <2>1, <2>5 DEF ErrorFits, FirstFits, TimedOut, First, FirstWrong, Wrong
  <2>7. error' # <<>>
    BY <2>1, <2>5 DEF ErrorFits, Errors
  <2>8. CliIs' /\ CallKnown'
    BY <1>1, <2>1, CliKeeps DEF CallInv, CallKnown, CanBe
  <2>9. Placed' /\ Unmet'
    BY <1>1, <1>4, <2>1, <2>3, <2>7 DEF Placed, Unmet, Wrong, Over, First, FirstWrong
  <2>10. SentIs'
    BY <1>1, <2>1 DEF CallInv, SentIs
  <2> QED
    BY <2>1, <2>6, <2>8, <2>9, <2>10 DEF CallInv, FailureIs
<1> QED
  BY <1>2, <1>3, <1>4 DEF HandlerFails

LEMMA HandleKeeps ==
  ASSUME CallInv, Handle
  PROVE  CallInv'
<1>1. at = "handle" /\ at \in {"handle", "run"} /\ at # "done" /\ CallKnown /\ Placed /\ Unmet
  BY DEF Handle, CallInv
<1>2. at \in ToRun /\ at \notin Over /\ error = <<>>
  BY <1>1, AtWork
<1>3. CASE HandlerFails
  BY <1>1, <1>3, HandlerFailsKeeps
<1>4. CASE call.door # "stream" /\ Ailing = {} /\ Goes(After)
  <2>1. at' = After /\ After \in {"answer", "done"} /\ (After = "done" <=> call.door = "embedded") /\ call' = call /\ error' = error
    BY <1>4 DEF Goes, Same, After
  <2>2. Placed'
    BY <1>1, <1>4, <2>1 DEF Placed, Goes, Same, Over
  <2>3. Unmet'
    BY <1>1, <1>2, <1>4, <2>1, AtWork DEF Unmet, Wrong, Ailing
  <2> QED
    BY <1>2, <1>4, <2>1, <2>2, <2>3, GoesKeeps
<1>5. CASE call.door = "stream" /\ context = "live" /\ at' = "run" /\ UNCHANGED error /\ Started
  <2>1. at' = "run" /\ sent' = Begun /\ UNCHANGED <<call, error, context, lines, pinging, cli>>
    BY <1>5 DEF Started, Begun
  <2>2. CliIs' /\ CallKnown'
    BY <1>2, <2>1, CliKeeps DEF CallInv, CallKnown, CanBe
  <2>3. Placed'
    BY <1>1, <1>5, <2>1 DEF Placed, ToRun
  <2>4. Unmet'
    BY <1>1, <1>2, <2>1, AtWork DEF Unmet, Wrong, Ailing, ToRun
  <2>5. SentIs'
    BY <1>1, <1>5, <2>1 DEF CallInv, SentIs
  <2> QED
    BY <1>2, <2>1, <2>2, <2>3, <2>4, <2>5 DEF CallInv, FailureIs
<1>6. CASE call.door = "stream" /\ context = "left" /\ OpFails(Cause("left"))
  <2>1. ErrorFits(Cause("left"))
    BY <1>1, <1>6, CauseFits DEF Happened
  <2> QED
    BY <1>2, <1>6, <2>1, HostFailsKeeps
<1> QED
  BY <1>3, <1>4, <1>5, <1>6 DEF Handle

LEMMA RunKeeps ==
  ASSUME CallInv, Run
  PROVE  CallInv'
<1>1. at = "run" /\ at \in {"handle", "run"} /\ CallKnown /\ Placed /\ Unmet /\ call.door = "stream"
  BY DEF Run, CallInv, Placed
<1>2. at \in ToRun /\ error = <<>>
  BY <1>1, AtWork
<1>3. CASE HandlerFails
  BY <1>1, <1>3, HandlerFailsKeeps
<1>4. CASE Ailing = {} /\ Goes("answer")
  <2>1. at' = "answer" /\ call' = call /\ error' = error
    BY <1>4 DEF Goes, Same
  <2>2. Placed'
    BY <1>1, <1>4, <2>1 DEF Placed, Goes, Same, Over
  <2>3. Unmet'
    BY <1>1, <1>2, <1>4, <2>1, AtWork DEF Unmet, Wrong, Ailing
  <2> QED
    BY <1>2, <1>4, <2>1, <2>2, <2>3, GoesKeeps
<1> QED
  BY <1>3, <1>4 DEF Run

-----------------------------------------------------------------------------
(* The answer, and the CLI's end. *)

\* An answer ends the call, with one line.
LEMMA EndsKeeps ==
  ASSUME CallInv, at \in {"answer", "panicked"}, at' = "done", UNCHANGED <<call, error, context, cli>>, SentIs'
  PROVE  CallInv'
<1>1. at \notin Over /\ CallKnown /\ Placed /\ Unmet /\ CliIs /\ FailureIs
  BY DEF Over, CallInv
<1>2. CliIs' /\ CallKnown'
  BY <1>1, CliKeeps DEF CallKnown, CanBe
<1>3. Placed'
  BY <1>1 DEF Placed, Over
<1>4. Unmet'
  BY <1>1 DEF Unmet, Wrong, Ailing, ToRun, ToAdmit
<1>5. error # <<>> => ErrorFits(error)'
  BY <1>1 DEF FailureIs, ErrorFits, FirstFits, TimedOut, First, FirstWrong, Wrong
<1> QED
  BY <1>2, <1>3, <1>4, <1>5 DEF CallInv, FailureIs, Over

\* The line appended is the call's only one.
LEMMA OneLine ==
  ASSUME CallInv, at # "done", NEW line
  PROVE  Append(lines, line) = <<line>> /\ Len(Append(lines, line)) = 1 /\ (sent = Nothing \/ (sent = Begun /\ call.door = "stream"))
<1>1. lines = <<>>
  BY DEF CallInv, SentIs
<1> QED
  BY <1>1 DEF CallInv, SentIs

LEMMA AnswerPageKeeps ==
  ASSUME CallInv, AnswerPage
  PROVE  CallInv'
<1>1. at = "answer" /\ call.door \in {"http", "remote"} /\ at # "done"
  BY DEF AnswerPage
<1>2. ASSUME NEW what, NEW line, Answers(what, line),
             \/ what = [as |-> "answer"] /\ error = <<>> /\ line = OkLine
             \/ what = ErrorBody /\ error # <<>> /\ line = LineOf(error)
             \/ what = Nothing /\ context = "left"
      PROVE  CallInv'
  <2>1. /\ at' = "done" /\ sent' = what /\ lines' = <<line>> /\ Len(lines') = 1 /\ pinging' = FALSE
        /\ UNCHANGED <<call, error, context, cli>>
    BY <1>1, <1>2, OneLine DEF Answers
  <2>2. ErrorBody' = ErrorBody /\ LineOf(error)' = LineOf(error)
    BY <2>1 DEF ErrorBody, LineOf
  <2>3. SentIs'
    BY <1>1, <1>2, <2>1, <2>2 DEF SentIs, OverHTTP
  <2> QED
    BY <1>1, <2>1, <2>3, EndsKeeps
<1>3. \E what, line :
         /\ Answers(what, line)
         /\ \/ what = [as |-> "answer"] /\ error = <<>> /\ line = OkLine
            \/ what = ErrorBody /\ error # <<>> /\ line = LineOf(error)
            \/ what = Nothing /\ context = "left"
  BY DEF AnswerPage
<1> QED
  BY <1>2, <1>3

LEMMA EndStreamKeeps ==
  ASSUME CallInv, EndStream
  PROVE  CallInv'
<1>1. at = "answer" /\ call.door = "stream" /\ at # "done"
  BY DEF EndStream
<1>2. ASSUME NEW what, NEW line, Answers(what, line),
             \/ what = [as |-> "answer"] /\ error = <<>> /\ line = OkLine
             \/ what = ErrorBody /\ error # <<>> /\ line = LineOf(error)
             \/ what = sent /\ context = "left"
      PROVE  CallInv'
  <2>1. /\ at' = "done" /\ sent' = what /\ lines' = <<line>> /\ Len(lines') = 1 /\ pinging' = FALSE
        /\ UNCHANGED <<call, error, context, cli>> /\ (sent = Nothing \/ sent = Begun)
    BY <1>1, <1>2, OneLine DEF Answers
  <2>2. ErrorBody' = ErrorBody /\ LineOf(error)' = LineOf(error)
    BY <2>1 DEF ErrorBody, LineOf
  <2>3. SentIs'
    BY <1>1, <1>2, <2>1, <2>2 DEF SentIs, OverHTTP
  <2> QED
    BY <1>1, <2>1, <2>3, EndsKeeps
<1>3. \E what, line :
         /\ Answers(what, line)
         /\ \/ what = [as |-> "answer"] /\ error = <<>> /\ line = OkLine
            \/ what = ErrorBody /\ error # <<>> /\ line = LineOf(error)
            \/ what = sent /\ context = "left"
  BY DEF EndStream
<1> QED
  BY <1>2, <1>3

LEMMA AnswerToolKeeps ==
  ASSUME CallInv, AnswerTool
  PROVE  CallInv'
<1> DEFINE what == IF error = <<>> THEN [as |-> "answer"] ELSE ErrorBody
           line == IF Wrong("guard") THEN LineOf(error) ELSE OkLine
<1>1. at = "answer" /\ call.door = "mcp" /\ at # "done" /\ Answers(what, line)
  BY DEF AnswerTool
<1>2. error = <<>> => ~Wrong("guard")
  BY <1>1 DEF CallInv, Unmet
<1>3. (what = [as |-> "answer"] /\ error = <<>>) \/ (what = ErrorBody /\ error # <<>>)
  OBVIOUS
<1>4. line = IF Wrong("guard") THEN LineOf(error) ELSE OkLine
  OBVIOUS
<1> HIDE DEF what, line
<1>5. /\ at' = "done" /\ sent' = what /\ lines' = <<line>> /\ pinging' = FALSE
      /\ UNCHANGED <<call, error, context, cli>>
  BY <1>1, OneLine DEF Answers
<1>6. ErrorBody' = ErrorBody /\ LineOf(error)' = LineOf(error) /\ (Wrong("guard")' <=> Wrong("guard"))
  BY <1>5 DEF ErrorBody, LineOf, Wrong
<1>7. SentIs'
  BY <1>1, <1>2, <1>3, <1>4, <1>5, <1>6 DEF SentIs, OverHTTP
<1> QED
  BY <1>1, <1>5, <1>7, EndsKeeps

LEMMA RecoverKeeps ==
  ASSUME CallInv, Recover
  PROVE  CallInv'
<1>1. at = "panicked" /\ at # "done" /\ Wrong("panic") /\ First = "panic" /\ error # <<>> /\ call.door \in {"http", "stream", "remote"}
  BY CanBeIs DEF Recover, CallInv, Placed
<1>2. /\ at' = "done" /\ sent' = (IF sent = Nothing THEN ErrorBody ELSE sent) /\ lines' = <<LineOf(error)>> /\ Len(lines') = 1
      /\ UNCHANGED <<call, error, context, pinging, cli>> /\ (sent = Nothing \/ (sent = Begun /\ call.door = "stream"))
  BY <1>1, OneLine DEF Recover
<1>3. ErrorBody' = ErrorBody /\ LineOf(error)' = LineOf(error) /\ Wrong("panic")' /\ First' = "panic"
  BY <1>1, <1>2 DEF ErrorBody, LineOf, Wrong, First, FirstWrong
<1>4. SentIs'
  BY <1>1, <1>2, <1>3 DEF CallInv, SentIs, OverHTTP
<1> QED
  BY <1>1, <1>2, <1>4, EndsKeeps

LEMMA EndAloneKeeps ==
  ASSUME CallInv, EndAlone
  PROVE  CallInv'
<1>1. at = "answer" /\ call.door = "alone" /\ at # "done"
  BY DEF EndAlone
<1>2. lines = <<>> /\ Len(lines) = 0 /\ ~pinging
  BY <1>1 DEF CallInv, SentIs
<1>3. /\ at' = "done" /\ UNCHANGED <<call, error, context, sent, pinging, cli>>
      /\ Len(lines') = IF error = <<>> \/ Wrong("repo") THEN 0 ELSE 1
  BY <1>1, <1>2, OneLine DEF EndAlone
<1>4. SentIs'
  BY <1>1, <1>2, <1>3 DEF SentIs, OverHTTP, Wrong
<1> QED
  BY <1>1, <1>3, <1>4, EndsKeeps

LEMMA LeavesKeeps ==
  ASSUME CallInv, Leaves
  PROVE  CallInv'
<1>1. /\ context = "live" /\ context' = "left" /\ UNCHANGED <<call, at, error, sent, lines, pinging, cli>>
      /\ cli.at # "exited"
  BY DEF Leaves, CallInv, CliIs
<1>2. CallKnown' /\ Placed' /\ Unmet'
  BY <1>1 DEF CallInv, CallKnown, CanBe, Placed, Unmet, Wrong, Ailing, First, FirstWrong
<1>3. error # <<>> => ErrorFits(error)'
  BY <1>1 DEF CallInv, FailureIs, ErrorFits
<1>4. SentIs'
  BY <1>1 DEF CallInv, SentIs, ErrorBody, LineOf, Wrong, First, FirstWrong
<1>5. CliIs'
  BY <1>1 DEF CallInv, CliIs, InterruptIsSaid
<1> QED
  BY <1>1, <1>2, <1>3, <1>4, <1>5 DEF CallInv, FailureIs

LEMMA DiesKeeps ==
  ASSUME CallInv, Dies
  PROVE  CallInv'
<1>1. /\ call.door = "remote" /\ at # "done" /\ cli.at = "waits" /\ at' = "dead"
      /\ UNCHANGED <<call, error, context, sent, lines, pinging, cli>>
  BY DEF Dies
<1>2. CallKnown' /\ Placed' /\ Unmet'
  BY <1>1 DEF CallInv, CallKnown, CanBe, Placed, Unmet, Over
<1>3. error # <<>> => ErrorFits(error)'
  BY <1>1 DEF CallInv, FailureIs, ErrorFits, FirstFits, TimedOut, First, FirstWrong, Wrong
<1>4. SentIs'
  BY <1>1 DEF CallInv, SentIs
<1>5. CliIs'
  BY <1>1 DEF CallInv, CliIs, InterruptIsSaid
<1> QED
  BY <1>1, <1>2, <1>3, <1>4, <1>5 DEF CallInv, FailureIs, Over

\* The CLI's end changes nothing but the CLI.
LEMMA ExitKeeps ==
  ASSUME CallInv, UNCHANGED <<call, at, error, context, sent, lines, pinging>>, CliIs'
  PROVE  CallInv'
<1>1. CallKnown' /\ Placed' /\ Unmet'
  BY DEF CallInv, CallKnown, CanBe, Placed, Unmet, Wrong, Ailing, First, FirstWrong
<1>2. error # <<>> => ErrorFits(error)'
  BY DEF CallInv, FailureIs, ErrorFits, FirstFits, TimedOut, First, FirstWrong, Wrong
<1>3. SentIs'
  BY DEF CallInv, SentIs, ErrorBody, LineOf, Wrong, First, FirstWrong
<1> QED
  BY <1>1, <1>2, <1>3 DEF CallInv, FailureIs

\* An exit for a failure that is told well: Ctrl-C's, where there was one.
LEMMA ExitsKeeps ==
  ASSUME CallInv, cli.at = "waits", context = "left" \/ at \in Over,
         NEW e \in Errors, CodeOf(e) # Interrupted,
         NEW told, told.code # Interrupted, ToldWell(AsError(told)), Exits(e, told)
  PROVE  CallInv'
<1>1. call.door \in AtCLI /\ call.hidden \in BOOLEAN
  BY DEF CallInv, CliIs, CallKnown
<1>2. /\ cli' = [at |-> "exited", exit |-> IF CodeOf(RunError(e)) = Interrupted THEN 130 ELSE 1, told |-> AsError(told)]
      /\ UNCHANGED <<call, at, error, context, sent, lines, pinging>>
  BY DEF Exits
<1>3. CodeOf(RunError(e)) = Interrupted <=> context = "left"
  <2>1. CASE context = "left"
    <3>1. RunError(e) = Encapsulate(e, Interrupted, Said("interrupted"), call.hidden)
      BY <2>1 DEF RunError
    <3>2. Interrupted \in Codes /\ Said("interrupted") \in SUBSET Sayings
      BY SayingsAre, CallsAssumption DEF Happened
    <3>3. CodeOf(RunError(e)) = Interrupted
      BY <1>1, <3>1, <3>2, EncapsulatedIs
    <3> QED
      BY <2>1, <3>3
  <2>2. CASE context # "left"
    BY <2>2 DEF RunError
  <2> QED
    BY <2>1, <2>2
<1>4. AsError(told).as = "error" /\ AsError(told).code # Interrupted
  BY DEF AsError
<1>5. InterruptIsSaid'
  BY <1>2, <1>3, <1>4 DEF InterruptIsSaid
<1>6. ToldWell(AsError(told))' <=> ToldWell(AsError(told))
  BY <1>2 DEF ToldWell, Expected, TimedOut, First, FirstWrong, Wrong, AsError
<1>7. ToldWell(cli.told)'
  BY <1>2, <1>6 DEF ToldWell, Expected, TimedOut, First, FirstWrong, Wrong, AsError
<1>8. CliIs'
  BY <1>1, <1>2, <1>4, <1>5, <1>7 DEF CliIs, AtCLI
<1> QED
  BY <1>2, <1>8, ExitKeeps

\* What is wrong with a call that is done without a failure is its delivery.
LEMMA LeftToDeliver ==
  ASSUME CallInv, at = "done", error = <<>>
  PROVE  call.wrong \subseteq Deliveries
<1>1. \A t \in Troubles \ Deliveries : ~Wrong(t)
  BY DEF CallInv, Unmet, Troubles, Outcomes, Deliveries, Ailing, Wrong, ToRun, ToAdmit
<1> QED
  BY <1>1 DEF CallInv, CallKnown, Wrong

\* Where its delivery is all that is wrong with a call, it is what is expected.
LEMMA DeliveryIsFirst ==
  ASSUME CallKnown, call.wrong \subseteq Deliveries, NEW t \in Deliveries, Wrong(t)
  PROVE  First = t /\ Expected = Promised(t) /\ call.wrong # {} /\ t \notin Outcomes \union {"late", "foreign"}
<1>1. call.wrong = {t}
  BY DEF CallKnown, Wrong
<1>2. t \in {"expired", "unwritten", "transfer"}
  BY DEF Deliveries
<1>3. FirstWrong = t
  BY <1>1, <1>2, OrderIs, FirstAt DEF Wrong
<1>4. First = t
  BY <1>1, <1>2, <1>3 DEF First, Wrong
<1> QED
  BY <1>1, <1>2, <1>4 DEF Expected, Outcomes, Wrong

LEMMA ExpiredKeeps ==
  ASSUME CallInv, cli.at = "waits", at = "done", error = <<>>, Wrong("expired"),
         Exits(Cause("expired"), AsError(Render(New(Gone, Said("expired")), call.hidden)))
  PROVE  CallInv'
<1> DEFINE e == New(Gone, Said("expired"))
           told == AsError(Render(e, call.hidden))
<1>1. CallKnown /\ call.wrong \subseteq Deliveries /\ call.hidden \in BOOLEAN /\ at \in Over
  BY LeftToDeliver DEF CallInv, CallKnown, Over
<1>2. First = "expired" /\ Expected = Gone /\ call.wrong # {}
  BY <1>1, DeliveryIsFirst DEF Deliveries, Promised
<1>3. Gone \in Codes /\ PublicOf[Gone] = Gone /\ Gone \in Serves /\ Gone # Internal /\ Gone # Interrupted
  BY CallsAssumption
<1>4. Said("expired") \in SUBSET Sayings /\ Clean(Said("expired")) /\ Said("expired") # {}
  BY SayingsAre, CleanAre DEF Happened, Troubles, Deliveries, Said
<1>5. e \in Errors /\ CodeOf(e) = Gone /\ ClientMessage(e, call.hidden) = Said("expired")
  BY <1>1, <1>3, <1>4, NewIs
<1> HIDE DEF e
<1>6. Served(CodeOf(e)) = Gone
  BY <1>3, <1>5 DEF Served
<1>7. Render(e, call.hidden).code = Gone /\ Render(e, call.hidden).message = Said("expired")
  BY <1>1, <1>3, <1>5, <1>6, RenderIs
<1>8. told.as = "error" /\ told.code = Gone /\ told.message = Said("expired") /\ AsError(told) = told
  BY <1>7 DEF AsError
<1>9. Exits(Cause("expired"), told)
  BY DEF e
<1> HIDE DEF told
<1>10. ToldWell(AsError(told))
  BY <1>2, <1>4, <1>8 DEF ToldWell, Diagnosed
<1>11. Cause("expired") \in Errors /\ CodeOf(Cause("expired")) = Internal
  BY CauseIs DEF Happened, Troubles, Deliveries
<1>12. Internal # Interrupted
  BY CallsAssumption, CodesAssumption
<1> QED
  BY <1>1, <1>3, <1>8, <1>9, <1>10, <1>11, <1>12, ExitsKeeps

LEMMA UnwrittenKeeps ==
  ASSUME CallInv, cli.at = "waits", at = "done", error = <<>>, Wrong("unwritten"), ExitsFor(Cause("unwritten"))
  PROVE  CallInv'
<1> DEFINE e == Cause("unwritten")
<1>1. CallKnown /\ call.wrong \subseteq Deliveries /\ call.hidden \in BOOLEAN /\ at \in Over
  BY LeftToDeliver DEF CallInv, CallKnown, Over
<1>2. First = "unwritten" /\ Expected = Internal /\ call.wrong # {}
  BY <1>1, DeliveryIsFirst DEF Deliveries, Promised
<1>3. /\ e \in Errors /\ CodeOf(e) = Internal /\ Clean(ClientMessage(e, TRUE))
      /\ <<"cause", "unwritten">> \in ClientMessage(e, FALSE)
  <2>1. "unwritten" \in Happened
    BY DEF Happened, Troubles, Deliveries
  <2> QED
    BY <2>1, CauseIs, CleanAre, CodesAssumption
<1> HIDE DEF e
<1>4. PublicOf[Internal] = Internal /\ Internal # Interrupted
  BY CallsAssumption, CodesAssumption
<1>5. Mine(e).code = Internal /\ Mine(e).message = ClientMessage(e, call.hidden)
  BY <1>1, <1>3, <1>4, ResponseIs DEF Mine
<1>6. ToldWell(AsError(Mine(e)))
  BY <1>1, <1>2, <1>3, <1>5 DEF ToldWell, AsError, Diagnosed
<1> QED
  BY <1>1, <1>3, <1>4, <1>5, <1>6, ExitsKeeps DEF ExitsFor, e

LEMMA TransferKeeps ==
  ASSUME CallInv, cli.at = "waits", at = "done", error = <<>>, Wrong("transfer"),
         ExitsFor(Encapsulate(Cause("transfer"), Unreachable, Said("transfer"), call.hidden))
  PROVE  CallInv'
<1> DEFINE e == Encapsulate(Cause("transfer"), Unreachable, Said("transfer"), call.hidden)
<1>1. CallKnown /\ call.wrong \subseteq Deliveries /\ call.hidden \in BOOLEAN /\ at \in Over
  BY LeftToDeliver DEF CallInv, CallKnown, Over
<1>2. First = "transfer" /\ Expected = Unreachable /\ call.wrong # {}
  BY <1>1, DeliveryIsFirst DEF Deliveries, Promised
<1>3. Cause("transfer") \in Errors /\ Said("transfer") \in SUBSET Sayings /\ Clean(Said("transfer")) /\ Said("transfer") # {}
  BY CauseIs, SayingsAre, CleanAre DEF Happened, Troubles, Deliveries, Said
<1>4. Unreachable \in Codes /\ PublicOf[Unreachable] = Unreachable /\ Unreachable # Internal /\ Unreachable # Interrupted
  BY CallsAssumption
<1>5. e \in Errors /\ CodeOf(e) = Unreachable /\ ClientMessage(e, call.hidden) = Said("transfer")
  BY <1>1, <1>3, <1>4, EncapsulatedIs
<1> HIDE DEF e
<1>6. Mine(e).code = Unreachable /\ Mine(e).message = Said("transfer")
  BY <1>1, <1>4, <1>5, ResponseIs DEF Mine
<1>7. ToldWell(AsError(Mine(e)))
  BY <1>2, <1>3, <1>6 DEF ToldWell, AsError, Diagnosed
<1> QED
  BY <1>1, <1>4, <1>5, <1>6, <1>7, ExitsKeeps DEF ExitsFor, e

LEMMA DeliversKeeps ==
  ASSUME CallInv, cli.at = "waits", at = "done", error = <<>>, Delivers
  PROVE  CallInv'
<1>1. call.wrong \subseteq Deliveries /\ call.door \in AtCLI /\ at \in Over
  BY LeftToDeliver DEF CallInv, CliIs, Over
<1>2. CASE Wrong("expired") /\ Exits(Cause("expired"), AsError(Render(New(Gone, Said("expired")), call.hidden)))
  BY <1>2, ExpiredKeeps
<1>3. CASE Wrong("unwritten") /\ ExitsFor(Cause("unwritten"))
  BY <1>3, UnwrittenKeeps
<1>4. CASE Wrong("transfer") /\ ExitsFor(Encapsulate(Cause("transfer"), Unreachable, Said("transfer"), call.hidden))
  BY <1>4, TransferKeeps
<1>5. CASE call.wrong \intersect Deliveries = {} /\ Shows
  <2>1. call.wrong = {}
    BY <1>1, <1>5
  <2>2. /\ cli' = [at |-> "exited", exit |-> IF call.valid THEN 0 ELSE 1, told |-> [as |-> "answer"]]
        /\ UNCHANGED <<call, at, error, context, sent, lines, pinging>>
    BY <1>5 DEF Shows
  <2>3. InterruptIsSaid'
    BY <2>2 DEF InterruptIsSaid
  <2>4. ToldWell(cli.told)'
    BY <2>1, <2>2 DEF ToldWell
  <2>5. CliIs'
    BY <1>1, <2>2, <2>3, <2>4 DEF CliIs, AtCLI
  <2> QED
    BY <2>2, <2>5, ExitKeeps
<1> QED
  BY <1>2, <1>3, <1>4, <1>5 DEF Delivers

\* No failure of a call is an interrupt until runError makes it one.
LEMMA NotInterrupted ==
  /\ \A e : ErrorFits(e) => CodeOf(e) # Interrupted /\ PublicOf[CodeOf(e)] # Interrupted
  /\ \A c \in Codes : Served(c) # Interrupted
<1>1. ASSUME NEW e, ErrorFits(e)
      PROVE  CodeOf(e) # Interrupted /\ PublicOf[CodeOf(e)] # Interrupted
  <2>1. CodeOf(e) \in {Invalid, Denied, Refused, Finer, Foreign, Down, Internal, Late}
    BY <1>1 DEF ErrorFits
  <2> QED
    BY <2>1, CallsAssumption, CodesAssumption
<1>2. ASSUME NEW c \in Codes
      PROVE  Served(c) # Interrupted
  BY CallsAssumption, CodesAssumption DEF Served
<1> QED
  BY <1>1, <1>2

LEMMA EndCLIKeeps ==
  ASSUME CallInv, EndCLI
  PROVE  CallInv'
<1>1. cli.at = "waits" /\ CallKnown /\ call.hidden \in BOOLEAN
  BY DEF EndCLI, CallInv, CallKnown
<1>2. CASE call.door = "alone" /\ at = "done" /\ error = <<>> /\ Delivers
  BY <1>1, <1>2, DeliversKeeps
<1>3. CASE call.door = "alone" /\ at = "done" /\ error # <<>> /\ ExitsFor(error)
  <2>1. ErrorFits(error) /\ error \in Errors /\ at \in Over
    BY <1>3 DEF CallInv, FailureIs, ErrorFits, Over
  <2>2. ToldWell(AsError(Mine(error)))
    BY <1>1, <1>3, <2>1, FitIsToldWell DEF Mine
  <2>3. Mine(error).code # Interrupted /\ CodeOf(error) # Interrupted
    BY <1>1, <2>1, ResponseIs, NotInterrupted DEF Mine
  <2> QED
    BY <1>1, <1>3, <2>1, <2>2, <2>3, ExitsKeeps DEF ExitsFor
<1>4. CASE call.door = "remote" /\ at = "done" /\ sent.as = "answer" /\ Delivers
  <2>1. error = <<>>
    BY <1>1, <1>4 DEF CallInv, SentIs, OverHTTP, ErrorBody, AsError, Nothing, Begun
  <2> QED
    BY <1>1, <1>4, <2>1, DeliversKeeps
<1>5. CASE call.door = "remote" /\ at = "done" /\ sent.as = "error" /\ Exits(Cause("call"), sent)
  <2>1. sent = ErrorBody /\ error # <<>>
    BY <1>1, <1>5 DEF CallInv, SentIs, OverHTTP, Nothing, Begun
  <2>2. ErrorFits(error) /\ error \in Errors /\ at \in Over /\ CodeOf(error) \in Codes
    BY <1>5, <2>1, FromIs DEF CallInv, FailureIs, ErrorFits, Over
  <2>3. ToldWell(ErrorBody)
    BY <1>1, <1>5, <2>2, FitIsToldWell DEF OverHTTP
  <2>4. AsError(sent) = sent
    BY <2>1 DEF ErrorBody, AsError
  <2>5. sent.code # Interrupted
    BY <1>1, <2>1, <2>2, RenderIs, NotInterrupted DEF ErrorBody, AsError
  <2>6. Cause("call") \in Errors /\ CodeOf(Cause("call")) = Internal
    BY CauseIs DEF Happened
  <2>7. Internal # Interrupted
    BY CallsAssumption, CodesAssumption
  <2> QED
    BY <1>1, <1>5, <2>1, <2>2, <2>3, <2>4, <2>5, <2>6, <2>7, ExitsKeeps
<1>6. CASE call.door = "remote" /\ (at = "dead" \/ context = "left") /\ ExitsFor(Unanswered)
  <2>1. Cause("call") \in Errors /\ Said("call") \in SUBSET Sayings /\ Clean(Said("call")) /\ Said("call") # {}
    BY CauseIs, SayingsAre, CleanAre DEF Happened, Said
  <2>2. Unreachable \in Codes /\ PublicOf[Unreachable] = Unreachable /\ Unreachable # Internal /\ Unreachable # Interrupted
    BY CallsAssumption
  <2>3. Unanswered \in Errors /\ CodeOf(Unanswered) = Unreachable /\ ClientMessage(Unanswered, call.hidden) = Said("call")
    BY <1>1, <2>1, <2>2, EncapsulatedIs DEF Unanswered
  <2>4. Mine(Unanswered).code = Unreachable /\ Mine(Unanswered).message = Said("call")
    BY <1>1, <2>2, <2>3, ResponseIs DEF Mine
  <2>5. ToldWell(AsError(Mine(Unanswered)))
    BY <1>6, <2>1, <2>4 DEF ToldWell, AsError
  <2>6. context = "left" \/ at \in Over
    BY <1>6 DEF Over
  <2> QED
    BY <1>1, <1>6, <2>2, <2>3, <2>4, <2>5, <2>6, ExitsKeeps DEF ExitsFor
<1> QED
  BY <1>2, <1>3, <1>4, <1>5, <1>6 DEF EndCLI

-----------------------------------------------------------------------------
(* The theorem. *)

\* At most one of some things is one.
LEMMA OneAtMost ==
  ASSUME NEW All, IsFiniteSet(All), NEW S \in SUBSET All, Cardinality(S) <= 1
  PROVE  \A s, t \in S : s = t
<1> SUFFICES ASSUME NEW s \in S, NEW t \in S, s # t PROVE FALSE
  OBVIOUS
<1>1. IsFiniteSet(All)
  OBVIOUS
<1>2. IsFiniteSet(S)
  BY <1>1, FS_Subset
<1> DEFINE one == {s}
<1>3. IsFiniteSet(one) /\ Cardinality(one) = 1 /\ t \notin one /\ one \union {t} \subseteq S
  BY FS_Singleton
<1> HIDE DEF one
<1>4. Cardinality(one \union {t}) = 2 /\ IsFiniteSet(one \union {t})
  BY <1>3, FS_AddElement
<1>5. Cardinality(one \union {t}) <= Cardinality(S)
  BY <1>2, <1>3, FS_Subset
<1>6. Cardinality(S) \in Nat
  BY <1>2, FS_CardinalityType
<1> QED
  BY <1>4, <1>5, <1>6

LEMMA KindsAreFinite == IsFiniteSet(Outcomes) /\ IsFiniteSet(Deliveries)
<1>1. Outcomes = {"refused"} \union {"finer"} \union {"foreign"} \union {"plain"} \union {"down"} \union {"panic"}
  BY DEF Outcomes
<1>2. Deliveries = {"expired"} \union {"unwritten"} \union {"transfer"}
  BY DEF Deliveries
<1> QED
  BY <1>1, <1>2, FS_Singleton, FS_Union

LEMMA CallsInitIs ==
  ASSUME CallsInit
  PROVE  CallInv
<1>1. CallKnown
  <2>1. /\ call.door \in AllDoors /\ call.mounted \in BOOLEAN /\ call.hidden \in BOOLEAN /\ call.valid \in BOOLEAN
        /\ call = [door |-> call.door, mounted |-> call.mounted, hidden |-> call.hidden, valid |-> call.valid, wrong |-> call.wrong]
    BY DEF CallsInit, AllDoors
  <2>2. call.wrong \subseteq CanBe(call) /\ (call.mounted => call.door \in {"http", "stream", "mcp"})
    BY DEF CallsInit
  <2>3. call.wrong \in SUBSET Troubles
    BY <2>2 DEF CanBe, Troubles, Outcomes, Deliveries
  <2>4. \A s, t \in call.wrong \intersect Outcomes : s = t
    BY KindsAreFinite, OneAtMost DEF CallsInit
  <2>5. \A s, t \in call.wrong \intersect Deliveries : s = t
    BY KindsAreFinite, OneAtMost DEF CallsInit
  <2> QED
    BY <2>1, <2>2, <2>3, <2>4, <2>5 DEF CallKnown
<1>2. /\ at = FirstStage[call.door] /\ error = <<>> /\ context = "live" /\ sent = Nothing /\ lines = <<>> /\ pinging = FALSE
      /\ cli = [at |-> IF call.door \in AtCLI THEN "waits" ELSE "none", exit |-> -1, told |-> Nothing]
  BY DEF CallsInit
<1>3. /\ call.door \in OverHTTP => at = "guard"
      /\ call.door = "embedded" => at = "admit"
      /\ call.door = "alone" => at = "repo"
      /\ at # "done"
  BY <1>1, <1>2 DEF FirstStage, CallKnown, AllDoors, OverHTTP
<1>4. Placed
  BY <1>1, <1>2, <1>3 DEF Placed, CallKnown, AllDoors, OverHTTP, ToRun, ToAdmit
<1>5. Unmet
  BY <1>1, <1>2, <1>3, CanBeIs DEF Unmet, CallKnown, AllDoors, OverHTTP, ToRun, ToAdmit, Wrong, Ailing
<1>6. SentIs
  BY <1>2, <1>3 DEF SentIs
<1>7. CliIs
  BY <1>2 DEF CliIs, InterruptIsSaid
<1> QED
  BY <1>1, <1>2, <1>4, <1>5, <1>6, <1>7 DEF CallInv, FailureIs

LEMMA CallsNextKeeps ==
  ASSUME CallInv, [CallsNext]_calls
  PROVE  CallInv'
<1>1. CASE UNCHANGED calls
  BY <1>1, ExitKeeps DEF calls, CallInv, CliIs, ToldWell, InterruptIsSaid, Expected, TimedOut, First, FirstWrong, Wrong
<1>2. CASE CallsNext
  BY <1>2, GuardedKeeps, ReadBodyKeeps, SetUpKeeps, StartSidecarsKeeps, AdmitKeeps, DecodeKeeps, PrepareKeeps,
     AuthorizeKeeps, HandleKeeps, RunKeeps, AnswerPageKeeps, EndStreamKeeps, AnswerToolKeeps, RecoverKeeps,
     EndAloneKeeps, LeavesKeeps, DiesKeeps, EndCLIKeeps DEF CallsNext
<1> QED
  BY <1>1, <1>2

LEMMA CallInvIsEnough ==
  ASSUME CallInv
  PROVE  CallIsTold
<1>1. CallKnown /\ call.hidden \in BOOLEAN /\ call.door \in AllDoors
  BY DEF CallInv, CallKnown
<1>2. ASSUME CallOver, call.door \in AtCLI
      PROVE  Told = cli.told /\ ToldWell(Told)
  BY <1>2 DEF CallInv, CliIs, CallOver, Told, AtCLI
<1>3. ASSUME CallOver, call.door = "embedded"
      PROVE  ToldWell(Told)
  <2>1. Told = IF error = <<>> THEN [as |-> "answer"] ELSE AsError(Response(error, call.hidden))
    BY <1>3 DEF Told, AtCLI
  <2>2. at = "done"
    BY <1>3 DEF CallOver, CallInv, Placed
  <2>3. CASE error = <<>>
    <3>1. call.wrong = {}
      BY <1>1, <1>3, <2>2, <2>3, LeftToDeliver, CanBeIs DEF Wrong, AtCLI
    <3> QED
      BY <2>1, <2>3, <3>1 DEF ToldWell
  <2>4. CASE error # <<>>
    <3>1. ErrorFits(error)
      BY <2>4 DEF CallInv, FailureIs
    <3> QED
      BY <1>1, <1>3, <2>1, <2>4, <3>1, FitIsToldWell
  <2> QED
    BY <2>3, <2>4
<1>4. ASSUME CallOver, call.door \in {"http", "stream", "mcp"}
      PROVE  /\ Told = sent
             /\ ToldWell(Told) \/ (Told = Begun /\ First = "panic" /\ call.wrong # {}) \/ (context = "left" /\ Told.as # "error")
  <2>1. Told = sent
    BY <1>4 DEF Told, AtCLI
  <2>2. at = "done"
    BY <1>4 DEF CallOver, CallInv, Placed
  <2>3. CASE sent = [as |-> "answer"] /\ error = <<>>
    <3>1. call.wrong = {}
      BY <1>1, <1>4, <2>2, <2>3, LeftToDeliver, CanBeIs DEF Wrong, AtCLI
    <3> QED
      BY <2>1, <2>3, <3>1 DEF ToldWell
  <2>4. CASE sent = ErrorBody /\ error # <<>>
    <3>1. ErrorFits(error)
      BY <2>4 DEF CallInv, FailureIs
    <3> QED
      BY <1>1, <1>4, <2>1, <2>4, <3>1, FitIsToldWell DEF OverHTTP
  <2>5. CASE (sent = Nothing \/ sent = Begun) /\ context = "left"
    BY <2>1, <2>5 DEF Nothing, Begun
  <2>6. CASE Wrong("panic") /\ First = "panic" /\ sent = Begun
    BY <2>1, <2>6 DEF Begun, Wrong
  <2> QED
    BY <1>4, <2>2, <2>3, <2>4, <2>5, <2>6 DEF CallInv, SentIs, OverHTTP
<1>5. call.door \in AtCLI \union {"http", "stream", "mcp", "embedded"}
  BY <1>1 DEF AllDoors, OverHTTP, AtCLI
<1>6. FirstIsTold
  BY <1>2, <1>3, <1>4, <1>5 DEF FirstIsTold, ToldWell, Begun
<1>7. CausesAreHidden
  BY <1>2, <1>3, <1>4, <1>5 DEF CausesAreHidden, ToldWell, Begun, Diagnosed, Clean
<1>8. LineIsOfTheAnswer
  <2>1. SentIs
    BY DEF CallInv
  <2>2. /\ ErrorBody.as = "error"
        /\ error # <<>> => LineOf(error) = Line(LevelOf(ErrorBody.code), ErrorBody.code)
    <3>1. error # <<>> => ErrorBody.code = Served(CodeOf(error))
      BY <1>1, RenderIs DEF CallInv, FailureIs, ErrorFits, ErrorBody, AsError
    <3> QED
      BY <3>1 DEF LineOf, ErrorBody, AsError
  <2>3. \A line : Len(<<line>>) = 1
    OBVIOUS
  <2>4. ASSUME at = "done", call.door = "mcp", ~Wrong("guard")
        PROVE  lines = <<OkLine>>
    BY <2>1, <2>4 DEF SentIs, OverHTTP
  <2>5. ASSUME at = "done", call.door \in OverHTTP
        PROVE  Len(lines) = 1
    BY <2>1, <2>3, <2>5 DEF SentIs
  <2>6. ASSUME at = "done", call.door \in {"http", "stream", "remote"}
        PROVE  /\ sent.as = "error" => lines = <<Line(LevelOf(sent.code), sent.code)>>
               /\ sent.as = "answer" => lines = <<OkLine>>
    BY <2>1, <2>2, <2>6 DEF SentIs, OverHTTP, Nothing, Begun
  <2>7. ASSUME at = "done", call.door \in OverHTTP, sent.as \in {"nothing", "started"}
        PROVE  context = "left" \/ Wrong("panic")
    BY <2>1, <2>2, <2>7 DEF SentIs
  <2> QED
    BY <2>1, <2>4, <2>5, <2>6, <2>7 DEF LineIsOfTheAnswer, SentIs
<1>9. PingsEnd
  BY DEF CallInv, SentIs, PingsEnd
<1>10. InterruptIsSaid
  BY DEF CallInv, CliIs
<1> QED
  BY <1>6, <1>7, <1>8, <1>9, <1>10 DEF CallIsTold

\* A call is told of the first thing wrong with it by its code, alike at every
\* door, with no cause a client should not read and one line in the log that
\* says as much (shared/apikit, shared/httpkit, cmd/anfra).
THEOREM CallsAreTold == CallsSpec => []CallIsTold
<1>1. CallsInit => CallInv
  BY CallsInitIs
<1>2. CallInv /\ [CallsNext]_calls => CallInv'
  BY CallsNextKeeps
<1>3. CallInv => CallIsTold
  BY CallInvIsEnough
<1> QED
  BY <1>1, <1>2, <1>3, PTL DEF CallsSpec

-----------------------------------------------------------------------------
\* Of some numbers there is a least.
LEMMA LeastIs ==
  ASSUME NEW S \in SUBSET Nat, S # {}
  PROVE  \E m \in S : \A n \in S : m <= n
<1> DEFINE R == {ss \in Nat \X Nat : ss[1] < ss[2]}
<1>1. OpToRel(<, Nat) = R
  BY Zenon DEF OpToRel
<1>2. IsWellFoundedOn(R, Nat)
  BY <1>1, NatLessThanWellFounded, Zenon
<1>3. PICK m \in S : \A n \in S : ~ (<<n, m>> \in R)
  BY <1>2, WFMin
<1>4. \A n \in S : m <= n
  <2> TAKE n \in S
  <2>1. m \in Nat /\ n \in Nat /\ ~ (<<n, m>> \in R)
    BY <1>3
  <2>2. ~ (n < m)
    BY <2>1
  <2> QED
    BY <2>1, <2>2
<1> QED
  BY <1>4

-----------------------------------------------------------------------------
(* The delays between restarts.  The powers of two are counted as the       *)
(* subsets of a set, since the prover knows nothing else of them.           *)
Two(n) == 2^n

LEMMA TwoCounts ==
  ASSUME NEW n \in Nat
  PROVE  IsFiniteSet(SUBSET (1 .. n)) /\ Cardinality(SUBSET (1 .. n)) = Two(n) /\ Two(n) \in Nat
<1>1. IsFiniteSet(1 .. n) /\ Cardinality(1 .. n) = n
  BY FS_Interval
<1>2. IsFiniteSet(SUBSET (1 .. n)) /\ Cardinality(SUBSET (1 .. n)) = 2^Cardinality(1 .. n)
  BY <1>1, FS_SUBSET
<1>3. Cardinality(SUBSET (1 .. n)) \in Nat
  BY <1>2, FS_CardinalityType
<1> QED BY <1>1, <1>2, <1>3, Zenon DEF Two

LEMMA TwoIsNat == \A n \in Nat : Two(n) \in Nat
  BY TwoCounts

LEMMA TwoStarts == Two(0) = 1
<1>1. SUBSET (1 .. 0) = {{}}
  OBVIOUS
<1>2. Cardinality({{}}) = 1
  BY FS_Singleton
<1> QED BY <1>1, <1>2, TwoCounts

LEMMA TwoDoubles ==
  ASSUME NEW n \in Nat
  PROVE  Two(n + 1) = 2 * Two(n)
<1> DEFINE A == SUBSET (1 .. n)
           B == {s \union {n + 1} : s \in A}
           f == [s \in A |-> s \union {n + 1}]
<1>1. IsFiniteSet(A) /\ Cardinality(A) = Two(n) /\ Two(n) \in Nat
  BY TwoCounts
<1>2. \A s \in A : n + 1 \notin s
  OBVIOUS
<1>3. f \in Bijection(A, B)
  <2>1. f \in [A -> B] /\ \A x \in B : \E s \in A : f[s] = x
    OBVIOUS
  <2>2. \A s, u \in A : f[s] = f[u] => s = u
    BY <1>2
  <2> HIDE DEF f, A, B
  <2>3. DOMAIN f = A
    BY <2>1
  <2>4. IsInjective(f)
    BY <2>2, <2>3 DEF IsInjective
  <2> QED BY <2>1, <2>4 DEF Bijection, Injection, Surjection
<1>4. ExistsBijection(A, B)
  BY <1>3, Zenon DEF ExistsBijection
<1>5. IsFiniteSet(B) /\ Cardinality(B) = Two(n)
  <2> HIDE DEF A, B
  <2> QED BY <1>1, <1>4, FS_Bijection
<1>6. A \intersect B = {}
  BY <1>2
<1>7. A \union B = SUBSET (1 .. n + 1)
  <2>1. ASSUME NEW s \in SUBSET (1 .. n + 1) PROVE s \in A \union B
    <3>1. CASE n + 1 \in s
      <4>1. s \ {n + 1} \in A /\ s = (s \ {n + 1}) \union {n + 1}
        BY <3>1
      <4> QED BY <4>1
    <3>2. CASE n + 1 \notin s
      BY <3>2
    <3> QED BY <3>1, <3>2
  <2>2. \A s \in A : s \in SUBSET (1 .. n + 1) /\ s \union {n + 1} \in SUBSET (1 .. n + 1)
    OBVIOUS
  <2>3. ASSUME NEW s \in A \union B PROVE s \in SUBSET (1 .. n + 1)
    <3>1. CASE s \in A
      BY <2>2, <3>1
    <3>2. CASE s \in B
      <4>1. PICK r \in A : s = r \union {n + 1}
        BY <3>2
      <4> QED BY <2>2, <4>1
    <3> HIDE DEF A, B
    <3> QED BY <3>1, <3>2
  <2> HIDE DEF A, B
  <2> QED BY <2>1, <2>3
<1>8. Cardinality({}) = 0
  BY FS_EmptySet
<1>9. Cardinality(A \union B) = Cardinality(A) + Cardinality(B) - Cardinality(A \intersect B)
  <2> HIDE DEF A, B
  <2> QED BY <1>1, <1>5, FS_Union
<1>10. Cardinality(SUBSET (1 .. n + 1)) = Two(n + 1)
  <2>1. n + 1 \in Nat
    OBVIOUS
  <2> QED BY <2>1, TwoCounts, Zenon
<1>11. Cardinality(A \union B) = Two(n + 1)
  BY <1>7, <1>10, Zenon
<1>12. Cardinality(A \intersect B) = 0
  BY <1>6, <1>8, Zenon
<1> HIDE DEF A, B
<1> QED BY <1>1, <1>5, <1>9, <1>11, <1>12

LEMMA TwoAdds ==
  ASSUME NEW m \in Nat, NEW n \in Nat
  PROVE  Two(m + n) = Two(m) * Two(n)
<1> DEFINE S == {k \in Nat : Two(m + k) # Two(m) * Two(k)}
<1>1. S = {}
  <2> SUFFICES ASSUME S # {} PROVE FALSE
    OBVIOUS
  <2>1. PICK k \in S : \A l \in S : k <= l
    BY LeastIs
  <2>2. k # 0
    <3>1. Two(m) \in Nat
      BY TwoCounts
    <3> QED BY <2>1, <3>1, TwoStarts
  <2> DEFINE j == k - 1
  <2>3. j \in Nat /\ k = j + 1 /\ j \notin S /\ m + j \in Nat /\ m + k = (m + j) + 1
    BY <2>1, <2>2
  <2>4. Two(m + j) = Two(m) * Two(j)
    BY <2>3
  <2>5. Two(k) = 2 * Two(j) /\ Two(m + k) = 2 * Two(m + j)
    BY <2>3, TwoDoubles
  <2>6. Two(m) \in Nat /\ Two(j) \in Nat
    BY <2>3, TwoCounts
  <2>7. 2 * (Two(m) * Two(j)) = Two(m) * (2 * Two(j))
    <3>1. \A x, y \in Nat : 2 * (x * y) = x * (2 * y)
      OBVIOUS
    <3> QED BY <2>6, <3>1
  <2> QED BY <2>1, <2>4, <2>5, <2>7
<1> QED BY <1>1

LEMMA TwoIsPositive ==
  ASSUME NEW n \in Nat
  PROVE  Two(n) \in Nat /\ Two(n) >= 1
<1> DEFINE S == {k \in Nat : Two(k) < 1}
<1>1. S = {}
  <2> SUFFICES ASSUME S # {} PROVE FALSE
    OBVIOUS
  <2>1. PICK k \in S : \A l \in S : k <= l
    BY LeastIs
  <2>2. k # 0
    BY <2>1, TwoStarts
  <2>3. k - 1 \in Nat /\ k = (k - 1) + 1 /\ k - 1 \notin S
    BY <2>1, <2>2
  <2>4. Two(k) = 2 * Two(k - 1) /\ Two(k - 1) \in Nat /\ Two(k - 1) >= 1
    BY <2>3, TwoDoubles, TwoIsNat
  <2> QED BY <2>1, <2>4
<1> QED BY <1>1, TwoIsNat

LEMMA TwoGrows ==
  ASSUME NEW m \in Nat, NEW n \in Nat, m <= n
  PROVE  Two(m) <= Two(n)
<1>1. n - m \in Nat /\ n = m + (n - m)
  OBVIOUS
<1>2. Two(n) = Two(m) * Two(n - m)
  BY <1>1, TwoAdds
<1>3. Two(m) \in Nat /\ Two(n - m) \in Nat /\ Two(n - m) >= 1
  BY <1>1, TwoIsPositive
<1>4. \A x, y \in Nat : y >= 1 => x <= x * y
  OBVIOUS
<1> QED BY <1>2, <1>3, <1>4

\* Each number is an odd one, doubled.
LEMMA OddPartIs ==
  ASSUME NEW x \in 1 .. Largest
  PROVE  OddPart(x) \in Nat \ {0} /\ \E k \in 0 .. W : x = OddPart(x) * Two(k)
<1> DEFINE S == {y \in Nat : y >= 1 /\ ~ \E odd \in 1 .. y, k \in Nat : odd % 2 = 1 /\ y = odd * Two(k)}
<1>1. S = {}
  <2> SUFFICES ASSUME S # {} PROVE FALSE
    OBVIOUS
  <2>1. PICK y \in S : \A z \in S : y <= z
    BY LeastIs
  <2>2. CASE y % 2 = 1
    <3>1. y \in 1 .. y /\ 0 \in Nat /\ y = y * Two(0)
      BY <2>1, TwoStarts
    <3> QED BY <2>1, <2>2, <3>1
  <2>3. CASE y % 2 # 1
    <3> DEFINE z == y \div 2
    <3>1. y = 2 * z /\ z \in Nat /\ z >= 1 /\ z < y
      BY <2>1, <2>3
    <3>2. PICK odd \in 1 .. z, k \in Nat : odd % 2 = 1 /\ z = odd * Two(k)
      BY <2>1, <3>1
    <3>3. Two(k) \in Nat /\ Two(k + 1) = 2 * Two(k) /\ k + 1 \in Nat
      BY <3>2, TwoIsNat, TwoDoubles
    <3>4. 2 * (odd * Two(k)) = odd * (2 * Two(k))
      <4>1. \A u, v \in Nat : 2 * (u * v) = u * (2 * v)
        OBVIOUS
      <4> QED BY <3>2, <3>3, <4>1
    <3>5. odd \in 1 .. y /\ y = odd * Two(k + 1)
      BY <3>1, <3>2, <3>3, <3>4
    <3> QED BY <2>1, <3>2, <3>3, <3>5
  <2> QED BY <2>2, <2>3
<1>2. W \in Nat /\ W - 1 \in Nat /\ Largest = Two(W - 1) - 1 /\ Two(W - 1) <= Two(W) /\ Two(W) \in Nat /\ Two(W - 1) \in Nat
  BY BackoffAssumption, TwoGrows, TwoIsNat DEF Largest, Two
<1>3. x \in Nat /\ x >= 1 /\ x < Two(W)
  BY <1>2
<1>4. PICK odd \in 1 .. x, k \in Nat : odd % 2 = 1 /\ x = odd * Two(k)
  BY <1>1, <1>3
<1>5. k \in 0 .. W
  <2> SUFFICES ASSUME k > W PROVE FALSE
    BY <1>2, <1>4
  <2>1. Two(W) <= Two(k) /\ Two(k) \in Nat
    BY <1>2, TwoGrows, TwoIsNat
  <2>2. \A u, v \in Nat : u >= 1 => v <= u * v
    OBVIOUS
  <2>3. Two(k) <= odd * Two(k)
    BY <2>1, <2>2
  <2> QED BY <1>2, <1>3, <1>4, <2>1, <2>3
<1>6. \E o \in 1 .. x : o % 2 = 1 /\ \E l \in 0 .. W : x = o * 2^l
  BY <1>4, <1>5 DEF Two
<1>7. OddPart(x) \in 1 .. x /\ \E l \in 0 .. W : x = OddPart(x) * 2^l
  BY <1>6 DEF OddPart
<1> QED BY <1>7 DEF Two

----------------------------------------------------------------------------
\* A number that is in range is not changed by its width.
LEMMA WrappedFits ==
  ASSUME NEW x \in 0 .. Largest
  PROVE  Wrapped(x) = x
<1>1. W \in Nat /\ W - 1 \in Nat /\ Largest = Two(W - 1) - 1 /\ Two(W - 1) <= Two(W) /\ Two(W) \in Nat /\ Two(W - 1) \in Nat
  BY BackoffAssumption, TwoGrows, TwoIsNat DEF Largest, Two
<1>2. \A m \in Nat : x < m => x % m = x
  BY <1>1
<1>3. x % Two(W) = x
  BY <1>1, <1>2
<1>4. Wrapped(x) = LET low == x % Two(W) IN IF low <= Largest THEN low ELSE low - Two(W)
  BY DEF Wrapped, Two
<1> QED BY <1>1, <1>3, <1>4

\* What is left of a multiple of 2^e, as a number of W bits, is one too.
LEMMA WrappedIsMultiple ==
  ASSUME NEW odd \in Nat, NEW e \in 0 .. W
  PROVE  \E z \in Int : Wrapped(odd * Two(e)) = z * Two(e)
<1> DEFINE M == Two(e)
           d == W - e
           x == odd * M
           q == x \div Two(W)
<1>1. W \in Nat /\ d \in Nat /\ e \in Nat /\ W = d + e
  BY BackoffAssumption
<1>2. M \in Nat /\ M >= 1 /\ Two(d) \in Nat /\ Two(W) \in Nat /\ Two(W) >= 1 /\ Two(W) = Two(d) * M
  BY <1>1, TwoIsPositive, TwoAdds
<1>3. x \in Nat
  BY <1>2
<1>4. q \in Int /\ x % Two(W) = x - q * Two(W)
  <2>1. \A y, m \in Nat : m >= 1 => y \div m \in Int /\ y % m = y - (y \div m) * m
    OBVIOUS
  <2> HIDE DEF x
  <2> QED BY <1>2, <1>3, <2>1
<1> HIDE DEF q, M, d
<1>5. \A u, v, w \in Int : u * w - v * (Two(d) * w) = (u - v * Two(d)) * w
  BY <1>2
<1>6. \A u, w \in Int : u * w - Two(d) * w = (u - Two(d)) * w
  BY <1>2
<1>7. x % Two(W) = (odd - q * Two(d)) * M /\ odd - q * Two(d) \in Int
  <2>1. x % Two(W) = odd * M - q * (Two(d) * M)
    BY <1>2, <1>4
  <2>2. odd \in Int /\ M \in Int /\ odd - q * Two(d) \in Int
    BY <1>2, <1>4
  <2> HIDE DEF x
  <2> QED BY <1>4, <1>5, <2>1, <2>2
<1>8. (x % Two(W)) - Two(W) = (odd - q * Two(d) - Two(d)) * M /\ odd - q * Two(d) - Two(d) \in Int
  <2> DEFINE c == odd - q * Two(d)
  <2>1. c \in Int /\ M \in Int /\ Two(W) = Two(d) * M /\ c - Two(d) \in Int
    BY <1>2, <1>7
  <2>2. x % Two(W) = c * M
    BY <1>7
  <2> HIDE DEF x, c
  <2>3. (x % Two(W)) - Two(W) = (c - Two(d)) * M
    BY <1>6, <2>1, <2>2
  <2> QED BY <2>1, <2>3 DEF c
<1>9. Wrapped(x) = IF x % Two(W) <= Largest THEN x % Two(W) ELSE (x % Two(W)) - Two(W)
  BY DEF Wrapped, Two
<1> HIDE DEF x
<1>10. \E z \in Int : Wrapped(x) = z * M
  BY <1>7, <1>8, <1>9
<1> QED BY <1>10 DEF x, M

\* And of one of 2^W and over, nothing.
LEMMA WrappedAway ==
  ASSUME NEW odd \in Nat, NEW e \in Nat, e >= W
  PROVE  Wrapped(odd * Two(e)) = 0
<1>1. W \in Nat /\ e - W \in Nat /\ e = (e - W) + W /\ W - 1 \in Nat
  BY BackoffAssumption
<1>2. Two(e) = Two(e - W) * Two(W) /\ Two(e - W) \in Nat /\ Two(W) \in Nat /\ Two(W) >= 1 /\ Two(W - 1) \in Nat /\ Two(W - 1) >= 1
  BY <1>1, TwoAdds, TwoIsPositive
<1> DEFINE c == odd * Two(e - W)
<1>3. c \in Nat /\ odd * Two(e) = c * Two(W)
  <2>1. \A u, v, w \in Nat : u * (v * w) = (u * v) * w /\ u * v \in Nat
    OBVIOUS
  <2> QED BY <1>2, <2>1
<1> HIDE DEF c
<1>4. (c * Two(W)) % Two(W) = 0
  <2>1. \A u, m \in Nat : m >= 1 => (u * m) % m = 0
    OBVIOUS
  <2> QED BY <1>2, <1>3, <2>1
<1>5. Largest = Two(W - 1) - 1
  BY DEF Largest, Two
<1>6. Wrapped(odd * Two(e)) = LET low == (odd * Two(e)) % Two(W) IN IF low <= Largest THEN low ELSE low - Two(W)
  BY DEF Wrapped, Two
<1> QED BY <1>2, <1>3, <1>4, <1>5, <1>6

----------------------------------------------------------------------------
\* The pair is one a Backoff may be made with.
PairIs ==
  /\ min \in 1 .. Largest /\ max \in 1 .. Largest
  /\ attempt \in Nat

\* Of a narrow pair the shift gives the documented delay, whatever bits it lost.
LEMMA BaseIsDocumented ==
  ASSUME PairIs, Narrow(min, max)
  PROVE  Base = Doubled(min) /\ Base \in Nat
<1> DEFINE odd == OddPart(min)
           x == min * Two(attempt)
<1>1. odd \in Nat /\ odd >= 1 /\ \E k \in 0 .. W : min = odd * Two(k)
  BY OddPartIs DEF PairIs
<1>2. PICK k \in 0 .. W : min = odd * Two(k)
  BY <1>1
<1>3. /\ W \in Nat /\ W > 2 /\ W - 1 \in Nat /\ W - 2 \in Nat /\ k \in Nat /\ attempt \in Nat
      /\ Two(W - 1) \in Nat /\ Two(W - 2) \in Nat /\ Two(W - 2) >= 1 /\ Two(attempt) \in Nat /\ Two(attempt) >= 1 /\ Two(k) \in Nat
      /\ Two(W - 1) = 2 * Two(W - 2) /\ Largest = Two(W - 1) - 1
  <2>1. W \in Nat /\ W > 2 /\ W - 1 \in Nat /\ W - 2 \in Nat /\ k \in Nat /\ attempt \in Nat /\ W - 1 = (W - 2) + 1
    BY <1>2, BackoffAssumption DEF PairIs
  <2> QED BY <2>1, TwoDoubles, TwoIsPositive DEF Largest, Two
<1>4. min \in Nat /\ max \in Nat /\ min >= 1 /\ max >= 1 /\ max <= Largest
  BY <1>3 DEF PairIs
<1>5. odd * max <= Two(W - 2)
  BY DEF Narrow, Two
<1>6. /\ Base = IF attempt < W - 2 /\ Wrapped(x) > 0 /\ Wrapped(x) < max THEN Wrapped(x) ELSE max
      /\ Doubled(min) = IF x < max THEN x ELSE max
  BY DEF Base, Doubled, Two
<1> HIDE DEF odd
<1>7. x \in Nat /\ x >= Two(attempt) /\ x >= min
  <2>1. \A u, v \in Nat : u >= 1 /\ v >= 1 => u * v \in Nat /\ u * v >= v /\ u * v >= u
    OBVIOUS
  <2> QED BY <1>3, <1>4, <2>1
<1> HIDE DEF x
<1>8. max <= Two(W - 2)
  <2>1. \A u, v \in Nat : u >= 1 => u * v \in Nat /\ v <= u * v
    OBVIOUS
  <2> QED BY <1>1, <1>3, <1>4, <1>5, <2>1
<1>9. CASE x <= Largest /\ attempt < W - 2
  <2>1. Wrapped(x) = x
    BY <1>7, <1>9, WrappedFits
  <2> QED BY <1>4, <1>6, <1>7, <1>9, <2>1
<1>10. CASE ~(attempt < W - 2)
  <2>1. Two(W - 2) <= Two(attempt)
    BY <1>3, <1>10, TwoGrows
  <2> QED BY <1>3, <1>4, <1>6, <1>7, <1>8, <1>10, <2>1
<1>11. CASE x > Largest
  <2> DEFINE e == k + attempt
             M == Two(e)
  <2>1. e \in Nat /\ M \in Nat /\ M >= 1 /\ M = Two(k) * Two(attempt)
    BY <1>3, TwoAdds, TwoIsPositive
  <2>2. x = odd * M
    <3>1. \A u, v, w \in Nat : (u * v) * w = u * (v * w)
      OBVIOUS
    <3> QED BY <1>1, <1>2, <1>3, <2>1, <3>1 DEF x
  <2> HIDE DEF M
  <2>3. ~(Wrapped(x) > 0 /\ Wrapped(x) < max)
    <3>1. CASE e >= W
      <4>1. Wrapped(x) = 0
        BY <1>1, <2>1, <2>2, <3>1, WrappedAway DEF M
      <4> QED BY <4>1
    <3>2. CASE e < W
      <4>0. e \in 0 .. W
        BY <1>3, <2>1, <3>2
      <4>1. PICK z \in Int : Wrapped(x) = z * M
        BY <1>1, <2>2, <4>0, WrappedIsMultiple DEF M
      <4>2. max < M
        <5>1. \A u, v, w \in Nat : u >= 1 /\ w <= v => u * w <= u * v
          OBVIOUS
        <5>2. odd * M > odd * max
          <6>1. odd * M \in Nat /\ odd * max \in Nat
            BY <1>1, <1>4, <2>1
          <6>2. odd * M > Largest
            BY <1>11, <2>2
          <6>3. odd * max < Two(W - 1)
            BY <1>3, <1>5, <6>1
          <6>4. odd * M >= Two(W - 1)
            BY <1>3, <6>1, <6>2
          <6> QED BY <1>3, <6>1, <6>3, <6>4
        <5> QED BY <1>1, <1>4, <2>1, <5>1, <5>2
      <4>3. z * M > 0 => z * M >= M
        <5>1. \A v \in Nat, u \in Int : u * v > 0 => u * v >= v
          OBVIOUS
        <5> QED BY <2>1, <5>1
      <4> QED BY <1>4, <2>1, <4>1, <4>2, <4>3
    <3> QED BY <1>3, <2>1, <3>1, <3>2
  <2> QED BY <1>4, <1>6, <1>7, <1>11, <2>3, <1>3
<1> QED BY <1>3, <1>7, <1>9, <1>10, <1>11

\* Of any other it does while the shift loses nothing, and then gives max or a
\* multiple of what one unit would have grown to.
LEMMA BaseIsNear ==
  ASSUME PairIs
  PROVE  /\ Base \in Nat
         /\ \/ Base = Doubled(min)
            \/ Lossy /\ Base >= Doubled(1) /\ Base <= max
         /\ Doubled(1) \in Nat
<1> DEFINE x == min * Two(attempt)
<1>1. /\ W \in Nat /\ W > 2 /\ W - 1 \in Nat /\ W - 2 \in Nat /\ attempt \in Nat
      /\ Two(W - 1) \in Nat /\ Two(W - 2) \in Nat /\ Two(W - 2) >= 1 /\ Two(attempt) \in Nat /\ Two(attempt) >= 1
      /\ Two(W - 1) = 2 * Two(W - 2) /\ Largest = Two(W - 1) - 1
  <2>1. W \in Nat /\ W > 2 /\ W - 1 \in Nat /\ W - 2 \in Nat /\ attempt \in Nat /\ W - 1 = (W - 2) + 1
    BY BackoffAssumption DEF PairIs
  <2> QED BY <2>1, TwoDoubles, TwoIsPositive DEF Largest, Two
<1>2. min \in Nat /\ max \in Nat /\ min >= 1 /\ max >= 1 /\ max <= Largest
  BY <1>1 DEF PairIs
<1>3. /\ Base = IF attempt < W - 2 /\ Wrapped(x) > 0 /\ Wrapped(x) < max THEN Wrapped(x) ELSE max
      /\ Doubled(min) = IF x < max THEN x ELSE max
      /\ Doubled(1) = IF Two(attempt) < max THEN Two(attempt) ELSE max
  BY <1>1 DEF Base, Doubled, Two
<1>4. x \in Nat /\ x >= Two(attempt)
  <2>1. \A u, v \in Nat : u >= 1 /\ v >= 1 => u * v \in Nat /\ u * v >= v
    OBVIOUS
  <2> QED BY <1>1, <1>2, <2>1
<1> HIDE DEF x
<1>5. Doubled(1) \in Nat /\ Doubled(1) <= max /\ Doubled(1) <= Two(attempt)
  BY <1>1, <1>2, <1>3
<1>6. CASE Narrow(min, max)
  BY <1>5, <1>6, BaseIsDocumented
<1>7. CASE x < Two(W - 2)
  <2>1. attempt < W - 2
    <3>1. attempt >= W - 2 => Two(W - 2) <= Two(attempt)
      BY <1>1, TwoGrows
    <3> QED BY <1>1, <1>4, <1>7, <3>1
  <2>2. Wrapped(x) = x
    BY <1>1, <1>4, <1>7, WrappedFits
  <2> QED BY <1>1, <1>2, <1>3, <1>4, <1>5, <1>7, <2>1, <2>2
<1>8. CASE ~Narrow(min, max) /\ x >= Two(W - 2)
  <2>1. Base \in Nat /\ Base >= Doubled(1) /\ Base <= max
    <3>1. CASE Base = max
      BY <1>2, <1>5, <3>1
    <3>2. CASE attempt < W - 2 /\ Wrapped(x) > 0 /\ Wrapped(x) < max
      <4>1. PICK z \in Int : Wrapped(x) = z * Two(attempt)
        <5>1. attempt \in 0 .. W
          BY <1>1, <3>2
        <5> QED BY <1>2, <5>1, WrappedIsMultiple DEF x
      <4>2. z * Two(attempt) > 0 => z * Two(attempt) >= Two(attempt)
        <5>1. \A v \in Nat, u \in Int : u * v > 0 => u * v >= v
          OBVIOUS
        <5> QED BY <1>1, <5>1
      <4>3. z * Two(attempt) \in Int
        BY <1>1
      <4>4. Base = Wrapped(x)
        BY <1>3, <3>2
      <4> DEFINE y == z * Two(attempt)
      <4>5. y \in Int /\ Wrapped(x) = y /\ (y > 0 => y >= Two(attempt))
        BY <4>1, <4>2, <4>3
      <4> HIDE DEF y
      <4>6. Base \in Int /\ Base > 0 /\ Base >= Two(attempt) /\ Base < max
        BY <3>2, <4>4, <4>5
      <4> QED BY <1>1, <1>2, <1>5, <4>6
    <3> QED BY <1>3, <3>1, <3>2
  <2>2. Lossy
    BY <1>8 DEF x, Two, Lossy
  <2> QED BY <1>5, <1>8, <2>1, <2>2
<1> QED BY <1>1, <1>4, <1>6, <1>7, <1>8

LEMMA PairStays == PairIs /\ [BackoffNext]_backoff => PairIs'
<1> SUFFICES ASSUME PairIs, [BackoffNext]_backoff PROVE PairIs'
  OBVIOUS
<1>1. min' = min /\ max' = max /\ attempt' \in Nat
  BY DEF PairIs, BackoffNext, NextDelay, Reset, backoff
<1> QED BY <1>1 DEF PairIs

\* Each delay is between half and all of min doubled once per attempt before
\* it, capped at max, whatever the width and the number of attempts, for every
\* narrow pair; and for any other until min is doubled past the width, from
\* where it is between half of one unit doubled as often, capped at max, and max.
THEOREM DelaysAsDocumented == BackoffSpec => DelayAsDocumented
<1> DEFINE Near ==
      \/ Jitters(Doubled(min))
      \/ Lossy /\ 2 * delay' >= Doubled(1) - 1 /\ delay' <= max
<1>1. BackoffInit => PairIs
  BY DEF BackoffInit, PairIs
<1>2. ASSUME PairIs, [BackoffNext]_backoff, attempt' = attempt + 1 PROVE Near
  <2>1. /\ Base \in Nat /\ max \in Nat /\ Doubled(1) \in Nat
        /\ \/ Base = Doubled(min)
           \/ Lossy /\ Base >= Doubled(1) /\ Base <= max
    BY <1>2, BaseIsNear DEF PairIs
  <2>2. delay' \in {Base \div 2 + j : j \in 0 .. (Base \div 2)}
    BY <1>2 DEF BackoffNext, NextDelay, Reset, backoff, PairIs
  <2>3. delay' \in Nat /\ 2 * delay' >= Base - 1 /\ delay' <= Base
    BY <2>1, <2>2
  <2>4. CASE Base = Doubled(min)
    BY <2>3, <2>4 DEF Jitters
  <2>5. CASE Lossy /\ Base >= Doubled(1) /\ Base <= max
    <3>1. 2 * delay' >= Doubled(1) - 1 /\ delay' <= max
      <4>1. \A b, d, m, u \in Nat : 2 * d >= b - 1 /\ d <= b /\ b >= u /\ b <= m => 2 * d >= u - 1 /\ d <= m
        OBVIOUS
      <4> QED BY <2>1, <2>3, <2>5, <4>1, Zenon
    <3> QED BY <2>5, <3>1
  <2> QED BY <2>1, <2>4, <2>5
<1>3. PairIs /\ [BackoffNext]_backoff => [attempt' = attempt + 1 => Near]_backoff
  BY <1>2
<1> QED BY <1>1, <1>3, PairStays, PTL DEF BackoffSpec, DelayAsDocumented

-----------------------------------------------------------------------------
(* What discovery and the doors say of the ops. *)

\* The ops held are the host's or the mounted registry's, each registered once,
\* in a declared group, its events named; a session's tools are what its caller
\* saw as it opened.
HeldOnce == \A o, p \in host.ops : o.name = p.name => o = p
OpsAreWired ==
  /\ host = [phase |-> host.phase, ops |-> host.ops, groups |-> host.groups]
  /\ \A o \in host.ops : o \in Defs \union Mountable /\ o.group \in host.groups /\ EventsAreNamed(o)
SessionIs ==
  \/ session = NoSession
  \/ /\ session.open /\ host.phase # "wiring"
     /\ \A n \in session.tools : n \in session.saw /\ n \in OverMCP
DiscoveryInv == HeldOnce /\ OpsAreWired /\ SessionIs

LEMMA DiscoveryInvInit == DiscoveryInit => DiscoveryInv
  BY DEF DiscoveryInit, DiscoveryInv, HeldOnce, OpsAreWired, SessionIs

\* An op added is of a name not held, its group declared, its events named.
LEMMA HoldsOneMore ==
  ASSUME DiscoveryInv, host.phase = "wiring", NEW o \in Defs \union Mountable, o.name \notin Held,
         EventsAreNamed(o), NEW gs, host.groups \subseteq gs, o.group \in gs,
         host' = [phase |-> "wiring", ops |-> host.ops \union {o}, groups |-> gs], UNCHANGED session
  PROVE  DiscoveryInv'
<1> USE DEF DiscoveryInv
<1>1. host'.ops = host.ops \union {o} /\ host'.groups = gs /\ host'.phase = "wiring"
  OBVIOUS
<1>2. HeldOnce'
  <2>1. \A p \in host.ops : p.name # o.name
    BY DEF Held
  <2>2. \A p, q \in host.ops \union {o} : p.name = q.name => p = q
    BY <2>1 DEF HeldOnce
  <2>3. HeldOnce' <=> \A p, q \in host'.ops : p.name = q.name => p = q
    BY DEF HeldOnce
  <2> QED BY <1>1, <2>2, <2>3
<1>3. OpsAreWired'
  BY <1>1 DEF OpsAreWired, EventsAreNamed
<1>4. SessionIs'
  BY DEF SessionIs, NoSession
<1> QED BY <1>2, <1>3, <1>4

LEMMA DiscoveryInvStep == DiscoveryInv /\ [DiscoveryNext]_discovery => DiscoveryInv'
<1> SUFFICES ASSUME DiscoveryInv, [DiscoveryNext]_discovery PROVE DiscoveryInv'
  OBVIOUS
<1>0. host = [phase |-> host.phase, ops |-> host.ops, groups |-> host.groups]
  BY DEF DiscoveryInv, OpsAreWired
<1>1. ASSUME StartsNot, host.phase = "wiring", UNCHANGED session PROVE DiscoveryInv'
  BY <1>0, <1>1 DEF StartsNot, DiscoveryInv, HeldOnce, OpsAreWired, SessionIs, NoSession, EventsAreNamed
<1>2. ASSUME NEW g \in GroupNames, Group(g) PROVE DiscoveryInv'
  <2>1. CASE g \in host.groups
    BY <1>1, <1>2, <2>1 DEF Group, Wiring
  <2>2. CASE g \notin host.groups
    <3>1. host' = [phase |-> host.phase, ops |-> host.ops, groups |-> host.groups \union {g}] /\ session' = session
      BY <1>0, <1>2, <2>2 DEF Group, Wiring
    <3>2. host'.ops = host.ops /\ host'.groups = host.groups \union {g} /\ host'.phase = host.phase
      BY <3>1
    <3> QED BY <3>1, <3>2 DEF DiscoveryInv, HeldOnce, OpsAreWired, SessionIs, NoSession, EventsAreNamed, OverMCP
  <2> QED BY <2>1, <2>2
<1>3. ASSUME NEW o \in Defs, RegisterOp(o) PROVE DiscoveryInv'
  <2>1. host.phase = "wiring" /\ session' = session
    BY <1>3 DEF RegisterOp, Wiring
  <2>2. CASE StartsNot
    BY <1>1, <2>1, <2>2
  <2>3. CASE ~StartsNot
    <3>1. o.name \notin Held /\ o.group \in host.groups /\ EventsAreNamed(o)
          /\ host' = [host EXCEPT !.ops = @ \union {o}]
      BY <1>3, <2>3 DEF RegisterOp, Add
    <3>2. host' = [phase |-> "wiring", ops |-> host.ops \union {o}, groups |-> host.groups]
      BY <1>0, <2>1, <3>1
    <3> QED BY <2>1, <3>1, <3>2, HoldsOneMore
  <2> QED BY <2>2, <2>3
<1>4. ASSUME NEW name \in Names1, Mount(name) PROVE DiscoveryInv'
  <2>1. host.phase = "wiring" /\ session' = session
    BY <1>4 DEF Mount, Wiring
  <2>2. CASE StartsNot
    BY <1>1, <2>1, <2>2
  <2>3. CASE ~StartsNot
    <3>1. PICK o \in Mountable : o.name = name /\ name \notin Held
            /\ host' = [host EXCEPT !.groups = @ \union {o.group}, !.ops = @ \union {o}]
      BY <1>4, <2>3 DEF Mount
    <3>2. host' = [phase |-> "wiring", ops |-> host.ops \union {o}, groups |-> host.groups \union {o.group}]
      BY <1>0, <2>1, <3>1
    <3>3. EventsAreNamed(o)
      BY MountableAssumption
    <3> QED BY <2>1, <3>1, <3>2, <3>3, HoldsOneMore
  <2> QED BY <2>2, <2>3
<1>5. CASE Serve
  <2>1. host' = [phase |-> "serving", ops |-> host.ops, groups |-> host.groups] /\ session' = session
    BY <1>0, <1>5 DEF Serve
  <2>2. host'.ops = host.ops /\ host'.groups = host.groups /\ host'.phase = "serving"
    BY <2>1
  <2> QED BY <2>1, <2>2 DEF DiscoveryInv, HeldOnce, OpsAreWired, SessionIs, NoSession, EventsAreNamed, OverMCP
<1>6. CASE Open
  <2>1. session' = [open |-> TRUE, tools |-> ServerTools, saw |-> sees] /\ host' = host /\ host.phase = "serving"
    BY <1>6 DEF Open
  <2>2. \A n \in ServerTools : n \in sees /\ n \in OverMCP
    BY DEF ServerTools, Visible
  <2>3. OverMCP' = OverMCP
    BY <2>1 DEF OverMCP
  <2>4. SessionIs'
    BY <2>1, <2>2, <2>3 DEF SessionIs
  <2> QED BY <2>1, <2>4 DEF DiscoveryInv, HeldOnce, OpsAreWired, EventsAreNamed
<1>7. CASE Sees \/ UNCHANGED discovery
  <2>1. host' = host /\ session' = session
    BY <1>7 DEF Sees, discovery
  <2> QED BY <2>1 DEF DiscoveryInv, HeldOnce, OpsAreWired, SessionIs, NoSession, EventsAreNamed, OverMCP
<1> QED BY <1>2, <1>3, <1>4, <1>5, <1>6, <1>7 DEF DiscoveryNext

----------------------------------------------------------------------------
\* What a door serves and the caller may call, by name.
LEMMA VisibleIs ==
  ASSUME NEW served, NEW may
  PROVE  {o.name : o \in Visible(served, may)} = Held \intersect served \intersect may
  BY DEF Visible, Held

\* A usage is not found of an op not seen, and only of one.
LEMMA UsageIs ==
  ASSUME NEW served, NEW may, NEW n
  PROVE  (Usage(served, may, n) = <<"not_found">>) <=> (n \notin Held \intersect served \intersect may)
<1> DEFINE named == {o \in Visible(served, may) : o.name = n}
           op == CHOOSE o \in named : TRUE
<1>1. named = {} <=> n \notin Held \intersect served \intersect may
  <2>1. named = {} <=> ~(\E o \in host.ops : o.name \in served /\ o.name \in may /\ o.name = n)
    BY DEF Visible
  <2> QED BY <2>1 DEF Held
<1>2. Usage(served, may, n) = IF named = {} THEN <<"not_found">> ELSE <<"usage", n, op.events, CodesOf(op)>>
  BY DEF Usage
<1>3. <<"usage", n, op.events, CodesOf(op)>> # <<"not_found">>
  OBVIOUS
<1> QED BY <1>1, <1>2, <1>3

\* A listed group's ops are the group's of the ops seen.
LEMMA ListingIs ==
  ASSUME NEW served, NEW may, NEW g \in Index(served, may)
  PROVE  GroupListing(served, may, g)[1] = "group"
         /\ GroupListing(served, may, g)[2] = {o.name : o \in {p \in Visible(served, may) : p.group = g}}
<1> DEFINE listed == {o.name : o \in {p \in Visible(served, may) : p.group = g}}
<1>1. listed # {}
  BY DEF Index
<1>2. GroupListing(served, may, g) = <<"group", listed>>
  BY <1>1 DEF GroupListing
<1> QED BY <1>2

\* The doors reach what they serve.
LEMMA DoorsReach ==
  ASSUME DiscoveryInv, NEW d \in Doors PROVE Reached(d) = Held \intersect ServedAt(d) /\ ServedAt(d) \subseteq Held
<1>1. Held \subseteq Names1
  BY DEF Held, Names1, DiscoveryInv, OpsAreWired
<1>2. OverMCP \subseteq Held
  BY DEF OverMCP, Held
<1>3. \A server : Here(server) \subseteq Held
  BY DEF Here, Held
<1>4. CASE d.of = "MCP"
  BY <1>2, <1>4 DEF Reached, ServedAt
<1>5. CASE d.of # "MCP"
  <2>1. \A n : Route(d.server, "POST", n) = <<"op", n>> <=> n \in Here(d.server)
    <3> TAKE n
    <3>1. <<"not_found">> # <<"op", n>>
      OBVIOUS
    <3> QED BY <3>1 DEF Route
  <2>2. Reached(d) = Here(d.server)
    BY <1>1, <1>3, <1>5, <2>1 DEF Reached
  <2> QED BY <1>3, <1>5, <2>2 DEF ServedAt
<1> QED BY <1>4, <1>5

LEMMA LevelsDo == ASSUME DiscoveryInv PROVE LevelsAgree
<1> SUFFICES ASSUME NEW d \in Doors
             PROVE  /\ UNION {Listed(d, g) : g \in Index(ServedAt(d), sees)} = Reached(d) \intersect sees
                    /\ \A n \in Names1 : (Usage(ServedAt(d), sees, n) # <<"not_found">>) = (n \in Reached(d) \intersect sees)
                    /\ Index(ServedAt(d), sees) \subseteq host.groups
  BY DEF LevelsAgree
<1> DEFINE Here1 == ServedAt(d)
           Of(g) == {o.name : o \in {p \in Visible(Here1, sees) : p.group = g}}
<1>1. Reached(d) \intersect sees = Held \intersect Here1 \intersect sees
  BY DoorsReach
<1>2. ASSUME NEW g \in Index(Here1, sees) PROVE Listed(d, g) = Of(g)
  <2>1. GroupListing(Here1, sees, g)[1] = "group" /\ GroupListing(Here1, sees, g)[2] = Of(g)
    BY ListingIs
  <2> QED BY <2>1 DEF Listed
<1>3. \A x : (\E g \in Index(Here1, sees) : x \in Of(g)) <=> x \in {o.name : o \in Visible(Here1, sees)}
  BY DEF Index
<1>4. UNION {Listed(d, g) : g \in Index(Here1, sees)} = {o.name : o \in Visible(Here1, sees)}
  <2> HIDE DEF Of, Here1
  <2>1. \A x : x \in UNION {Listed(d, g) : g \in Index(Here1, sees)} <=> (\E g \in Index(Here1, sees) : x \in Listed(d, g))
    BY Zenon
  <2>2. \A x : x \in UNION {Listed(d, g) : g \in Index(Here1, sees)} <=> x \in {o.name : o \in Visible(Here1, sees)}
    BY <1>2, <1>3, <2>1
  <2> QED BY <2>2
<1>5. \A n \in Names1 : (Usage(Here1, sees, n) # <<"not_found">>) = (n \in Reached(d) \intersect sees)
  BY <1>1, UsageIs
<1>6. Index(Here1, sees) \subseteq host.groups
  BY DEF Index, Visible, DiscoveryInv, OpsAreWired
<1> QED BY <1>1, <1>4, <1>5, <1>6, VisibleIs

\* An op is of one server, its own base's.
LEMMA HereIs ==
  ASSUME DiscoveryInv, NEW o \in host.ops, NEW server
  PROVE  (o.name \in Here(server)) <=> (o.http /\ ServerOf(o) = server)
  BY Zenon DEF Here, DiscoveryInv, HeldOnce

LEMMA DoorsDo == ASSUME DiscoveryInv PROVE EachAtItsDoor
<1>1. ASSUME NEW o \in host.ops
      PROVE  {asked \in Servers \X {"POST", "GET", "PUT"} : Route(asked[1], asked[2], o.name)[1] = "op"} = IF o.http THEN {<<o.base, "POST">>} ELSE {}
  <2>1. \A server, method : Route(server, method, o.name)[1] = "op" <=> (o.http /\ o.base = server /\ method = "POST")
    BY HereIs DEF Route, ServerOf
  <2>2. o.http => o.base \in Servers
    BY DEF Servers, ServerOf
  <2>3. \A asked \in Servers \X {"POST", "GET", "PUT"} : asked = <<asked[1], asked[2]>>
    OBVIOUS
  <2>4. CASE o.http
    <3>1. <<o.base, "POST">> \in Servers \X {"POST", "GET", "PUT"}
      BY <2>2, <2>4
    <3>2. ASSUME NEW asked \in Servers \X {"POST", "GET", "PUT"}
          PROVE  Route(asked[1], asked[2], o.name)[1] = "op" <=> asked = <<o.base, "POST">>
      BY <2>1, <2>3, <2>4
    <3> QED BY <2>4, <3>1, <3>2
  <2>5. CASE ~o.http
    BY <2>1, <2>5
  <2> QED BY <2>4, <2>5
<1>2. ASSUME session.open, NEW n \in session.tools
      PROVE  n \in session.saw /\ (Usage(OverMCP, sees, n) = <<"not_found">> => n \notin sees)
  <2>1. n \in session.saw /\ n \in OverMCP
    BY <1>2 DEF DiscoveryInv, SessionIs, NoSession
  <2>2. OverMCP \subseteq Held
    BY DEF OverMCP, Held
  <2> QED BY <2>1, <2>2, UsageIs
<1> QED BY <1>1, <1>2 DEF EachAtItsDoor

LEMMA CodesDo == CodesAgree
<1> SUFFICES ASSUME NEW o \in host.ops
             PROVE  /\ UNION {ByStatus(o)[s] : s \in DOMAIN ByStatus(o)} = CodesOf(o)
                    /\ \A c \in CodesOf(o) : {s \in DOMAIN ByStatus(o) : c \in ByStatus(o)[s]} = {ErrorBodyOf(c).status}
                    /\ \A c \in o.errors : PublicAs(c) \in CodesOf(o)
                    /\ CodesOf(o) \ ServedCodes \subseteq HostErrors
  BY DEF CodesAgree
<1> DEFINE Status(c) == StatusOf[PublicAs(c)]
           All == CodesOf(o)
<1>1. ByStatus(o) = [s \in {Status(c) : c \in All} |-> {c \in All : Status(c) = s}]
  BY DEF ByStatus
<1>2. DOMAIN ByStatus(o) = {Status(c) : c \in All} /\ \A s \in DOMAIN ByStatus(o) : ByStatus(o)[s] = {c \in All : Status(c) = s}
  BY <1>1
<1>3. \A c \in All : ErrorBodyOf(c).status = Status(c)
  BY DEF ErrorBodyOf
<1>4. \A c \in o.errors : PublicAs(c) \in CodesOf(o)
  BY DEF CodesOf
<1>5. CodesOf(o) \ ServedCodes \subseteq HostErrors
  BY ServedAssumption DEF CodesOf, PublicAs, Implied1
<1> HIDE DEF Status, All
<1>6. UNION {ByStatus(o)[s] : s \in DOMAIN ByStatus(o)} = All
  <2>1. \A x : x \in UNION {ByStatus(o)[s] : s \in DOMAIN ByStatus(o)} <=> (\E s \in DOMAIN ByStatus(o) : x \in ByStatus(o)[s])
    BY Zenon
  <2>2. \A x : (\E s \in DOMAIN ByStatus(o) : x \in ByStatus(o)[s]) <=> x \in All
    BY <1>2
  <2> QED BY <2>1, <2>2
<1>7. \A c \in All : {s \in DOMAIN ByStatus(o) : c \in ByStatus(o)[s]} = {Status(c)}
  BY <1>2, Zenon
<1>8. All = CodesOf(o)
  BY DEF All
<1> QED BY <1>3, <1>4, <1>5, <1>6, <1>7, <1>8

LEMMA EventsDo == ASSUME DiscoveryInv PROVE EventsAreTold
<1> SUFFICES ASSUME NEW o \in host.ops, NEW n \in DOMAIN StreamSchema(o) PROVE Cardinality(StreamSchema(o)[n]) = 1
  BY DEF EventsAreTold
<1>1. EventsAreNamed(o)
  BY DEF DiscoveryInv, OpsAreWired
<1>0. n \in TypesNamed(o)
  BY DEF StreamSchema
<1>2. StreamSchema(o)[n] = {i \in DOMAIN o.events : n \in o.events[i]} \union {r \in Reserved : r = n}
  BY <1>0 DEF StreamSchema, MappedTo
<1>3. CASE n \in Reserved
  <2>1. {i \in DOMAIN o.events : n \in o.events[i]} = {}
    BY <1>1, <1>3 DEF EventsAreNamed
  <2>2. StreamSchema(o)[n] = {n}
    BY <1>2, <1>3, <2>1
  <2> QED BY <2>2, FS_Singleton
<1>4. CASE n \notin Reserved
  <2>0. n \in UNION {o.events[i] : i \in DOMAIN o.events}
    BY <1>0, <1>4, Zenon DEF TypesNamed
  <2>1. PICK i \in DOMAIN o.events : n \in o.events[i]
    BY <2>0, Zenon
  <2>2. {j \in DOMAIN o.events : n \in o.events[j]} = {i}
    BY <1>1, <2>1 DEF EventsAreNamed
  <2>3. StreamSchema(o)[n] = {i}
    BY <1>2, <1>4, <2>2
  <2> QED BY <2>3, FS_Singleton
<1> QED BY <1>3, <1>4

THEOREM DiscoveryOfHost == DiscoverySpec => []DiscoveryAgrees
<1>1. DiscoveryInv => DiscoveryAgrees
  BY LevelsDo, DoorsDo, CodesDo, EventsDo DEF DiscoveryAgrees
<1> QED BY <1>1, DiscoveryInvInit, DiscoveryInvStep, PTL DEF DiscoverySpec

-----------------------------------------------------------------------------
(* What a command makes of what was typed. *)

\* Of positions there is an earliest, and of finitely many a latest.
LEMMA EarliestIs ==
  ASSUME NEW S, S \subseteq Nat, S # {}
  PROVE  Earliest(S) \in S /\ \A j \in S : Earliest(S) <= j
<1>1. S \in SUBSET Nat
  OBVIOUS
<1>2. \E m \in S : \A n \in S : m <= n
  BY <1>1, LeastIs
<1> QED BY <1>2 DEF Earliest

LEMMA LatestIs ==
  ASSUME NEW n \in Nat, NEW S, S \subseteq 0 .. n, S # {}
  PROVE  \E i \in S : \A j \in S : j <= i
<1> DEFINE Back == {k \in Nat : k <= n /\ n - k \in S}
<1>1. \A j \in S : n - j \in Back
  OBVIOUS
<1>2. Back \subseteq Nat /\ Back # {}
  BY <1>1
<1>3. Earliest(Back) \in Back /\ \A k \in Back : Earliest(Back) <= k
  BY <1>2, EarliestIs
<1> DEFINE i == n - Earliest(Back)
<1>4. i \in S
  BY <1>3
<1>5. ASSUME NEW j \in S PROVE j <= i
  <2>1. Earliest(Back) <= n - j
    BY <1>1, <1>3
  <2> QED BY <1>3, <2>1
<1> QED BY <1>4, <1>5

\* What was typed is of a command that may be declared, its flags in a row.
TypedAs(t) ==
  /\ Declared(ArgsOf(t)) /\ Targets(ArgsOf(t)) /\ DOMAIN ArgsOf(t) \subseteq Nat
  /\ \E n \in Nat : DOMAIN t.flags = 1 .. n
  /\ t.text \in Texts1
LEMMA TypedIs == ASSUME NEW t \in Typed PROVE TypedAs(t)
<1>1. t.of \in DOMAIN Declarations /\ Declared(Declarations[t.of]) /\ t.text \in Texts1
  BY DEF Typed
<1>2. t.flags \in UNION {[1 .. n -> FlagsTyped] : n \in 0 .. MaxFlags}
  BY DEF Typed
<1>3. PICK n \in 0 .. MaxFlags : t.flags \in [1 .. n -> FlagsTyped]
  BY <1>2
<1>4. DOMAIN t.flags = 1 .. n /\ n \in Nat
  BY <1>3
<1>5. Declarations[t.of] \in Seq({Declarations[t.of][i] : i \in DOMAIN Declarations[t.of]}) /\ Targets(Declarations[t.of])
  BY <1>1, InputsAssumption
<1>6. DOMAIN Declarations[t.of] \subseteq Nat
  BY <1>5
<1> QED BY <1>1, <1>4, <1>5, <1>6 DEF TypedAs, ArgsOf

\* Each arg by its name, which is its own; what only a text has.
LEMMA ArgOfIs ==
  ASSUME NEW args, Declared(args), NEW i \in DOMAIN args
  PROVE  ArgOf(args, args[i].name) = args[i] /\ \A j \in DOMAIN args : args[j].name = args[i].name => j = i
<1>1. \A j \in DOMAIN args : args[j].name = args[i].name => j = i
  BY DEF Declared
<1>2. (CHOOSE j \in DOMAIN args : args[j].name = args[i].name) = i
  BY <1>1
<1> QED BY <1>1, <1>2 DEF ArgOf

LEMMA TextHasNoFields ==
  ASSUME NEW args, Declared(args), NEW i \in DOMAIN args,
         args[i].positional \/ args[i].stdin \/ args[i].required \/ args[i].default # NotGiven
  PROVE  Paths(args[i]) = {} /\ \A t : Fields(t, args[i]) = {}
<1>1. args[i].type \in {"string", "strings"}
  BY DEF Declared
<1>2. args[i].fields = {}
  BY <1>1 DEF Declared
<1> QED BY <1>2 DEF Paths, Fields

\* A flag was first set somewhere, and no other there.
LEMMA SetAtIs ==
  ASSUME NEW t, TypedAs(t), NEW f, Where(t, f) # {}
  PROVE  SetAt(t, f) \in DOMAIN t.flags /\ t.flags[SetAt(t, f)].flag = f
<1>1. Where(t, f) \subseteq Nat
  BY DEF TypedAs, Where
<1>2. SetAt(t, f) \in Where(t, f)
  BY <1>1, EarliestIs DEF SetAt
<1> QED BY <1>2 DEF Where

\* Of an arg's names set, one was first set after the others, and is told.
LEMMA LastNamedIs ==
  ASSUME NEW t, TypedAs(t), NEW a, Own(t, a) # {}
  PROVE  {f \in Own(t, a) : \A h \in Own(t, a) \ {f} : SetAt(t, h) < SetAt(t, f)} = {LastNamed(t, a)}
<1> DEFINE S == {SetAt(t, f) : f \in Own(t, a)}
<1>0. PICK n \in Nat : DOMAIN t.flags = 1 .. n
  BY DEF TypedAs
<1>1. \A f \in Own(t, a) : SetAt(t, f) \in 1 .. n /\ t.flags[SetAt(t, f)].flag = f
  BY <1>0, SetAtIs DEF Own
<1>2. \E i \in S : \A j \in S : j <= i
  <2>1. S \subseteq 0 .. n /\ S # {}
    BY <1>1
  <2> HIDE DEF S
  <2> QED BY <2>1, LatestIs
<1>3. \E f \in Own(t, a) : \A g \in Own(t, a) : SetAt(t, g) <= SetAt(t, f)
  BY <1>2
<1>4. LastNamed(t, a) \in Own(t, a) /\ \A g \in Own(t, a) : SetAt(t, g) <= SetAt(t, LastNamed(t, a))
  BY <1>3 DEF LastNamed
<1>5. \A g, h \in Own(t, a) : SetAt(t, g) = SetAt(t, h) => g = h
  BY <1>1
<1>6. \A g \in Own(t, a) \ {LastNamed(t, a)} : SetAt(t, g) < SetAt(t, LastNamed(t, a))
  BY <1>1, <1>4, <1>5
<1>7. ASSUME NEW f \in Own(t, a), \A h \in Own(t, a) \ {f} : SetAt(t, h) < SetAt(t, f) PROVE f = LastNamed(t, a)
  BY <1>1, <1>4, <1>6, <1>7
<1> QED BY <1>4, <1>6, <1>7

----------------------------------------------------------------------------
\* An arg's part of a command's values: what is heard of it, or its fields.
Holds(t, i, values, heard) ==
  LET a == ArgsOf(t)[i]
  IN  /\ a.name \in DOMAIN values <=> (heard # {} \/ Fields(t, a) # {})
      /\ Fields(t, a) = {} /\ a.name \in DOMAIN values => heard = {values[a.name]}
      /\ Fields(t, a) # {} => (heard = {} /\ values[a.name] = [f \in Fields(t, a) |-> Given(t, f)])

\* The flags' values.
LEMMA FlagValuesAre ==
  ASSUME NEW t, TypedAs(t), NEW i \in DOMAIN ArgsOf(t)
  PROVE  LET a == ArgsOf(t)[i]
         IN  /\ a.name \in DOMAIN FlagValues(t) <=> (Own(t, a) # {} \/ Fields(t, a) # {})
             /\ a.name \in DOMAIN FlagValues(t) => FlagValues(t)[a.name] = ValueOf(t, a)
             /\ DOMAIN FlagValues(t) \subseteq Named(ArgsOf(t))
<1> DEFINE A == ArgsOf(t)
           D == {A[k].name : k \in {j \in DOMAIN A : Own(t, A[j]) \union Fields(t, A[j]) # {}}}
<1>1. FlagValues(t) = [n \in D |-> ValueOf(t, ArgOf(A, n))]
  BY DEF FlagValues
<1>2. \A j \in DOMAIN A : A[j].name = A[i].name => j = i
  BY ArgOfIs DEF TypedAs
<1>3. A[i].name \in D <=> (Own(t, A[i]) # {} \/ Fields(t, A[i]) # {})
  BY <1>2
<1>4. ArgOf(A, A[i].name) = A[i]
  BY ArgOfIs DEF TypedAs
<1>5. D \subseteq Named(A)
  BY DEF Named
<1> HIDE DEF D
<1> QED BY <1>1, <1>3, <1>4, <1>5

\* And with the text.
LEMMA TextHolds ==
  ASSUME NEW t, TypedAs(t), SetTwice(t) = {}, NEW i \in DOMAIN ArgsOf(t)
  PROVE  Holds(t, i, WithText(t, FlagValues(t)), ToldOf(t, ArgsOf(t)[i]))
         /\ DOMAIN WithText(t, FlagValues(t)) \subseteq Named(ArgsOf(t))
<1> DEFINE A == ArgsOf(t)
           a == A[i]
           F == FlagValues(t)
           T == WithText(t, F)
           e == Earliest(Positional(A))
<1>1. /\ a.name \in DOMAIN F <=> (Own(t, a) # {} \/ Fields(t, a) # {})
      /\ a.name \in DOMAIN F => F[a.name] = ValueOf(t, a)
      /\ DOMAIN F \subseteq Named(A)
  BY FlagValuesAre
<1>2. Declared(A) /\ DOMAIN A \subseteq Nat
  BY DEF TypedAs
<1>3. a.positional => Own(t, a) = {} /\ Fields(t, a) = {}
  BY <1>2, TextHasNoFields DEF Own, OwnFlags
<1>4. Fields(t, a) # {} => Own(t, a) = {}
  BY DEF SetTwice
<1>5. ~a.positional => ToldOf(t, a) = IF Own(t, a) = {} THEN {} ELSE {Given(t, LastNamed(t, a))}
  BY LastNamedIs DEF ToldOf
<1>6. ~a.positional => Holds(t, i, F, ToldOf(t, a))
  BY <1>1, <1>4, <1>5 DEF Holds, ValueOf
<1>7. a.positional => ToldOf(t, a) = IF t.text = <<>> THEN {} ELSE {TextFor(t, a)}
  BY DEF ToldOf
<1>8. CASE t.text = <<>> \/ Positional(A) = {}
  <2>1. T = F
    BY <1>8 DEF WithText
  <2>2. a.positional => t.text = <<>>
    BY <1>8 DEF Positional
  <2>3. a.positional => Holds(t, i, F, ToldOf(t, a))
    BY <1>1, <1>3, <1>7, <2>2 DEF Holds
  <2> QED BY <1>1, <1>6, <2>1, <2>3
<1>9. CASE t.text # <<>> /\ Positional(A) # {}
  <2>1. e \in DOMAIN A /\ A[e].positional
    BY <1>2, <1>9, EarliestIs DEF Positional
  <2>2. T = Put(F, A[e].name, TextFor(t, A[e]))
    BY <1>9 DEF WithText
  <2>3. A[e].name \in Named(A)
    BY <2>1 DEF Named
  <2> HIDE DEF T, F, e
  <2>4. /\ DOMAIN T = DOMAIN F \union {A[e].name}
        /\ T[A[e].name] = TextFor(t, A[e])
        /\ \A m \in DOMAIN F : m # A[e].name => T[m] = F[m]
    BY <2>2 DEF Put
  <2>7. DOMAIN T \subseteq Named(A)
    BY <1>1, <2>3, <2>4
  <2>5. CASE a.positional
    <3>1. i = e
      BY <1>2, <2>1, <2>5 DEF Declared
    <3>2. ToldOf(t, a) = {TextFor(t, a)} /\ Fields(t, a) = {}
      BY <1>3, <1>7, <1>9, <2>5
    <3>3. a.name \in DOMAIN T /\ T[a.name] = TextFor(t, a)
      BY <2>4, <3>1
    <3> QED BY <2>7, <3>2, <3>3 DEF Holds, T, F
  <2>6. CASE ~a.positional
    <3>1. a.name # A[e].name
      BY <1>2, <2>1, <2>6, ArgOfIs
    <3>2. Holds(t, i, F, ToldOf(t, a))
      BY <1>6, <2>6
    <3>3. (a.name \in DOMAIN T <=> a.name \in DOMAIN F) /\ (a.name \in DOMAIN F => T[a.name] = F[a.name])
      BY <2>4, <3>1
    <3>4. Fields(t, a) # {} => a.name \in DOMAIN F
      BY <1>1
    <3> QED BY <2>7, <3>2, <3>3, <3>4 DEF Holds, T, F
  <2> QED BY <2>5, <2>6
<1> QED BY <1>8, <1>9

\* And with what was piped.
LEMMA ValuesHold ==
  ASSUME NEW t, TypedAs(t), SetTwice(t) = {}
  PROVE  \A i \in DOMAIN ArgsOf(t) : Holds(t, i, ValuesOf(t), Heard(t, i))
<1> DEFINE A == ArgsOf(t)
           T == WithText(t, FlagValues(t))
           V == ValuesOf(t)
           unset == {j \in DOMAIN A : A[j].stdin /\ Unset(T, A[j].name)}
           e == Earliest(unset)
<1>1. \A j \in DOMAIN A : Holds(t, j, T, ToldOf(t, A[j])) /\ DOMAIN T \subseteq Named(A)
  BY TextHolds
<1>2. Declared(A) /\ DOMAIN A \subseteq Nat
  BY DEF TypedAs
<1>3. \A j \in DOMAIN A : A[j].stdin => Fields(t, A[j]) = {}
  BY <1>2, TextHasNoFields
<1>4. \A j \in DOMAIN A : A[j].stdin => (Unset(T, A[j].name) <=> NoneTold(t, A[j]))
  BY <1>1, <1>3 DEF Holds, Unset, NoneTold
<1>5. \A j \in DOMAIN A : j \in unset <=> (A[j].stdin /\ NoneTold(t, A[j]))
  BY <1>4
<1>6. \A j \in DOMAIN A : IsPiped(t, j) <=> (~Blank(t.piped) /\ j \in unset /\ \A k \in unset : j <= k)
  BY <1>5 DEF IsPiped
<1>7. V = IF unset = {} \/ Blank(t.piped) THEN T ELSE Put(T, A[e].name, t.piped)
  BY DEF ValuesOf, WithStdin
<1>8. unset \subseteq Nat /\ unset \subseteq DOMAIN A
  BY <1>2
<1> HIDE DEF T, V, unset
<1>9. CASE unset = {} \/ Blank(t.piped)
  <2>1. \A j \in DOMAIN A : Heard(t, j) = ToldOf(t, A[j])
    BY <1>6, <1>9 DEF Heard
  <2> QED BY <1>1, <1>7, <1>9, <2>1 DEF V
<1>10. CASE unset # {} /\ ~Blank(t.piped)
  <2>1. e \in unset /\ \A k \in unset : e <= k
    BY <1>8, <1>10, EarliestIs
  <2> HIDE DEF e
  <2>2. \A j \in DOMAIN A : IsPiped(t, j) <=> j = e
    <3>1. \A j \in unset : (\A k \in unset : j <= k) <=> j = e
      BY <1>8, <2>1
    <3> QED BY <1>6, <1>10, <2>1, <3>1
  <2>3. /\ DOMAIN V = DOMAIN T \union {A[e].name}
        /\ V[A[e].name] = t.piped
        /\ \A m \in DOMAIN T : m # A[e].name => V[m] = T[m]
    BY <1>7, <1>10 DEF Put
  <2>4. e \in DOMAIN A /\ A[e].stdin
    BY <1>8, <2>1 DEF unset
  <2>5. A[e].name \in Named(A)
    BY <2>4 DEF Named
  <2>6. ASSUME NEW i \in DOMAIN A PROVE Holds(t, i, V, Heard(t, i))
    <3>1. CASE i = e
      <4>1. Heard(t, i) = {t.piped} /\ Fields(t, A[i]) = {}
        BY <1>3, <2>2, <2>4, <3>1 DEF Heard
      <4> QED BY <2>3, <3>1, <4>1 DEF Holds
    <3>2. CASE i # e
      <4>1. A[i].name # A[e].name
        BY <1>2, <2>4, <3>2, ArgOfIs
      <4>2. Heard(t, i) = ToldOf(t, A[i]) /\ Holds(t, i, T, ToldOf(t, A[i]))
        BY <1>1, <2>2, <3>2 DEF Heard
      <4> QED BY <2>3, <4>1, <4>2 DEF Holds
    <3> QED BY <3>1, <3>2
  <2> QED BY <1>1, <2>3, <2>5, <2>6 DEF V
<1> QED BY <1>9, <1>10
\* Only of the command's args.
LEMMA OfArgsOnly ==
  ASSUME NEW t, TypedAs(t)
  PROVE  /\ DOMAIN ValuesOf(t) \subseteq Named(ArgsOf(t))
         /\ DOMAIN Defaulted(ArgsOf(t), ValuesOf(t)) \subseteq Named(ArgsOf(t))
<1> DEFINE A == ArgsOf(t)
           F == FlagValues(t)
           T == WithText(t, F)
           texts == Positional(A)
           unset == {i \in DOMAIN A : A[i].stdin /\ Unset(T, A[i].name)}
<1>1. DOMAIN A \subseteq Nat
  BY DEF TypedAs
<1>2. DOMAIN F \subseteq Named(A)
  BY DEF FlagValues, Named
<1>3. \A i \in DOMAIN A : A[i].name \in Named(A)
  BY DEF Named
<1>4. DOMAIN T \subseteq Named(A)
  <2>1. texts # {} => A[Earliest(texts)].name \in Named(A)
    BY <1>1, <1>3, EarliestIs DEF Positional
  <2>2. T = F \/ (texts # {} /\ T = Put(F, A[Earliest(texts)].name, TextFor(t, A[Earliest(texts)])))
    BY DEF WithText
  <2> HIDE DEF T, F, texts
  <2> QED BY <1>2, <2>1, <2>2 DEF Put
<1>5. DOMAIN ValuesOf(t) \subseteq Named(A)
  <2>1. unset # {} => A[Earliest(unset)].name \in Named(A)
    BY <1>1, <1>3, EarliestIs
  <2>2. ValuesOf(t) = T \/ (unset # {} /\ ValuesOf(t) = Put(T, A[Earliest(unset)].name, t.piped))
    BY DEF ValuesOf, WithStdin
  <2> HIDE DEF T, unset
  <2> QED BY <1>4, <2>1, <2>2 DEF Put
<1> QED BY <1>5 DEF Defaulted

\* And with the defaults; an arg has one of them or a value.
LEMMA DefaultsHold ==
  ASSUME NEW t, TypedAs(t), SetTwice(t) = {}, NEW i \in DOMAIN ArgsOf(t)
  PROVE  LET a == ArgsOf(t)[i]
             in == Defaulted(ArgsOf(t), ValuesOf(t))
         IN  /\ Holds(t, i, in, SaidOf(t, i))
             /\ DOMAIN in \subseteq Named(ArgsOf(t))
             /\ a.name \in DOMAIN in <=> (a.name \in DOMAIN ValuesOf(t) \/ a.default # NotGiven)
             /\ a.name \in DOMAIN in => in[a.name] = a.default \/ (a.name \in DOMAIN ValuesOf(t) /\ in[a.name] = ValuesOf(t)[a.name])
             /\ a.default = NotGiven /\ a.name \in DOMAIN ValuesOf(t) => in[a.name] = ValuesOf(t)[a.name]
             /\ a.name \in DOMAIN in => a.default # NotGiven \/ a.name \in DOMAIN ValuesOf(t)
<1> DEFINE A == ArgsOf(t)
           a == A[i]
           V == ValuesOf(t)
           unset == {n \in Named(A) : ArgOf(A, n).default # NotGiven /\ Unset(V, n)}
           in == Defaulted(A, V)
<1>1. Declared(A)
  BY DEF TypedAs
<1>2. Holds(t, i, V, Heard(t, i)) /\ DOMAIN V \subseteq Named(A)
  BY ValuesHold, OfArgsOnly
<1>3. ArgOf(A, a.name) = a /\ a.name \in Named(A)
  BY <1>1, ArgOfIs DEF Named
<1>4. in = [n \in DOMAIN V \union unset |-> IF n \in unset THEN ArgOf(A, n).default ELSE V[n]]
  BY DEF Defaulted
<1>5. unset \subseteq Named(A)
  OBVIOUS
<1>6. a.name \in unset <=> (a.default # NotGiven /\ Unset(V, a.name))
  BY <1>3
<1>7. a.default # NotGiven => Fields(t, a) = {}
  BY <1>1, TextHasNoFields
<1>8. a.default # NotGiven => (Unset(V, a.name) <=> \A v \in Heard(t, i) : Blank(v))
  BY <1>2, <1>7 DEF Holds, Unset
<1>9. SaidOf(t, i) = IF a.name \in unset THEN {a.default} ELSE Heard(t, i)
  BY <1>6, <1>8 DEF SaidOf
<1>10. a.name \notin DOMAIN V => Unset(V, a.name)
  BY DEF Unset
<1> HIDE DEF unset, in, V
<1>11. DOMAIN in \subseteq Named(A) /\ (a.name \in DOMAIN in <=> a.name \in DOMAIN V \/ a.name \in unset)
  BY <1>2, <1>4, <1>5
<1>12. /\ a.name \in unset => in[a.name] = a.default
       /\ a.name \in DOMAIN V /\ a.name \notin unset => in[a.name] = V[a.name]
  BY <1>3, <1>4
<1>13. Holds(t, i, in, SaidOf(t, i))
  <2>1. CASE a.name \in unset
    <3>1. Fields(t, a) = {} /\ SaidOf(t, i) = {a.default} /\ a.name \in DOMAIN in /\ in[a.name] = a.default
      BY <1>6, <1>7, <1>9, <1>11, <1>12, <2>1
    <3> QED BY <3>1 DEF Holds
  <2>2. CASE a.name \notin unset
    <3>1. SaidOf(t, i) = Heard(t, i) /\ (a.name \in DOMAIN in <=> a.name \in DOMAIN V) /\ (a.name \in DOMAIN V => in[a.name] = V[a.name])
      BY <1>9, <1>11, <1>12, <2>2
    <3> QED BY <1>2, <3>1 DEF Holds
  <2> QED BY <2>1, <2>2
<1> QED BY <1>6, <1>10, <1>11, <1>12, <1>13 DEF in, V

----------------------------------------------------------------------------
\* A command runs on its defaulted values, which its schema and its check pass.
LEMMA InputIs ==
  ASSUME NEW t, BuildCommand(t).as = "input"
  PROVE  /\ SetTwice(t) = {} /\ Violations(t, ValuesOf(t)) = {} /\ Check(Defaulted(ArgsOf(t), ValuesOf(t))) = {}
         /\ BuildCommand(t).input = Defaulted(ArgsOf(t), ValuesOf(t))
<1>1. \A f, c : Refusal(f, c).as # "input"
  BY DEF Refusal
<1>2. \A args, vs : Refuses(args, vs).as # "input"
  BY DEF Refuses
<1>3. BuildCommand(t) = RunsOn(t) /\ SetTwice(t) = {}
  BY <1>1, Zenon DEF BuildCommand
<1>4. RunsOn(t).as = "input"
  BY <1>3
<1>5. Violations(t, ValuesOf(t)) = {} /\ Check(Defaulted(ArgsOf(t), ValuesOf(t))) = {}
  BY <1>2, <1>4, Zenon DEF RunsOn
<1>6. RunsOn(t) = [as |-> "input", input |-> Defaulted(ArgsOf(t), ValuesOf(t))]
  BY <1>5, Zenon DEF RunsOn
<1> QED BY <1>3, <1>5, <1>6

LEMMA SaidRuns ==
  ASSUME TypedAs(typed), read = BuildCommand(typed) PROVE RunsOnWhatWasSaid
<1> SUFFICES ASSUME read.as = "input" PROVE /\ DOMAIN read.input \subseteq Named(Args)
                                            /\ \A i \in DOMAIN Args :
                                                 LET a == Args[i]
                                                 IN  IF Fields(typed, a) # {} THEN a.name \in DOMAIN read.input /\ read.input[a.name] = [f \in Fields(typed, a) |-> Given(typed, f)]
                                                     ELSE {read.input[n] : n \in DOMAIN read.input \intersect {a.name}} = SaidOf(typed, i)
  BY DEF RunsOnWhatWasSaid
<1> DEFINE in == read.input
<1>1. SetTwice(typed) = {} /\ in = Defaulted(Args, ValuesOf(typed))
  BY InputIs DEF Args
<1>2. ASSUME NEW i \in DOMAIN Args PROVE Holds(typed, i, in, SaidOf(typed, i)) /\ DOMAIN in \subseteq Named(Args)
  BY <1>1, DefaultsHold DEF Args
<1>3. DOMAIN in \subseteq Named(Args)
  BY <1>1, OfArgsOnly DEF Args
<1>4. ASSUME NEW i \in DOMAIN Args
      PROVE  LET a == Args[i]
             IN  IF Fields(typed, a) # {} THEN a.name \in DOMAIN in /\ in[a.name] = [f \in Fields(typed, a) |-> Given(typed, f)]
                 ELSE {in[n] : n \in DOMAIN in \intersect {a.name}} = SaidOf(typed, i)
  <2> HIDE DEF in
  <2>1. Holds(typed, i, in, SaidOf(typed, i))
    BY <1>2
  <2>2. CASE Fields(typed, Args[i]) # {}
    BY <2>1, <2>2 DEF Holds, Args
  <2>3. CASE Fields(typed, Args[i]) = {} /\ Args[i].name \in DOMAIN in
    BY <2>1, <2>3 DEF Holds, Args
  <2>4. CASE Fields(typed, Args[i]) = {} /\ Args[i].name \notin DOMAIN in
    BY <2>1, <2>4 DEF Holds, Args
  <2> QED BY <2>2, <2>3, <2>4
<1> QED BY <1>3, <1>4
\* What passed the schema and the check is fit.
LEMMA FitRuns ==
  ASSUME TypedAs(typed), read = BuildCommand(typed) PROVE RunsOnlyWhatFits
<1> SUFFICES ASSUME read.as = "input" PROVE RunsOnlyWhatFits
  BY DEF RunsOnlyWhatFits
<1> DEFINE in == read.input
           V == ValuesOf(typed)
<1>1. SetTwice(typed) = {} /\ in = Defaulted(Args, V) /\ Violations(typed, V) = {} /\ Check(in) = {}
  BY InputIs DEF Args
<1>2. Declared(Args) /\ DOMAIN Args \subseteq Nat
  BY DEF TypedAs, Args
<1>3. /\ \A i \in DOMAIN Args : Unfit(typed, Args[i], V) = {}
      /\ \A g \in Groups(Args) : ExactlyOne(Args, g, V) = {}
  BY <1>1 DEF Violations, Args
<1> HIDE DEF in, V
<1>4. ASSUME NEW i \in DOMAIN Args
      PROVE  LET a == Args[i]
             IN  /\ a.required => a.name \in DOMAIN V /\ V[a.name] # ""
                 /\ a.enum # {} /\ a.name \in DOMAIN V => V[a.name] \in a.enum
                 /\ \A f \in a.fields : f.path \in Fields(typed, a) /\ f.enum # {} => V[a.name][f.path] \in f.enum
  <2> DEFINE a == Args[i]
  <2>0. Unfit(typed, a, V) = {}
    BY <1>3
  <2>2. a.required => a.name \in DOMAIN V
    BY <2>0 DEF Unfit
  <2>3. a.required /\ a.name \in DOMAIN V => V[a.name] # ""
    BY <2>0 DEF Unfit
  <2>4. a.enum # {} /\ a.name \in DOMAIN V => V[a.name] \in a.enum
    BY <2>0 DEF Unfit
  <2>5. \A f \in a.fields : f.path \in Fields(typed, a) /\ f.enum # {} => V[a.name][f.path] \in f.enum
    BY <2>0 DEF Unfit
  <2> QED BY <2>2, <2>3, <2>4, <2>5
<1>5. ASSUME NEW i \in DOMAIN Args
      PROVE  LET a == Args[i]
             IN  /\ a.name \in DOMAIN in <=> (a.name \in DOMAIN V \/ a.default # NotGiven)
                 /\ a.name \in DOMAIN in => in[a.name] = a.default \/ (a.name \in DOMAIN V /\ in[a.name] = V[a.name])
                 /\ a.default = NotGiven /\ a.name \in DOMAIN V => in[a.name] = V[a.name]
                 /\ a.name \in DOMAIN in => a.default # NotGiven \/ a.name \in DOMAIN V
  BY <1>1, DefaultsHold DEF Args, V
<1>6. ASSUME NEW i \in DOMAIN Args PROVE Fields(typed, Args[i]) # {} => Args[i].name \in DOMAIN V /\ Args[i].default = NotGiven
  <2>1. Holds(typed, i, V, Heard(typed, i))
    BY <1>1, ValuesHold DEF Args, V
  <2> QED BY <1>2, <2>1, TextHasNoFields DEF Holds, Args
<1>7. ASSUME NEW i \in DOMAIN Args
      PROVE  LET a == Args[i]
             IN  /\ a.required => IsOf(i, in) /\ in[a.name] # ""
                 /\ a.enum # {} /\ IsOf(i, in) => in[a.name] \in a.enum
                 /\ \A f \in a.fields : f.path \in Fields(typed, a) /\ f.enum # {} => in[a.name][f.path] \in f.enum
  <2>1. /\ Args[i].required => Args[i].default = NotGiven
        /\ Args[i].default # NotGiven /\ Args[i].enum # {} => Args[i].default \in Args[i].enum
    BY <1>2 DEF Declared
  <2>2. Args[i].required => IsOf(i, in) /\ in[Args[i].name] # ""
    BY <1>4, <1>5, <2>1 DEF IsOf
  <2>3. Args[i].enum # {} /\ IsOf(i, in) => in[Args[i].name] \in Args[i].enum
    BY <1>4, <1>5, <2>1 DEF IsOf
  <2>4. Fields(typed, Args[i]) # {} => in[Args[i].name] = V[Args[i].name]
    BY <1>5, <1>6
  <2>5. \A f \in Args[i].fields : f.path \in Fields(typed, Args[i]) /\ f.enum # {} => in[Args[i].name][f.path] \in f.enum
    BY <1>4, <2>4
  <2> QED BY <2>2, <2>3, <2>5
<1>8. ASSUME NEW g \in Groups(Args)
      PROVE  \E only \in Members(Args, g) : \A i \in Members(Args, g) : IsOf(i, in) <=> i = only \/ Args[i].default # NotGiven
  <2> DEFINE set == {i \in Members(Args, g) : Args[i].name \in DOMAIN V}
  <2>1. set # {} /\ set \ {Earliest(set)} = {}
    BY <1>3, <1>8 DEF ExactlyOne
  <2>2. set \subseteq Nat
    BY <1>2 DEF Members
  <2>3. Earliest(set) \in set
    BY <2>1, <2>2, EarliestIs
  <2>4. \A i \in Members(Args, g) : Args[i].name \in DOMAIN V <=> i = Earliest(set)
    BY <2>1, <2>3
  <2>5. \A i \in Members(Args, g) : IsOf(i, in) <=> (Args[i].name \in DOMAIN V \/ Args[i].default # NotGiven)
    BY <1>5 DEF IsOf, Members
  <2> QED BY <2>3, <2>4, <2>5
<1>9. ASSUME "lang" \in DOMAIN in
      PROVE  /\ {n \in {"dataset", "data_source"} : ~Lacks(in, n)} = {IF in["lang"] = "sql" THEN "data_source" ELSE "dataset"}
             /\ "page" \in DOMAIN in => "page_size" \in DOMAIN in /\ in["lang"] # "sql"
  <2>1. \A f, c : {Violation(f, c)} # {}
    OBVIOUS
  <2>2. CASE in["lang"] = "sql"
    <3>1. ~Has(in, "dataset") /\ ~Lacks(in, "data_source") /\ "page" \notin DOMAIN in
      BY <1>1, <1>9, <2>1, <2>2, Zenon DEF Check
    <3> QED BY <2>2, <3>1 DEF Has, Lacks, Blank
  <2>3. CASE in["lang"] # "sql"
    <3>1. ~Has(in, "data_source") /\ ~Lacks(in, "dataset") /\ ("page" \in DOMAIN in => "page_size" \in DOMAIN in)
      BY <1>1, <1>9, <2>1, <2>3, Zenon DEF Check
    <3> QED BY <2>3, <3>1 DEF Has, Lacks, Blank
  <2> QED BY <2>2, <2>3
<1> QED BY <1>7, <1>8, <1>9 DEF RunsOnlyWhatFits, in

----------------------------------------------------------------------------
\* What the schema or the check refuses is wrong as typed.
LEMMA UnfitIsWrong ==
  ASSUME TypedAs(typed), SetTwice(typed) = {}, NEW v \in Violations(typed, ValuesOf(typed))
  PROVE  IsWrong(v) /\ (v.field \in Named(Args) \/ \E i \in DOMAIN Args : v.field \in Fields(typed, Args[i]))
<1> DEFINE V == ValuesOf(typed)
<1>1. Declared(Args) /\ DOMAIN Args \subseteq Nat
  BY DEF TypedAs, Args
<1>2. \A i \in DOMAIN Args : Holds(typed, i, V, Heard(typed, i)) /\ Args[i].name \in Named(Args)
  BY ValuesHold DEF Args, Named
<1> HIDE DEF V
<1>3. ASSUME NEW i \in DOMAIN Args, Args[i].name \notin DOMAIN V PROVE Heard(typed, i) = {}
  BY <1>2, <1>3 DEF Holds, Args
<1>4. ASSUME NEW i \in DOMAIN Args, Args[i].name \in DOMAIN V PROVE SaidOf(typed, i) \union Fields(typed, Args[i]) # {}
  BY <1>2, <1>4 DEF Holds, Args, SaidOf
<1>5. ASSUME NEW i \in DOMAIN Args, v \in Unfit(typed, Args[i], V)
      PROVE  IsWrong(v) /\ (v.field \in Named(Args) \/ \E j \in DOMAIN Args : v.field \in Fields(typed, Args[j]))
  <2> DEFINE a == Args[i]
  <2>1. CASE v = Violation(a.name, "required") /\ a.name \notin DOMAIN V
    BY <1>2, <1>3, <2>1 DEF IsWrong, Violation
  <2>2. CASE v = Violation(a.name, "too_short") /\ a.required /\ a.name \in DOMAIN V /\ V[a.name] = ""
    <3>1. Fields(typed, a) = {}
      BY <1>1, <2>2, TextHasNoFields
    <3>2. Heard(typed, i) = {""}
      BY <1>2, <2>2, <3>1 DEF Holds, Args
    <3> QED BY <1>2, <2>2, <3>2 DEF IsWrong, Violation
  <2>3. CASE v = Violation(a.name, "invalid") /\ a.name \in DOMAIN V
    BY <1>2, <1>4, <2>3 DEF IsWrong, Violation
  <2>4. CASE \E f \in a.fields : f.path \in Fields(typed, a) /\ v = Violation(f.path, "invalid")
    <3>1. PICK f \in a.fields : f.path \in Fields(typed, a) /\ v = Violation(f.path, "invalid")
      BY <2>4
    <3>2. v.field = f.path /\ v.code = "invalid"
      BY <3>1 DEF Violation
    <3>3. v.field \in {typed.flags[j].flag : j \in DOMAIN typed.flags}
      BY <3>1, <3>2 DEF Fields, Where
    <3> QED BY <3>1, <3>2, <3>3 DEF IsWrong
  <2> QED BY <1>5, <2>1, <2>2, <2>3, <2>4 DEF Unfit
<1>6. ASSUME NEW g \in Groups(Args), v \in ExactlyOne(Args, g, V) PROVE IsWrong(v) /\ v.field \in Named(Args)
  <2> DEFINE set == {i \in Members(Args, g) : Args[i].name \in DOMAIN V}
             e == Earliest(Members(Args, g))
  <2>1. Members(Args, g) # {} /\ Members(Args, g) \subseteq DOMAIN Args
    BY DEF Groups, Members
  <2>2. e \in Members(Args, g)
    BY <1>1, <2>1, EarliestIs
  <2>3. CASE set = {}
    <3>1. v = Violation(Args[e].name, "required")
      BY <1>6, <2>3 DEF ExactlyOne
    <3>2. e \in DOMAIN Args /\ Args[e].name \notin DOMAIN V
      BY <2>1, <2>2, <2>3
    <3> HIDE DEF e
    <3> QED BY <1>2, <1>3, <3>1, <3>2 DEF IsWrong, Violation
  <2>4. CASE set # {}
    <3>1. PICK i \in set : v = Violation(Args[i].name, "invalid")
      BY <1>6, <2>4 DEF ExactlyOne
    <3>2. i \in DOMAIN Args /\ Args[i].name \in DOMAIN V
      BY <2>1, <3>1
    <3> QED BY <1>2, <1>4, <3>1, <3>2 DEF IsWrong, Violation
  <2> QED BY <2>3, <2>4
<1> QED BY <1>5, <1>6 DEF Violations, Args, V

LEMMA CheckIsWrong ==
  ASSUME TypedAs(typed), SetTwice(typed) = {}, NEW v \in Check(Defaulted(Args, ValuesOf(typed)))
  PROVE  IsWrong(v) /\ v.field \in Named(Args)
<1> DEFINE in == Defaulted(Args, ValuesOf(typed))
<1>1. \A i \in DOMAIN Args : Holds(typed, i, in, SaidOf(typed, i))
  BY DefaultsHold DEF Args
<1>2. DOMAIN in \subseteq Named(Args) /\ Targets(Args)
  BY OfArgsOnly DEF Args, TypedAs
<1> HIDE DEF in
<1>3. ASSUME NEW n \in DOMAIN in, v.field = n, v.code \in {"invalid", "unsupported"} PROVE IsWrong(v) /\ v.field \in Named(Args)
  <2>1. PICK i \in DOMAIN Args : Args[i].name = n
    BY <1>2 DEF Named
  <2>2. SaidOf(typed, i) \union Fields(typed, Args[i]) # {}
    BY <1>1, <2>1 DEF Holds, Args
  <2> QED BY <1>2, <1>3, <2>1, <2>2 DEF IsWrong
<1>4. ASSUME NEW n \in Named(Args), Lacks(in, n), v.field = n, v.code = "required" PROVE IsWrong(v) /\ v.field \in Named(Args)
  <2>1. PICK i \in DOMAIN Args : Args[i].name = n
    BY DEF Named
  <2>2. \A said \in SaidOf(typed, i) : Blank(said)
    <3>1. Holds(typed, i, in, SaidOf(typed, i))
      BY <1>1
    <3>2. CASE n \in DOMAIN in /\ Fields(typed, Args[i]) = {}
      <4>1. SaidOf(typed, i) = {in[n]} /\ Blank(in[n])
        BY <1>4, <2>1, <3>1, <3>2 DEF Holds, Lacks, Args
      <4> QED BY <4>1
    <3>3. CASE n \notin DOMAIN in \/ Fields(typed, Args[i]) # {}
      <4>1. SaidOf(typed, i) = {}
        BY <2>1, <3>1, <3>3 DEF Holds, Args
      <4> QED BY <4>1
    <3> QED BY <3>2, <3>3
  <2>3. \A said \in Heard(typed, i) : Blank(said)
    BY <2>2 DEF SaidOf
  <2> QED BY <1>4, <2>1, <2>3 DEF IsWrong
<1>5. "lang" \in DOMAIN in /\ "dataset" \in Named(Args) /\ "data_source" \in Named(Args)
      /\ ("page" \in DOMAIN in => "page_size" \in Named(Args))
  BY <1>2 DEF Check, Targets, in
<1>6. \/ \E n \in DOMAIN in : v.field = n /\ v.code \in {"invalid", "unsupported"}
      \/ \E n \in Named(Args) : Lacks(in, n) /\ v.field = n /\ v.code = "required"
  <2>1. v \in Check(in)
    BY DEF in
  <2>2. CASE in["lang"] = "sql"
    <3>1. \/ "dataset" \in DOMAIN in /\ v = Violation("dataset", "invalid")
          \/ Lacks(in, "data_source") /\ v = Violation("data_source", "required")
          \/ "page" \in DOMAIN in /\ v = Violation("page", "unsupported")
          \/ "page_size" \in DOMAIN in /\ v = Violation("page_size", "unsupported")
      BY <1>5, <2>1, <2>2 DEF Check, Has
    <3> QED BY <1>5, <3>1 DEF Violation
  <2>3. CASE in["lang"] # "sql"
    <3>1. \/ "data_source" \in DOMAIN in /\ v = Violation("data_source", "unsupported")
          \/ Lacks(in, "dataset") /\ v = Violation("dataset", "required")
          \/ "page" \in DOMAIN in /\ "page_size" \notin DOMAIN in /\ v = Violation("page_size", "required")
      BY <1>5, <2>1, <2>3 DEF Check, Has
    <3> QED BY <1>5, <3>1 DEF Violation, Lacks
  <2> QED BY <2>2, <2>3
<1> QED BY <1>3, <1>4, <1>6

\* And is named as the user passes it.
LEMMA NamesRight ==
  ASSUME TypedAs(typed), NEW v, v.field \in Named(Args) \/ (\E i \in DOMAIN Args : v.field \in Fields(typed, Args[i])),
         v.arg = ArgName(Args, v.field)
  PROVE  IsNamed(v)
<1>1. CASE v.field \in Named(Args)
  <2>1. PICK i \in DOMAIN Args : Args[i].name = v.field
    BY <1>1 DEF Named
  <2>2. ArgOf(Args, v.field) = Args[i]
    BY <2>1, ArgOfIs DEF TypedAs, Args
  <2>3. CASE Args[i].positional
    <3>1. v.arg = <<"positional", v.field>> /\ i \in Positional(Args)
      BY <1>1, <2>2, <2>3 DEF ArgName, Positional
    <3>2. v.arg[1] = "positional" /\ v.arg[2] = v.field
      BY <3>1
    <3> QED BY <2>1, <3>1, <3>2 DEF IsNamed
  <2>4. CASE ~Args[i].positional
    <3>1. v.field \in FlagsOf(Args[i])
      BY <2>1, <2>4 DEF FlagsOf, OwnFlags
    <3>2. v.arg = <<"flag", v.field>>
      BY <1>1, <2>2, <2>4 DEF ArgName
    <3>3. v.arg[1] = "flag" /\ v.arg[2] = v.field
      BY <3>2
    <3> QED BY <3>1, <3>3 DEF IsNamed, IsFlag
  <2> QED BY <2>3, <2>4
<1>2. CASE v.field \notin Named(Args)
  <2>1. v.arg = <<"as_it_is", v.field>>
    BY <1>2 DEF ArgName
  <2>3. v.arg[2] = v.field
    BY <2>1
  <2>2. v.arg[1] = "as_it_is"
    BY <2>1
  <2> QED BY <1>2, <2>2, <2>3 DEF IsNamed
<1> QED BY <1>1, <1>2

LEMMA RefusesRight ==
  ASSUME TypedAs(typed), read = BuildCommand(typed) PROVE RefusesOnlyWhatIsWrong
<1> SUFFICES ASSUME read.as = "refused" PROVE read.violations # {} /\ \A v \in read.violations : IsWrong(v) /\ IsNamed(v)
  BY DEF RefusesOnlyWhatIsWrong
<1> DEFINE t == typed
<1>0. DOMAIN t.flags \subseteq Nat /\ DOMAIN Args \subseteq Nat /\ ArgsOf(t) = Args
  BY DEF TypedAs, Args
<1>1. ASSUME NEW field, NEW code, read = Refusal(field, code), IsWrong([field |-> field, code |-> code, arg |-> <<>>])
      PROVE  read.violations # {} /\ \A v \in read.violations : IsWrong(v) /\ IsNamed(v)
  <2>1. read.violations = {[field |-> field, code |-> code, arg |-> <<>>]}
    BY <1>1 DEF Refusal
  <2>2. IsNamed([field |-> field, code |-> code, arg |-> <<>>])
    BY DEF IsNamed
  <2> QED BY <1>1, <2>1, <2>2
<1>2. CASE Unread(t) # {}
  <2> DEFINE f == t.flags[Earliest(Unread(t))].flag
             code == IF IsFlag(Args, f) THEN "invalid" ELSE "unknown"
  <2>1. Earliest(Unread(t)) \in DOMAIN t.flags
    BY <1>0, <1>2, EarliestIs DEF Unread
  <2>2. read = Refusal(f, code)
    BY <1>0, <1>2 DEF BuildCommand
  <2>3. f \in {t.flags[i].flag : i \in DOMAIN t.flags}
    BY <2>1
  <2> HIDE DEF f
  <2>4. IsWrong([field |-> f, code |-> code, arg |-> <<>>])
    BY <2>3 DEF IsWrong
  <2> QED BY <1>1, <2>2, <2>4
<1>3. CASE Unread(t) = {} /\ Len(t.text) > MostTexts(t)
  <2>1. read = Refusal("args", "invalid")
    BY <1>3 DEF BuildCommand
  <2>2. t.text # <<>>
    <3>1. Len(<<>>) = 0
      OBVIOUS
    <3> QED BY <1>3, <3>1 DEF MostTexts
  <2>3. IsWrong([field |-> "args", code |-> "invalid", arg |-> <<>>])
    BY <2>2 DEF IsWrong
  <2> QED BY <1>1, <2>1, <2>3
<1>4. CASE Unread(t) = {} /\ ~(Len(t.text) > MostTexts(t)) /\ BadObjects(t) # {}
  <2> DEFINE f == t.flags[Earliest(BadObjects(t))].flag
  <2>1. Earliest(BadObjects(t)) \in DOMAIN t.flags
    BY <1>0, <1>4, EarliestIs DEF BadObjects
  <2>2. read = Refusal(f, "invalid")
    BY <1>4 DEF BuildCommand
  <2>3. f \in {t.flags[i].flag : i \in DOMAIN t.flags}
    BY <2>1
  <2> HIDE DEF f
  <2>4. IsWrong([field |-> f, code |-> "invalid", arg |-> <<>>])
    BY <2>3 DEF IsWrong
  <2> QED BY <1>1, <2>2, <2>4
<1>5. CASE Unread(t) = {} /\ ~(Len(t.text) > MostTexts(t)) /\ BadObjects(t) = {} /\ SetTwice(t) # {}
  <2> DEFINE k == Earliest(SetTwice(t))
  <2>1. k \in DOMAIN Args /\ Fields(t, Args[k]) # {}
    BY <1>0, <1>5, EarliestIs DEF SetTwice
  <2>2. read = Refusal(Args[k].name, "invalid")
    BY <1>0, <1>5 DEF BuildCommand
  <2> HIDE DEF k
  <2>3. IsWrong([field |-> Args[k].name, code |-> "invalid", arg |-> <<>>])
    BY <2>1 DEF IsWrong
  <2> QED BY <1>1, <2>2, <2>3
<1>6. CASE Unread(t) = {} /\ ~(Len(t.text) > MostTexts(t)) /\ BadObjects(t) = {} /\ SetTwice(t) = {}
  <2>1. read = RunsOn(t)
    BY <1>6 DEF BuildCommand
  <2>2. PICK vs : vs # {} /\ read = Refuses(Args, vs) /\ (vs = Violations(t, ValuesOf(t)) \/ vs = Check(Defaulted(Args, ValuesOf(t))))
    BY <1>0, <2>1 DEF RunsOn
  <2>3. ASSUME NEW v \in vs
        PROVE  IsWrong(v) /\ (v.field \in Named(Args) \/ \E i \in DOMAIN Args : v.field \in Fields(typed, Args[i]))
    BY <1>6, <2>2, UnfitIsWrong, CheckIsWrong
  <2>4. ASSUME NEW v \in vs, NEW w, w = [field |-> v.field, code |-> v.code, arg |-> ArgName(Args, v.field)]
        PROVE  IsWrong(w) /\ IsNamed(w)
    <3>1. w.field = v.field /\ w.code = v.code /\ w.arg = ArgName(Args, w.field)
      BY <2>4
    <3>2. IsWrong(w)
      BY <2>3, <3>1 DEF IsWrong
    <3>3. IsNamed(w)
      BY <2>3, <3>1, NamesRight
    <3> QED BY <3>2, <3>3
  <2>5. read.violations = {[field |-> v.field, code |-> v.code, arg |-> ArgName(Args, v.field)] : v \in vs}
    BY <2>2 DEF Refuses
  <2> QED BY <2>2, <2>4, <2>5
<1> QED BY <1>2, <1>3, <1>4, <1>5, <1>6

----------------------------------------------------------------------------
\* What is read is what the command makes of what was typed.
ReadOnce == typed \in Typed /\ (read = [as |-> "nothing"] \/ read = BuildCommand(typed))

\* A command runs on what was typed, read as its declaration says, or tells
\* what of it is wrong: for every declaration, whatever is typed.
THEOREM InputIsReadAsTyped == InputsSpec => []InputIsRead
<1>1. InputsInit => ReadOnce
  BY DEF InputsInit, ReadOnce
<1>2. ReadOnce /\ [Read]_inputs => ReadOnce'
  BY DEF ReadOnce, Read, inputs
<1>3. ReadOnce => InputIsRead
  <2>1. CASE typed \in Typed /\ read = BuildCommand(typed)
    <3>1. TypedAs(typed)
      BY <2>1, TypedIs
    <3> QED BY <2>1, <3>1, SaidRuns, FitRuns, RefusesRight DEF InputIsRead
  <2>2. CASE read = [as |-> "nothing"]
    <3>1. read.as = "nothing"
      BY <2>2
    <3> QED BY <3>1 DEF InputIsRead, RunsOnWhatWasSaid, RunsOnlyWhatFits, RefusesOnlyWhatIsWrong
  <2> QED BY <2>1, <2>2 DEF ReadOnce
<1> QED BY <1>1, <1>2, <1>3, PTL DEF InputsSpec
=============================================================================
