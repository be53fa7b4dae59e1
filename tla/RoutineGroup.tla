---------------------------- MODULE RoutineGroup ----------------------------
(***************************************************************************)
(* A server's background routines (shared/routine/routine.go): one Group,  *)
(* the goroutines it spawns, the code that hands it tasks, and the calls   *)
(* of Stop.  One action is one section under Group.mu, or one step of a    *)
(* goroutine between two points where it can be descheduled.               *)
(***************************************************************************)
EXTENDS Naturals, FiniteSets

CONSTANTS Everys,     \* routines registered with Every
          Loops,      \* ... with Loop
          Workers,    \* ... with Worker
          Tasks,      \* the pieces of work handed to Task
          Recovered,  \* the Everys registered with the Recover option
          Stoppers    \* the calls of Stop, each with a context of its own

ASSUME RoutineAssumption ==
  /\ Everys \cap Loops = {}
  /\ Everys \cap Workers = {}
  /\ Everys \cap Tasks = {}
  /\ Loops \cap Workers = {}
  /\ Loops \cap Tasks = {}
  /\ Workers \cap Tasks = {}
  /\ Recovered \subseteq Everys

Routines == Everys \cup Loops \cup Workers
Goroutines == Routines \cup Tasks

VARIABLES
  registered,     \* Group.routines
  started,        \* Group.started
  stopped,        \* Group.stopped
  stopping,       \* whether Group.stopping is closed
  done,           \* whether Group.done is closed
  loopCancelled,  \* loopCtx.Err() # nil
  drain,          \* drainCtx and cancelDrain: "nil" until Start sets them
  pc,             \* where each goroutine is
  waiter,         \* the goroutine Stop leaves to wait for the others
  stop,           \* where each call of Stop is
  expired,        \* whether the context of each call of Stop has ended
  crash,          \* why the process died, "none" while it lives
  lateRuns,       \* history: routines that began a run after Stop began
  cutShort        \* history: goroutines reported as cut short

ctxs == <<loopCancelled, drain>>
group == <<registered, started, stopped, stopping, done>>
history == <<lateRuns, cutShort>>
vars == <<group, ctxs, pc, waiter, stop, expired, crash, history>>

ActivePC == {"ready", "waiting", "running", "backoff"}

\* What Group.wg counts.
Active == {r \in Goroutines : pc[r] \in ActivePC}

Alive == crash = "none"

TypeOK ==
  /\ registered \in SUBSET Routines
  /\ started \in BOOLEAN
  /\ stopped \in BOOLEAN
  /\ stopping \in BOOLEAN
  /\ done \in BOOLEAN
  /\ loopCancelled \in BOOLEAN
  /\ drain \in {"nil", "live", "cancelled"}
  /\ pc \in [Goroutines -> ActivePC \cup {"idle", "returned"}]
  /\ \A e \in Everys : pc[e] # "backoff"
  /\ \A l \in Loops : pc[l] \notin {"ready", "waiting"}
  /\ \A w \in Workers \cup Tasks : pc[w] \in {"idle", "running", "returned"}
  /\ waiter \in {"none", "waiting", "closing", "gone"}
  /\ stop \in [Stoppers -> {"idle", "waiting", "cutting", "nil", "err"}]
  /\ expired \in [Stoppers -> BOOLEAN]
  /\ crash \in {"none", "routine", "misuse", "stop"}
  /\ lateRuns \in SUBSET Routines
  /\ cutShort \in SUBSET Goroutines

Init ==
  /\ registered = {}
  /\ started = FALSE
  /\ stopped = FALSE
  /\ stopping = FALSE
  /\ done = FALSE
  /\ loopCancelled = FALSE
  /\ drain = "nil"
  /\ pc = [r \in Goroutines |-> "idle"]
  /\ waiter = "none"
  /\ stop = [s \in Stoppers |-> "idle"]
  /\ expired = [s \in Stoppers |-> FALSE]
  /\ crash = "none"
  /\ lateRuns = {}
  /\ cutShort = {}
-----------------------------------------------------------------------------
(* The owner: Every, Loop and Worker, then Start, and Task at any time.    *)

Die(why) ==
  /\ crash' = why
  /\ UNCHANGED <<group, ctxs, pc, waiter, stop, expired, history>>

\* Registering after Start or Stop panics in the owner.
Register(r) ==
  /\ Alive
  /\ r \notin registered
  /\ IF started \/ stopped
     THEN Die("misuse")
     ELSE /\ registered' = registered \cup {r}
          /\ UNCHANGED <<started, stopped, stopping, done, ctxs, pc, waiter,
                         stop, expired, crash, history>>

\* Mutant of Start: a group stopped before it started is started all the same.
StartIgnoringStop ==
  /\ Alive
  /\ ~started
  /\ started' = TRUE
  /\ drain' = "live"
  /\ pc' = [r \in Goroutines |->
              IF r \notin registered THEN pc[r]
              ELSE IF r \in Everys THEN "ready" ELSE "running"]
  /\ UNCHANGED <<registered, stopped, stopping, done, loopCancelled, waiter, stop,
                 expired, crash, history>>

\* Mutant of Start: cancelDrain is not set.
StartUndrained ==
  /\ Alive
  /\ ~started
  /\ started' = TRUE
  /\ IF stopped
     THEN done' = TRUE /\ UNCHANGED pc
     ELSE /\ pc' = [r \in Goroutines |->
                      IF r \notin registered THEN pc[r]
                      ELSE IF r \in Everys THEN "ready" ELSE "running"]
          /\ UNCHANGED done
  /\ UNCHANGED <<registered, stopped, stopping, ctxs, waiter, stop, expired, crash, history>>

\* A group stopped before it started never starts: only done is closed, and
\* the contexts and their cancel functions stay nil.
Start ==
  /\ Alive
  /\ ~started
  /\ started' = TRUE
  /\ IF stopped
     THEN /\ done' = TRUE
          /\ UNCHANGED <<drain, pc>>
     ELSE /\ drain' = "live"
          /\ pc' = [r \in Goroutines |->
                      IF r \notin registered THEN pc[r]
                      ELSE IF r \in Everys THEN "ready" ELSE "running"]
          /\ UNCHANGED done
  /\ UNCHANGED <<registered, stopped, stopping, loopCancelled, waiter, stop,
                 expired, crash, history>>

StartTwice ==
  /\ Alive
  /\ started
  /\ Die("misuse")

\* Task reports FALSE, and changes nothing, before Start and after Stop began.
Task(t) ==
  /\ Alive
  /\ pc[t] = "idle"
  /\ started
  /\ ~stopped
  /\ pc' = [pc EXCEPT ![t] = "running"]
  /\ UNCHANGED <<group, ctxs, waiter, stop, expired, crash, history>>
-----------------------------------------------------------------------------
(* The goroutines.                                                         *)

Moves(r, to) ==
  /\ pc' = [pc EXCEPT ![r] = to]
  /\ UNCHANGED <<group, ctxs, waiter, stop, expired, crash>>

\* A run begins; after Stop began it is a late one.
Begins(r) ==
  /\ Moves(r, "running")
  /\ lateRuns' = IF stopping THEN lateRuns \cup {r} ELSE lateRuns
  /\ UNCHANGED cutShort

\* logCutShort: its drain context ended before it returned.
ReportsCutShort(r) ==
  /\ cutShort' = IF drain = "cancelled" THEN cutShort \cup {r} ELSE cutShort
  /\ UNCHANGED lateRuns

\* Mutant of EveryChecks: sleep without its first select.
EveryChecksNothing(e) ==
  /\ Alive
  /\ pc[e] = "ready"
  /\ Moves(e, "waiting")
  /\ UNCHANGED history

\* sleep's first select: Stop began, or the timer is set.
EveryChecks(e) ==
  /\ Alive
  /\ pc[e] = "ready"
  /\ Moves(e, IF stopping THEN "returned" ELSE "waiting")
  /\ UNCHANGED history

\* sleep's second select: a timer that fired is taken even when stopping is
\* closed too, for select picks any ready case.
EveryFires(e) ==
  /\ Alive
  /\ pc[e] = "waiting"
  /\ Begins(e)

EveryWakes(e) ==
  /\ Alive
  /\ pc[e] = "waiting"
  /\ stopping
  /\ Moves(e, "returned")
  /\ UNCHANGED history

\* A run ends, with an error or without; with Recover, by a panic too.
EveryEnds(e) ==
  /\ Alive
  /\ pc[e] = "running"
  /\ Moves(e, "ready")
  /\ ReportsCutShort(e)

LoopEnds(l) ==
  /\ Alive
  /\ pc[l] = "running"
  /\ Moves(l, IF loopCancelled THEN "returned" ELSE "backoff")
  /\ UNCHANGED history

\* Backoff.Wait, whose timer may fire with its context ended as well.
LoopRestarts(l) ==
  /\ Alive
  /\ pc[l] = "backoff"
  /\ Begins(l)

LoopWakes(l) ==
  /\ Alive
  /\ pc[l] = "backoff"
  /\ loopCancelled
  /\ Moves(l, "returned")
  /\ UNCHANGED history

WorkerEnds(w) ==
  /\ Alive
  /\ pc[w] = "running"
  /\ Moves(w, "returned")
  /\ ReportsCutShort(w)

TaskEnds(t) ==
  /\ Alive
  /\ pc[t] = "running"
  /\ Moves(t, "returned")
  /\ ReportsCutShort(t)

\* crashOnPanic: nothing of the process survives a routine's panic.
Panics(r) ==
  /\ Alive
  /\ r \notin Recovered
  /\ pc[r] = "running"
  /\ Die("routine")
-----------------------------------------------------------------------------
(* Stop.                                                                   *)

\* Mutant of StopCall: the loops' context is not cancelled.
StopCallLeavingLoops(s) ==
  /\ Alive
  /\ stop[s] = "idle"
  /\ stop' = [stop EXCEPT ![s] = IF started THEN "waiting" ELSE "nil"]
  /\ stopped' = TRUE
  /\ IF started /\ ~stopped
     THEN /\ stopping' = TRUE
          /\ waiter' = "waiting"
     ELSE UNCHANGED <<stopping, waiter>>
  /\ UNCHANGED <<registered, started, done, ctxs, pc, expired, crash, history>>

\* The section under mu.
StopCall(s) ==
  /\ Alive
  /\ stop[s] = "idle"
  /\ stop' = [stop EXCEPT ![s] = IF started THEN "waiting" ELSE "nil"]
  /\ stopped' = TRUE
  /\ IF started /\ ~stopped
     THEN /\ stopping' = TRUE
          /\ loopCancelled' = TRUE
          /\ waiter' = "waiting"
     ELSE UNCHANGED <<stopping, loopCancelled, waiter>>
  /\ UNCHANGED <<registered, started, done, drain, pc, expired, crash, history>>

\* The goroutine of the first Stop: wg.Wait, cancelDrain, close(done).
WaiterDrains ==
  /\ Alive
  /\ waiter = "waiting"
  /\ Active = {}
  /\ waiter' = "closing"
  /\ drain' = "cancelled"
  /\ UNCHANGED <<group, loopCancelled, pc, stop, expired, crash, history>>

WaiterCloses ==
  /\ Alive
  /\ waiter = "closing"
  /\ waiter' = "gone"
  /\ done' = TRUE
  /\ UNCHANGED <<registered, started, stopped, stopping, ctxs, pc, stop, expired,
                 crash, history>>

DeadlineEnds(s) ==
  /\ Alive
  /\ ~expired[s]
  /\ expired' = [expired EXCEPT ![s] = TRUE]
  /\ UNCHANGED <<group, ctxs, pc, waiter, stop, crash, history>>

\* Stop's select: either ready case, so both may be possible at once.
StopDone(s) ==
  /\ Alive
  /\ stop[s] = "waiting"
  /\ done
  /\ stop' = [stop EXCEPT ![s] = "nil"]
  /\ UNCHANGED <<group, ctxs, pc, waiter, expired, crash, history>>

\* cancelDrain is a nil function in a group stopped before it started.
StopCuts(s) ==
  /\ Alive
  /\ stop[s] = "waiting"
  /\ expired[s]
  /\ IF drain = "nil"
     THEN Die("stop")
     ELSE /\ drain' = "cancelled"
          /\ stop' = [stop EXCEPT ![s] = "cutting"]
          /\ UNCHANGED <<group, loopCancelled, pc, waiter, expired, crash, history>>

StopCutDone(s) ==
  /\ Alive
  /\ stop[s] = "cutting"
  /\ done
  /\ stop' = [stop EXCEPT ![s] = "err"]
  /\ UNCHANGED <<group, ctxs, pc, waiter, expired, crash, history>>
-----------------------------------------------------------------------------
Owner == Start \/ StartTwice \/ (\E r \in Routines : Register(r))
               \/ (\E t \in Tasks : Task(t))

EveryStep(e) == EveryChecks(e) \/ EveryFires(e) \/ EveryWakes(e) \/ EveryEnds(e)
LoopStep(l) == LoopEnds(l) \/ LoopRestarts(l) \/ LoopWakes(l)

Goroutine ==
  \/ \E e \in Everys : EveryStep(e)
  \/ \E l \in Loops : LoopStep(l)
  \/ \E w \in Workers : WorkerEnds(w)
  \/ \E t \in Tasks : TaskEnds(t)
  \/ \E r \in Goroutines : Panics(r)

Stopping ==
  \/ WaiterDrains
  \/ WaiterCloses
  \/ \E s \in Stoppers : \/ StopCall(s) \/ DeadlineEnds(s) \/ StopDone(s)
                         \/ StopCuts(s) \/ StopCutDone(s)

Next == Owner \/ Goroutine \/ Stopping

Spec == Init /\ [][Next]_vars

\* The Go scheduler runs every goroutine that can run; timers fire; a
\* function returns once its context has ended (the contract Every, Loop and
\* Worker state), and not necessarily before; the context a server gives Stop
\* has a deadline.
Fairness ==
  /\ \A e \in Everys :
       /\ WF_vars(EveryChecks(e))
       /\ WF_vars(EveryFires(e) \/ EveryWakes(e))
       /\ WF_vars(drain = "cancelled" /\ EveryEnds(e))
  /\ \A l \in Loops :
       /\ WF_vars(LoopRestarts(l) \/ LoopWakes(l))
       /\ WF_vars(loopCancelled /\ LoopEnds(l))
  /\ \A w \in Workers : WF_vars(drain = "cancelled" /\ WorkerEnds(w))
  /\ \A t \in Tasks : WF_vars(drain = "cancelled" /\ TaskEnds(t))
  /\ WF_vars(WaiterDrains)
  /\ WF_vars(WaiterCloses)
  /\ \A s \in Stoppers :
       /\ WF_vars(DeadlineEnds(s))
       /\ WF_vars(StopDone(s))
       /\ WF_vars(StopCuts(s))
       /\ WF_vars(StopCutDone(s))

FairSpec == Spec /\ Fairness
-----------------------------------------------------------------------------
(* Properties.                                                             *)

StopReturned(s) == stop[s] \in {"nil", "err"}

\* "Stop returns only once every routine has returned, so what they use can
\* then be closed" (routine.go:232), whichever call of Stop it is and whether
\* it came before Start, beside another Stop, or after its deadline.
StopReturnsQuiescent == (\E s \in Stoppers : StopReturned(s)) => Active = {}

\* "Its context is cancelled only once Stop's own context ends"
\* (routine.go:137, 206): nothing is reported cut short, and no running
\* goroutine sees its drain context ended, unless a Stop passed its deadline.
CutShortOnlyAtDeadline ==
  (cutShort # {} \/ (drain = "cancelled" /\ Active # {}))
    => \E s \in Stoppers : expired[s] /\ stop[s] \in {"cutting", "err"}

\* "Stop starts no new run" (routine.go:113, 226) but for one: Stop can lose
\* the race against a timer that fired at the same moment, in sleep and in
\* Backoff.Wait, but at most once per routine.  A late run is never followed
\* by another.
AtMostOneLateRun ==
  [][\A r \in Routines :
       (stopping /\ pc[r] # "running" /\ pc'[r] = "running") => r \notin lateRuns]_vars

\* "Stop before Start is harmless" (routine.go:229), but for a Start after it
\* and then a Stop whose own context has ended, which calls the cancelDrain that
\* Start never set (routine.go:257).  A Stop crashes no other group: not one that
\* started before it was first stopped, and none that ever ran anything, whether
\* it still runs or has drained.
StopIsHarmless ==
  crash = "stop" =>
    /\ started /\ stopped /\ ~stopping
    /\ \A g \in Goroutines : pc[g] = "idle"
    /\ \E s \in Stoppers : stop[s] = "waiting" /\ expired[s]

\* Every call of Stop returns, unless the process dies: no order of Start,
\* tasks, restarts and deadlines leaves it waiting.
StopReturns ==
  \A s \in Stoppers : stop[s] # "idle" ~> (StopReturned(s) \/ ~Alive)

\* Refinement: the group as its owner sees it.
Contract == INSTANCE GroupContract WITH
  Resident <- Routines,
  Visitor <- Tasks,
  Caller <- Stoppers,
  phase <- IF stopped THEN "closed" ELSE IF started THEN "open" ELSE "new",
  active <- Active,
  returned <- {s \in Stoppers : StopReturned(s)}

ImplementsContract == Contract!Spec
=============================================================================
