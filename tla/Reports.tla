------------------------------ MODULE Reports ------------------------------
(***************************************************************************)
(* How many of a Data App's reports from the browser reach anfra.log,      *)
(* internal/appserve/log.go's limiter: a window of a minute by path, the   *)
(* sweep of those whose minute is over, and the timers that tell what a    *)
(* window dropped.  Time goes in ticks, Minute of them to the minute; a    *)
(* window is known by its number, as by its pointer in the code.           *)
(***************************************************************************)
EXTENDS Integers, Sequences, FiniteSets

CONSTANTS
  Paths,      \* the Data Apps' paths, as the page names them
  PerMinute,  \* reportsPerMinute: 300
  Minute,     \* ticks a minute
  Horizon,    \* bound: the ticks there are; no report is made in the last minute
  MaxReports  \* bound: the reports of a path in a tick

ASSUME ReportsConstants == {PerMinute, Minute} \subseteq Nat \ {0} /\ {Horizon, MaxReports} \subseteq Nat

VARIABLES
  clock,     \* the time
  lastSweep, \* limiter.lastSweep
  wins,      \* every window so far: [path, start, count, dropped, timed]
  current,   \* limiter.windows: by path, its window's number, 0 for none
  timers,    \* the windows whose timer is to run
  logged,    \* history: by path, the reports logged in the last minute: [window, nth, at], the nth of its window
  asked,     \* history: by path, the reports of this tick
  over,      \* history: by path, the reports dropped
  told       \* history: by path, the drops told

reportVars == <<clock, lastSweep, wins, current, timers, logged, asked, over, told>>

ReportsInit ==
  /\ clock = 0 /\ lastSweep = 0 /\ wins = <<>> /\ current = [p \in Paths |-> 0] /\ timers = {}
  /\ logged = [p \in Paths |-> {}]
  /\ asked = [p \in Paths |-> 0] /\ over = asked /\ told = asked

Expired(w) == clock - wins[w].start >= Minute

\* The windows of ws are told of and forgotten, and tell's count starts over.
DropsOf(ws, p) == LET of == {w \in ws : wins[w].path = p} IN IF of = {} THEN 0 ELSE wins[CHOOSE w \in of : TRUE].dropped
Tell(ws) == told' = [p \in Paths |-> told[p] + DropsOf(ws, p)]
Reset(ws) == ws
After(ws) == [w \in DOMAIN wins |-> IF w \in Reset(ws) THEN [wins[w] EXCEPT !.dropped = 0] ELSE wins[w]]

\* What allow settles first: at most once a minute every window whose minute is
\* over, else the path's own.
Settled(p) ==
  {w \in {current[q] : q \in (IF clock - lastSweep >= Minute THEN Paths ELSE {p})} \ {0} : Expired(w)}

Full(n) == n >= PerMinute

\* allow: the report of p is logged, or is over its window's limit and dropped,
\* the first such setting the window's timer.
NoTimer(w) == {} \* mutant: a window's drops wait for a later report
Timer(w) == {w}
Allow(p) ==
  LET gone == Settled(p)
      new == current[p] = 0 \/ current[p] \in gone
      w == IF new THEN Len(wins) + 1 ELSE current[p]
      then == IF new THEN Append(After(gone), [path |-> p, start |-> clock, count |-> 0, dropped |-> 0, timed |-> FALSE]) ELSE After(gone)
      full == Full(then[w].count)
  IN
  /\ asked[p] < MaxReports /\ clock + Minute <= Horizon /\ asked' = [asked EXCEPT ![p] = @ + 1]
  /\ lastSweep' = IF clock - lastSweep >= Minute THEN clock ELSE lastSweep
  /\ current' = [q \in Paths |-> IF q = p THEN w ELSE IF current[q] \in gone THEN 0 ELSE current[q]]
  /\ wins' = IF full THEN [then EXCEPT ![w].dropped = @ + 1, ![w].timed = TRUE] ELSE [then EXCEPT ![w].count = @ + 1]
  /\ timers' = IF full /\ ~then[w].timed THEN timers \cup Timer(w) ELSE timers
  /\ over' = IF full THEN [over EXCEPT ![p] = @ + 1] ELSE over
  /\ logged' = IF full THEN logged ELSE [logged EXCEPT ![p] = @ \cup {[window |-> w, nth |-> then[w].count + 1, at |-> clock]}]
  /\ Tell(gone) /\ UNCHANGED clock

\* A window's timer, once its minute is over: what it dropped is told, and it is
\* forgotten, unless a later report did either.
FlushWindow(w) ==
  /\ w \in timers /\ Expired(w) /\ timers' = timers \ {w}
  /\ Tell({w}) /\ wins' = After({w})
  /\ current' = [p \in Paths |-> IF current[p] = w THEN 0 ELSE current[p]]
  /\ UNCHANGED <<clock, lastSweep, logged, asked, over>>

Tick ==
  /\ clock < Horizon /\ clock' = clock + 1 /\ asked' = [p \in Paths |-> 0]
  /\ logged' = [p \in Paths |-> {r \in logged[p] : clock' - r.at < Minute}]
  /\ UNCHANGED <<lastSweep, wins, current, timers, over, told>>

ReportsNext == Tick \/ (\E p \in Paths : Allow(p)) \/ (\E w \in DOMAIN wins : FlushWindow(w))
ReportsSpec == ReportsInit /\ [][ReportsNext]_reportVars

-----------------------------------------------------------------------------
\* A Data App's log has at most the limit of a window, and so in any minute at
\* most two windows' worth.
RateKept == \A p \in Paths : Cardinality(logged[p]) < 2 * PerMinute

\* What is dropped is told, each drop once, whether or not its Data App reports
\* again: a drop not told yet is of a window whose timer is to run.
ToBeTold(p) == UNION {{w} \X (1 .. wins[w].dropped) : w \in {v \in timers : wins[v].path = p}}
DropsAreTold == \A p \in Paths : over[p] = told[p] + Cardinality(ToBeTold(p))

\* Both: a report is logged, within the limit, or told to have been dropped.
ReportsKept == RateKept /\ DropsAreTold
=============================================================================
