------------------------------ MODULE Exports ------------------------------
(***************************************************************************)
(* anfra's own export store (internal/exports/exports.go): the files every *)
(* anfra process of a user keeps in one folder, the links each process     *)
(* keeps in memory, and the sweeps that remove what no link can reach.     *)
(*                                                                         *)
(* Time is kept twice, as Go keeps it: the age of a file is judged by the  *)
(* wall clock, the life of a link by the monotonic one.                    *)
(***************************************************************************)
EXTENDS Naturals, FiniteSets

CONSTANTS Servers,   \* the processes of `anfra serve`
          Clis,      \* the one-shot runs of `anfra query export`
          Exports,   \* the exports' tokens
          TTL,       \* exportLinkLife
          Timeout,   \* the timeout of query.export
          MaxTime,   \* bound: the last moment of either clock
          MaxJumps   \* bound: how often the wall clock jumps

Procs == Servers \cup Clis
NoOne == "none"

ASSUME ExportsAssumption ==
  /\ Servers \cap Clis = {} /\ NoOne \notin Procs
  /\ {TTL, Timeout, MaxTime, MaxJumps} \subseteq Nat
  /\ Timeout < TTL

VARIABLES
  mono,      \* the monotonic clock
  wall,      \* the wall clock
  jumps,     \* how often the wall clock jumped
  proc,      \* how each process fares
  toClose,   \* the tokens Files.Close still has to remove
  swept,     \* whether Files.swept is done
  sweep,     \* the sweeps under way
  ex,        \* how far each export is
  owner,     \* the process that makes it
  began,     \* when its command began, by mono
  written,   \* whether its CSV writer has been given a record
  file,      \* whether its file is in the folder
  mtime,     \* its file's modification time, by wall
  linked,    \* Files.links, of all processes: a token is one process's
  until,     \* link.expiresAt, by mono
  jumpedIn,  \* history: what the export was at when the wall clock jumped;
             \* "writing" as well when a sweep it began in was ahead of it
  lostTo     \* history: the process that removed its file for its age

clocks == <<mono, wall, jumps>>
procs == <<proc, toClose, swept>>
command == <<ex, owner, began, written>>
disk == <<file, mtime>>
links == <<linked, until>>
history == <<jumpedIn, lostTo>>
vars == <<clocks, procs, sweep, command, disk, links, history>>

\* The first export of a process sweeps, and a server's routine does.
Sweepers == (Procs \X {"first"}) \cup (Servers \X {"periodic"})

NoSweep == [at |-> "idle", now |-> 0, todo |-> {}, cur |-> NoOne]

BeingWritten(e) == ex[e] \in {"writing", "flushed"}

\* A link that was handed out and has not expired.  The file:// link a CLI run
\* printed outlives it; a server's ends with it.
Promised(e) == ex[e] = "finished" /\ mono <= until[e]

\* A server that closes its files goes on with the requests under way.
Running(p) == proc[p] \in {"up", "closing"}

LinksOf(p) == {e \in linked : owner[e] = p}

TypeOK ==
  /\ mono \in 0..MaxTime
  /\ wall \in 0..MaxTime
  /\ jumps \in 0..MaxJumps
  /\ proc \in [Procs -> {"up", "closing", "stopped", "died"}]
  /\ toClose \in [Procs -> SUBSET Exports]
  /\ swept \in [Procs -> BOOLEAN]
  /\ sweep \in [Sweepers -> [at : {"idle", "forget", "unlink", "list", "judge", "removeall"},
                             now : 0..MaxTime,
                             todo : SUBSET Exports,
                             cur : Exports \cup {NoOne}]]
  /\ ex \in [Exports -> {"none", "preparing", "writing", "flushed", "finished", "gone"}]
  /\ owner \in [Exports -> Procs \cup {NoOne}]
  /\ began \in [Exports -> 0..MaxTime]
  /\ written \in [Exports -> BOOLEAN]
  /\ file \in [Exports -> BOOLEAN]
  /\ mtime \in [Exports -> 0..MaxTime]
  /\ linked \in SUBSET Exports
  /\ until \in [Exports -> 0..(MaxTime + TTL)]
  /\ jumpedIn \in [Exports -> {"nothing", "writing", "life"}]
  /\ lostTo \in [Exports -> Procs \cup {NoOne}]
  /\ \A p \in Procs : ~Running(p) => LinksOf(p) \cup toClose[p] = {}

Init ==
  /\ mono = 0
  /\ wall = 0
  /\ jumps = 0
  /\ proc = [p \in Procs |-> "up"]
  /\ toClose = [p \in Procs |-> {}]
  /\ swept = [p \in Procs |-> FALSE]
  /\ sweep = [s \in Sweepers |-> NoSweep]
  /\ ex = [e \in Exports |-> "none"]
  /\ owner = [e \in Exports |-> NoOne]
  /\ began = [e \in Exports |-> 0]
  /\ written = [e \in Exports |-> FALSE]
  /\ file = [e \in Exports |-> FALSE]
  /\ mtime = [e \in Exports |-> 0]
  /\ linked = {}
  /\ until = [e \in Exports |-> 0]
  /\ jumpedIn = [e \in Exports |-> "nothing"]
  /\ lostTo = [e \in Exports |-> NoOne]
-----------------------------------------------------------------------------
(* Sweep.                                                                  *)

\* A sweep keeps the time it was started with for all it judges.
SweepBegins(s) ==
  sweep' = [sweep EXCEPT ![s] =
    [at |-> "forget", now |-> wall, cur |-> NoOne,
     todo |-> {e \in LinksOf(s[1]) : mono > until[e]}]]

PeriodicSweep(s) ==
  /\ s[2] = "periodic"
  /\ proc[s[1]] = "up"
  /\ sweep[s].at = "idle"
  /\ SweepBegins(s)
  /\ UNCHANGED <<clocks, procs, command, disk, links, history>>

\* remove, its half under Files.mu, of one expired link after another; a link
\* another sweep has removed meanwhile is passed over.
Forget(s) ==
  /\ sweep[s].at = "forget"
  /\ \E e \in sweep[s].todo :
       /\ linked' = linked \ {e}
       /\ sweep' = [sweep EXCEPT ![s].todo = @ \ {e},
                                 ![s].cur = e,
                                 ![s].at = IF e \in linked THEN "unlink" ELSE @]
  /\ UNCHANGED <<clocks, procs, command, disk, until, history>>

Unlink(s) ==
  /\ sweep[s].at = "unlink"
  /\ file' = [file EXCEPT ![sweep[s].cur] = FALSE]
  /\ sweep' = [sweep EXCEPT ![s].at = "forget"]
  /\ UNCHANGED <<clocks, procs, command, mtime, links, history>>

List(s) ==
  /\ sweep[s].at = "forget"
  /\ sweep[s].todo = {}
  /\ sweep' = [sweep EXCEPT ![s].at = "judge",
                            ![s].cur = NoOne,
                            ![s].todo = {e \in Exports : file[e]}]
  /\ UNCHANGED <<clocks, procs, command, disk, links, history>>

Old(e, now) == mtime[e] + TTL < now

\* Mutant of Judge: a link of the process itself does not keep its file.
JudgeByAge(s) ==
  /\ sweep[s].at = "judge"
  /\ \E e \in sweep[s].todo :
       sweep' = [sweep EXCEPT ![s].todo = @ \ {e},
                              ![s].cur = e,
                              ![s].at = IF file[e] /\ Old(e, sweep[s].now)
                                        THEN "removeall" ELSE @]
  /\ UNCHANGED <<clocks, procs, command, disk, links, history>>

\* Mutant of Judge: every other process's file is left to it.
JudgeOwn(s) ==
  /\ sweep[s].at = "judge"
  /\ \E e \in sweep[s].todo :
       sweep' = [sweep EXCEPT ![s].todo = @ \ {e},
                              ![s].cur = e,
                              ![s].at = IF file[e] /\ owner[e] = s[1] /\ e \notin linked
                                           /\ Old(e, sweep[s].now)
                                        THEN "removeall" ELSE @]
  /\ UNCHANGED <<clocks, procs, command, disk, links, history>>

\* One entry judged: whether it is linked here, then its age.  (The two reads
\* are one step: the age is compared with the time the sweep began with.)
Judge(s) ==
  /\ sweep[s].at = "judge"
  /\ \E e \in sweep[s].todo :
       sweep' = [sweep EXCEPT ![s].todo = @ \ {e},
                              ![s].cur = e,
                              ![s].at = IF file[e] /\ e \notin LinksOf(s[1])
                                           /\ Old(e, sweep[s].now)
                                        THEN "removeall" ELSE @]
  /\ UNCHANGED <<clocks, procs, command, disk, links, history>>

RemoveAll(s) ==
  LET e == sweep[s].cur
  IN  /\ sweep[s].at = "removeall"
      /\ file' = [file EXCEPT ![e] = FALSE]
      /\ lostTo' = [lostTo EXCEPT ![e] = IF file[e] THEN s[1] ELSE @]
      /\ sweep' = [sweep EXCEPT ![s].at = "judge"]
      /\ UNCHANGED <<clocks, procs, command, mtime, links, jumpedIn>>

SweepEnds(s) ==
  /\ sweep[s].at = "judge"
  /\ sweep[s].todo = {}
  /\ sweep' = [sweep EXCEPT ![s] = NoSweep]
  /\ swept' = IF s[2] = "first" THEN [swept EXCEPT ![s[1]] = TRUE] ELSE swept
  /\ UNCHANGED <<clocks, proc, toClose, command, disk, links, history>>

SweepStep(s) ==
  Forget(s) \/ Unlink(s) \/ List(s) \/ Judge(s) \/ RemoveAll(s) \/ SweepEnds(s)
-----------------------------------------------------------------------------
(* An export: writeCSV, from Create to Done or Abort.                      *)

\* prepare: the first export of a process starts its sweep, and every export
\* that comes meanwhile waits for it (sync.Once).
Begin(p, e) ==
  /\ proc[p] = "up"
  /\ ex[e] = "none"
  /\ ex' = [ex EXCEPT ![e] = "preparing"]
  /\ owner' = [owner EXCEPT ![e] = p]
  /\ began' = [began EXCEPT ![e] = mono]
  /\ IF swept[p] \/ sweep[<<p, "first">>].at # "idle"
     THEN UNCHANGED sweep
     ELSE SweepBegins(<<p, "first">>)
  /\ UNCHANGED <<clocks, procs, written, disk, links, history>>

Create(e) ==
  /\ ex[e] = "preparing"
  /\ swept[owner[e]]
  /\ \/ /\ ex' = [ex EXCEPT ![e] = "writing"]
        /\ file' = [file EXCEPT ![e] = TRUE]
        /\ mtime' = [mtime EXCEPT ![e] = wall]
        /\ jumpedIn' = [jumpedIn EXCEPT ![e] =
                          IF \E s \in Sweepers : sweep[s].now > wall THEN "writing" ELSE @]
     \/ /\ ex' = [ex EXCEPT ![e] = "gone"]
        /\ UNCHANGED <<disk, jumpedIn>>
  /\ UNCHANGED <<clocks, procs, sweep, owner, began, written, links, lostTo>>

\* The byte-order mark goes to the file as the result's header arrives.
WriteBOM(e) ==
  /\ ex[e] = "writing"
  /\ ~written[e]
  /\ mtime' = [mtime EXCEPT ![e] = wall]
  /\ UNCHANGED <<clocks, procs, sweep, command, file, links, history>>

\* The header row or a row goes to the CSV writer's buffer, and on to the file
\* when the buffer is full; what came last stays in the buffer.
WriteRecord(e) ==
  /\ ex[e] = "writing"
  /\ written' = [written EXCEPT ![e] = TRUE]
  /\ \/ mtime' = [mtime EXCEPT ![e] = wall]
     \/ UNCHANGED mtime
  /\ UNCHANGED <<clocks, procs, sweep, ex, owner, began, file, links, history>>

\* The flush writes what is buffered: nothing, when no record was written.
Flush(e) ==
  /\ ex[e] = "writing"
  /\ ex' = [ex EXCEPT ![e] = "flushed"]
  /\ mtime' = IF written[e] THEN [mtime EXCEPT ![e] = wall] ELSE mtime
  /\ UNCHANGED <<clocks, procs, sweep, owner, began, written, file, links, history>>

\* The query or a write failed, or the timeout passed: Abort removes the file.
Abort(e) ==
  /\ ex[e] = "writing"
  /\ ex' = [ex EXCEPT ![e] = "gone"]
  /\ file' = [file EXCEPT ![e] = FALSE]
  /\ UNCHANGED <<clocks, procs, sweep, owner, began, written, mtime, links, history>>

Done(e) ==
  /\ ex[e] = "flushed"
  /\ ex' = [ex EXCEPT ![e] = "finished"]
  /\ linked' = linked \cup {e}
  /\ until' = [until EXCEPT ![e] = mono + TTL]
  /\ UNCHANGED <<clocks, procs, sweep, owner, began, written, disk, history>>

\* Done, when the file does not close.
DoneFails(e) ==
  /\ ex[e] = "flushed"
  /\ ex' = [ex EXCEPT ![e] = "gone"]
  /\ file' = [file EXCEPT ![e] = FALSE]
  /\ UNCHANGED <<clocks, procs, sweep, owner, began, written, mtime, links, history>>

\* The CLI writes its own export out and removes the file (download); with
\* --link, or when the copy fails, it leaves it.
Download(e) ==
  /\ ex[e] = "finished"
  /\ owner[e] \in Clis
  /\ proc[owner[e]] = "up"
  /\ ex' = [ex EXCEPT ![e] = "gone"]
  /\ file' = [file EXCEPT ![e] = FALSE]
  /\ UNCHANGED <<clocks, procs, sweep, owner, began, written, mtime, links, history>>

ExportStep(e) ==
  \/ Create(e) \/ WriteBOM(e) \/ WriteRecord(e) \/ Flush(e)
  \/ Abort(e) \/ Done(e) \/ DoneFails(e) \/ Download(e)
-----------------------------------------------------------------------------
(* The end of a process.                                                   *)

\* A server stops: the requests under way go on, and Files.Close, once the
\* routine's sweeps have stopped or their 5 s are over, lists its links.
Close(p) ==
  /\ p \in Servers
  /\ proc[p] = "up"
  /\ proc' = [proc EXCEPT ![p] = "closing"]
  /\ toClose' = [toClose EXCEPT ![p] = LinksOf(p)]
  /\ UNCHANGED <<clocks, swept, sweep, command, disk, links, history>>

CloseOne(p) ==
  /\ proc[p] = "closing"
  /\ \E e \in toClose[p] :
       /\ toClose' = [toClose EXCEPT ![p] = @ \ {e}]
       /\ linked' = linked \ {e}
       /\ file' = [file EXCEPT ![e] = IF e \in linked THEN FALSE ELSE @]
       /\ ex' = [ex EXCEPT ![e] = "gone"]
  /\ UNCHANGED <<clocks, proc, swept, sweep, owner, began, written, mtime, until,
                 history>>

\* What a process leaves as it ends: its sweeps and exports stop where they are.
Ends(p, how) ==
  /\ proc' = [proc EXCEPT ![p] = how]
  /\ toClose' = [toClose EXCEPT ![p] = {}]
  /\ sweep' = [s \in Sweepers |-> IF s[1] = p THEN NoSweep ELSE sweep[s]]
  /\ ex' = [e \in Exports |->
              IF owner[e] # p THEN ex[e]
              ELSE IF ex[e] = "finished" /\ p \in Clis THEN "finished" ELSE "gone"]
  /\ linked' = linked \ LinksOf(p)
  /\ UNCHANGED <<clocks, swept, owner, began, written, disk, until, history>>

Stop(p) ==
  /\ proc[p] = "closing"
  /\ toClose[p] = {}
  /\ Ends(p, "stopped")

\* A CLI run returns, or a process is killed.
Die(p) ==
  /\ Running(p)
  /\ Ends(p, "died")
-----------------------------------------------------------------------------
(* Time.                                                                   *)

\* No export outlives its command's timeout: it is aborted first.  Done follows
\* the flush within a moment, far below the unit of the clocks.
InTime(e) ==
  /\ ex[e] \in {"preparing", "writing"} => mono - began[e] < Timeout
  /\ ex[e] # "flushed"

Tick ==
  /\ mono < MaxTime
  /\ wall < MaxTime
  /\ \A e \in Exports : InTime(e)
  /\ mono' = mono + 1
  /\ wall' = wall + 1
  /\ UNCHANGED <<jumps, procs, sweep, command, disk, links, history>>

\* The clock is set, or the machine sleeps while the monotonic clock stands.
Jump ==
  /\ jumps < MaxJumps
  /\ jumps' = jumps + 1
  /\ wall' \in (0..MaxTime) \ {wall}
  /\ jumpedIn' = [e \in Exports |->
                    IF BeingWritten(e) THEN "writing"
                    ELSE IF ex[e] = "finished" /\ jumpedIn[e] = "nothing" THEN "life"
                    ELSE jumpedIn[e]]
  /\ UNCHANGED <<mono, procs, sweep, command, disk, links, lostTo>>

Next ==
  \/ \E s \in Sweepers : PeriodicSweep(s) \/ SweepStep(s)
  \/ \E p \in Procs :
       \/ \E e \in Exports : Begin(p, e)
       \/ Close(p) \/ CloseOne(p) \/ Stop(p) \/ Die(p)
  \/ \E e \in Exports : ExportStep(e)
  \/ Tick
  \/ Jump

Spec == Init /\ [][Next]_vars

\* A server sweeps again and again (routine.Every) and no sweep waits for
\* anything but the disk.
FairSpec == Spec /\ \A s \in Sweepers : WF_vars(PeriodicSweep(s)) /\ WF_vars(SweepStep(s))
-----------------------------------------------------------------------------
(* Properties.                                                             *)

\* The only ways to lose a file that is being written, or that a live link
\* names (exports.go:69-76): the wall clock jumped while it was being written,
\* or back during a sweep it was begun in; or another process, which judges by
\* age alone, swept after such a jump, or found a file Done wrote nothing to.
\* In particular no jump takes a linked file from the process that linked it,
\* and without jumps no export loses its file before it is finished.
LostOnlySo ==
  \A e \in Exports :
    BeingWritten(e) \/ Promised(e) =>
      \/ file[e]
      \/ jumpedIn[e] = "writing"
      \/ /\ lostTo[e] \notin {NoOne, owner[e]}
         /\ jumpedIn[e] = "life" \/ (Promised(e) /\ ~written[e])

\* "A sweep removes what no link can reach any more" (exports.go:69): while a
\* server is up, a file past its life that nothing writes and no live link names
\* does not stay, whoever left it, unless the clock is set back before its time.
StaleFilesGo ==
  \A e \in Exports, p \in Servers :
    (/\ file[e]
     /\ ~BeingWritten(e) /\ ~Promised(e)
     /\ Old(e, wall)
     /\ proc[p] = "up")
      ~> (~file[e] \/ ~Old(e, wall) \/ proc[p] # "up")

=============================================================================
