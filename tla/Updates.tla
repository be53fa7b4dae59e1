------------------------------ MODULE Updates -------------------------------
(***************************************************************************)
(* internal/update and cmd/anfra/update.go: the cached check for a newer   *)
(* release (~/.anfra/update-check.json) and the binary `anfra update`      *)
(* replaces.  Background checks, updates and a server look up the latest   *)
(* release and rewrite the cache with no lock, each whole: it is read,     *)
(* changed, truncated and written.                                         *)
(*                                                                         *)
(* A time is what it is against its own limit: never set, recent, old, or  *)
(* in the future, as a clock moved back leaves it.  No process is between  *)
(* a read of the cache and its write for as long as ten minutes.           *)
(***************************************************************************)
EXTENDS Naturals

CONSTANTS
    Slots,      \* the slots of the processes: background checks and updates
    Newest,     \* the newest release there will be; they are numbered from 1
    Automatic,  \* ANFRA_AUTO_UPDATE
    MaxEvents   \* bounds the releases, withdrawals, kills, failed writes and moves of the clock

ASSUME NewestAssumption == Newest \in Nat \ {0}

Serve == "serve"
Actors == Slots \cup {Serve}
Times == {"never", "recent", "old", "future"}
Torn  == [torn |-> TRUE]

VARIABLES
    cache,      \* update-check.json
    installed,  \* the release the binary on disk is
    released,   \* the release GitHub says is the latest
    pc,         \* where each process is
    task,       \* what it is there for
    rec,        \* what it is about to write
    hand,       \* what it read of the cache it is to write
    found,      \* the release it looked up
    ver,        \* the release it runs
    announced,  \* the release the server announced last
    told,       \* those it has announced
    back,       \* whether it announced an older one after a newer
    events

world == <<installed, released>>
server == <<announced, told, back>>
updateVars == <<cache, world, pc, task, rec, hand, found, ver, server, events>>

NoCache == [checked |-> "never", failed |-> "never", skillsAt |-> "never", latest |-> 0]

\* readCache, cached: a file that is not whole is none.
Cache == IF cache = Torn THEN NoCache ELSE cache

\* A bug to catch: a failed check is waited for as long as it is known of.
WithinEver(time) == time # "never"

\* within
Within(time) == time = "recent"

\* Stale
Stale == /\ ~Within(Cache.failed)
         /\ ~Within(Cache.checked) \/ ~Within(Cache.skillsAt)

\* What Check takes of the cache without asking: it does not mind the future.
Fresh == Cache.latest # 0 /\ Cache.checked \in {"recent", "future"}

\* IsNewer, of a release over the one a process runs
Newer(release, running) == release > running

UpdatesInit ==
    /\ cache = NoCache
    /\ installed = 1 /\ released = 1
    /\ pc = [p \in Actors |-> "idle"]
    /\ task = [p \in Actors |-> "none"]
    /\ rec = [p \in Actors |-> "none"]
    /\ hand = [p \in Actors |-> NoCache]
    /\ found = [p \in Actors |-> 0]
    /\ ver = [p \in Actors |-> 1]
    /\ announced = 0 /\ told = {} /\ back = FALSE
    /\ events = 0

Goto(p, at) == pc' = [pc EXCEPT ![p] = at]

\* What a process is to write: the cache is read first.
ToRecord(p, what) == rec' = [rec EXCEPT ![p] = what] /\ Goto(p, "read")

Starts(p, what) == /\ pc[p] = "idle"
                   /\ task' = [task EXCEPT ![p] = what]
                   /\ ver' = [ver EXCEPT ![p] = installed]
                   /\ Goto(p, "look")
                   /\ UNCHANGED <<cache, world, rec, hand, found, server, events>>

\* What ended holds nothing.
Rest(p) == /\ Goto(p, "idle")
           /\ task' = [task EXCEPT ![p] = "none"]
           /\ rec' = [rec EXCEPT ![p] = "none"]
           /\ found' = [found EXCEPT ![p] = 0]
           /\ hand' = [hand EXCEPT ![p] = NoCache]
           /\ ver' = [ver EXCEPT ![p] = 1]

-----------------------------------------------------------------------------
(* Commands and what they spawn. *)

\* After any command: a check, when the cached one is stale.
SpawnCheck(p) == Stale /\ Starts(p, "check")

\* After any command, when updates are automatic and a newer release is known.
AutoUpdate(p) == Automatic /\ Newer(Cache.latest, installed) /\ Starts(p, "update")

\* A person runs `anfra update`, or `anfra update check`.
Update(p) == Starts(p, "update")

-----------------------------------------------------------------------------
(* Looking up the latest release, and recording it. *)

\* Latest
Look(p) ==
    /\ pc[p] = "look"
    /\ found' = [found EXCEPT ![p] = released]
    /\ ToRecord(p, "release")
    /\ UNCHANGED <<cache, world, task, hand, ver, server, events>>

\* Only the background check records that it failed.
LookFails(p) ==
    /\ pc[p] = "look"
    /\ IF task[p] = "check" THEN ToRecord(p, "failure") ELSE Goto(p, "end") /\ UNCHANGED rec
    /\ UNCHANGED <<cache, world, task, hand, found, ver, server, events>>

\* LatestSkills: a failure is recorded too, as unknown.
LookSkills(p) ==
    /\ pc[p] = "look_skills"
    /\ ToRecord(p, "skills")
    /\ UNCHANGED <<cache, world, task, hand, found, ver, server, events>>

Read(p) ==
    /\ pc[p] = "read"
    /\ hand' = [hand EXCEPT ![p] = Cache]
    /\ Goto(p, "open")
    /\ UNCHANGED <<cache, world, task, rec, found, ver, server, events>>

\* RecordCheck, Refresh's failure, RefreshSkills
Changed(p) ==
    CASE rec[p] = "release" -> [hand[p] EXCEPT !.checked = "recent", !.latest = found[p], !.failed = "never"]
      [] rec[p] = "failure" -> [hand[p] EXCEPT !.failed = "recent"]
      [] rec[p] = "skills"  -> [hand[p] EXCEPT !.skillsAt = "recent"]

After(p) ==
    CASE p = Serve         -> "announce"
      [] rec[p] # "skills" -> "look_skills"
      [] OTHER             -> IF task[p] = "update" THEN "apply" ELSE "end"

Recorded(p) == /\ Goto(p, After(p))
               /\ rec' = [rec EXCEPT ![p] = "none"]
               /\ hand' = [hand EXCEPT ![p] = NoCache]

\* os.WriteFile: the file is truncated, then written.
Truncate(p) ==
    /\ pc[p] = "open"
    /\ cache' = Torn
    /\ Goto(p, "put")
    /\ UNCHANGED <<world, task, rec, hand, found, ver, server, events>>

Put(p) ==
    /\ pc[p] = "put"
    /\ cache' = Changed(p)
    /\ Recorded(p)
    /\ UNCHANGED <<world, task, found, ver, server, events>>

\* A write that fails is not said, and changes nothing of what follows.
WriteFails(p) ==
    /\ pc[p] = "open" /\ events < MaxEvents
    /\ events' = events + 1
    /\ Recorded(p)
    /\ UNCHANGED <<cache, world, task, found, ver, server>>

End(p) ==
    /\ pc[p] = "end"
    /\ Rest(p)
    /\ UNCHANGED <<cache, world, server, events>>

-----------------------------------------------------------------------------
(* Installing it. *)

\* What runUpdate installs: what it looked up, when newer than what runs.
Worth(p) == Newer(found[p], ver[p])

Apply(p) ==
    /\ pc[p] = "apply" /\ Worth(p)
    /\ installed' = found[p]
    /\ Goto(p, "end")
    /\ UNCHANGED <<cache, released, task, rec, hand, found, ver, server, events>>

\* It is not newer, only checked for, or not downloaded or put in place.
NotApplied(p) ==
    /\ pc[p] = "apply"
    /\ Goto(p, "end")
    /\ UNCHANGED <<cache, world, task, rec, hand, found, ver, server, events>>

-----------------------------------------------------------------------------
(* The server's hourly check: checkUpdates, Check. *)

Check ==
    /\ pc[Serve] = "idle"
    /\ IF Fresh THEN found' = [found EXCEPT ![Serve] = Cache.latest] /\ Goto(Serve, "announce")
                ELSE Goto(Serve, "look") /\ UNCHANGED found
    /\ UNCHANGED <<cache, world, task, rec, hand, ver, server, events>>

\* What it announces: newer than what runs, and not the one announced last.
News(release) == Newer(release, ver[Serve]) /\ release # announced

Announce ==
    /\ pc[Serve] = "announce"
    /\ IF News(found[Serve])
       THEN /\ announced' = found[Serve]
            /\ told' = told \cup {found[Serve]}
            /\ back' = (back \/ \E v \in told : found[Serve] < v)
       ELSE UNCHANGED server
    /\ Rest(Serve)
    /\ UNCHANGED <<cache, world, events>>

-----------------------------------------------------------------------------
(* What is not anfra's: releases, the clock, and kills. *)

Moves == /\ events < MaxEvents
         /\ events' = events + 1
         /\ UNCHANGED <<cache, installed, pc, task, rec, hand, found, ver, server>>

Release  == Moves /\ released < Newest /\ released' = released + 1
Withdraw == Moves /\ released > 1 /\ released' = released - 1

\* Times pass by their limits, or are moved, while no process holds any.
TimesTo(now) ==
    /\ \A p \in Actors : pc[p] \notin {"open", "put"}
    /\ cache # Torn
    /\ cache' = [f \in DOMAIN cache |-> IF f = "latest" THEN cache[f] ELSE now[cache[f]]]
    /\ UNCHANGED <<world, pc, task, rec, hand, found, ver, server>>

Aged   == [time \in Times |-> IF time = "recent" THEN "old" ELSE time]
Ahead  == [time \in Times |-> IF time = "never" THEN "never" ELSE "future"]
Caught == [time \in Times |-> IF time = "future" THEN "recent" ELSE time]

Hour == TimesTo(Aged) /\ cache' # cache /\ UNCHANGED events

TenMinutes == /\ cache # Torn /\ Within(cache.failed)
              /\ \A p \in Actors : pc[p] \notin {"open", "put"}
              /\ cache' = [cache EXCEPT !.failed = "old"]
              /\ UNCHANGED <<world, pc, task, rec, hand, found, ver, server, events>>

\* A clock moved back leaves every time in the future, until it catches up.
MoveBack == TimesTo(Ahead) /\ events < MaxEvents /\ events' = events + 1
CatchUp  == TimesTo(Caught) /\ cache' # cache /\ UNCHANGED events

Kill(p) == /\ pc[p] # "idle" /\ events < MaxEvents
           /\ events' = events + 1
           /\ Rest(p)
           /\ UNCHANGED <<cache, world, server>>

-----------------------------------------------------------------------------
Goes(p) == \/ Look(p) \/ LookFails(p) \/ LookSkills(p) \/ Read(p) \/ Truncate(p) \/ Put(p)
           \/ Apply(p) \/ NotApplied(p) \/ End(p)
Passes == Hour \/ TenMinutes \/ CatchUp

UpdatesNext ==
    \/ \E p \in Slots : SpawnCheck(p) \/ AutoUpdate(p) \/ Update(p) \/ Kill(p)
    \/ \E p \in Actors : Goes(p) \/ WriteFails(p)
    \/ Check \/ Announce
    \/ Release \/ Withdraw
    \/ Passes \/ MoveBack

-----------------------------------------------------------------------------
(* What is promised. *)

\* A server announces a release once (update.go:219-221), unless the latest it
\* saw went back and forth: a release was withdrawn, or a slower check wrote an
\* older one over it.
AnnouncedOnce ==
    [][\A v \in told : (Announce /\ found[Serve] = v /\ News(v)) => back \/ \E w \in told : v < w]_updateVars

\* While anfra is in use, the cache says what the latest release is again and
\* again, whatever was torn, lost, written over, failed or moved back.
KnowsLatest == []<>(Cache.latest = released)
=============================================================================
