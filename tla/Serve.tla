------------------------------- MODULE Serve -------------------------------
(***************************************************************************)
(* The `anfra serve` processes of one repo and the CLI calls that look for *)
(* them (cmd/anfra/serve.go, runtime.go, commands.go).  A server records   *)
(* itself in the file serve.json, through the file serve.json.tmp; whoever *)
(* looks for a server reads serve.json and asks the server it names.  The  *)
(* two files are names of inodes: a server that still holds serve.json.tmp *)
(* open writes to serve.json once another has renamed it.  Every server    *)
(* has an address of its own, and is launched at most once.  Its listener  *)
(* does not fail while it serves (srv.Serve's error, serve.go:206).        *)
(***************************************************************************)
EXTENDS Naturals, FiniteSets

CONSTANTS Servers,     \* the processes `anfra serve`, each an instance id
          Calls,       \* the CLI's runs of a command (invoke)
          MaxCrashes,  \* how many servers may be killed
          MaxSlow      \* how many times /health may answer too late

Torn == "torn"        \* an inode that does not hold one whole record
NoFile == "no file"   \* a name that is not in the directory
Nobody == "nobody"    \* no server

ASSUME ServeAssumption ==
  /\ MaxCrashes \in Nat
  /\ MaxSlow \in Nat
  /\ {Torn, NoFile, Nobody} \cap Servers = {}
  /\ Servers \cap Calls = {}

VARIABLES
  pc,       \* where each server's runServe is
  told,     \* whether each server's context has ended: a signal, or idle
  content,  \* what each inode holds; an inode is named after who created it
  fd,       \* the inode each server has open in os.WriteFile
  tmp, rt,  \* the inodes of serve.json.tmp and serve.json
  drain,    \* the goroutine that calls srv.Shutdown: "none", "on" or "over"
  seen,     \* the server that each reader of serve.json read in it
  call,     \* where each CLI call is
  old,      \* whether a server's `last` is an idle timeout ago
  check,    \* the serve.idle routine, between its loads: "none", else
            \* whether its server was calm at the first
  budget,   \* the crashes and late answers left
  calm,     \* history: an idle timeout has passed with no request at a server
  beside,   \* history: the servers started while each server was
  cut       \* history: the calls whose sidecars were closed under them

files == <<content, fd, tmp, rt>>
idle == <<old, check, calm>>
vars == <<pc, told, files, drain, seen, call, idle, budget, beside, cut>>

Ended == {"refused", "failed", "exited", "crashed"}
Started == {"starting", "creating", "writing", "renaming", "recorded",
            "serving", "stopping", "removing", "deleting", "closing", "closed"}

Readers == Servers \cup Calls
Known == Servers \cup {Nobody}

\* Mutant of Counted: inFlight is counted down before `last` is stored.
CountedInHandler == {"in flight"}

\* The stages of a call that inFlight counts, in the handler stopWhenIdle wraps.
Counted == {"in flight", "returned", "stored"}

TypeOK ==
  /\ pc \in [Servers -> {"off", "asking"} \cup Started \cup Ended]
  /\ told \in [Servers -> BOOLEAN]
  /\ content \in [Servers -> Servers \cup {Torn}]
  /\ fd \in [Servers -> Servers \cup {NoFile}]
  /\ \A s \in Servers : fd[s] # NoFile <=> pc[s] = "writing"
  /\ {tmp, rt} \subseteq Servers \cup {NoFile}
  /\ tmp = rt => rt = NoFile
  /\ drain \in [Servers -> {"none", "on", "over"}]
  /\ seen \in [Readers -> Known]
  /\ call \in [Calls -> {"idle", "asking", "posting", "local", "answered",
                         "unreachable", "in flight", "returned", "stored"}]
  /\ old \in [Servers -> BOOLEAN]
  /\ check \in [Servers -> {"none", "calm", "busy"}]
  /\ budget \in [crashes : 0 .. MaxCrashes, slow : 0 .. MaxSlow]
  /\ calm \in [Servers -> BOOLEAN]
  /\ beside \in [Servers -> SUBSET Servers]
  /\ cut \in SUBSET Calls

Init ==
  /\ pc = [s \in Servers |-> "off"]
  /\ told = [s \in Servers |-> FALSE]
  /\ content = [s \in Servers |-> Torn]
  /\ fd = [s \in Servers |-> NoFile]
  /\ tmp = NoFile
  /\ rt = NoFile
  /\ drain = [s \in Servers |-> "none"]
  /\ seen = [r \in Readers |-> Nobody]
  /\ call = [c \in Calls |-> "idle"]
  /\ old = [s \in Servers |-> FALSE]
  /\ check = [s \in Servers |-> "none"]
  /\ budget = [crashes |-> MaxCrashes, slow |-> MaxSlow]
  /\ calm = [s \in Servers |-> FALSE]
  /\ beside = [s \in Servers |-> {}]
  /\ cut = {}

Running == {s \in Servers : pc[s] \in Started}
Moves(s, from, to) == pc[s] = from /\ pc' = [pc EXCEPT ![s] = to]
CallMoves(c, from, to) == call[c] = from /\ call' = [call EXCEPT ![c] = to]

\* The calls whose requests server s is handling: stopWhenIdle's inFlight.
InFlight(s) == {c \in Calls : call[c] \in Counted /\ seen[c] = s}

(***************************************************************************)
(* findServer: read serve.json, then ask the server it names for /health.  *)
(***************************************************************************)
\* The server serve.json names; no server when it does not parse.
Recorded == IF rt = NoFile \/ content[rt] = Torn THEN Nobody ELSE content[rt]

Read(r) == seen' = [seen EXCEPT ![r] = Recorded]

\* A server takes requests from srv.Serve to srv.Shutdown.
Answering(s) == s \in Servers /\ pc[s] = "serving"

\* A server that listens and does not serve yet: its caller waits.
Opening(s) ==
  s \in Servers /\ pc[s] \in {"creating", "writing", "renaming", "recorded"}

\* An answer that misses the 500 ms of answers() is none.
Late ==
  /\ budget.slow > 0
  /\ budget' = [budget EXCEPT !.slow = @ - 1]

\* A request to /health that has come and gone, as stopWhenIdle notes it.
Noted(s) ==
  /\ old' = [old EXCEPT ![s] = FALSE]
  /\ calm' = [calm EXCEPT ![s] = FALSE]
  /\ UNCHANGED check

Found(r) == Answering(seen[r]) /\ Noted(seen[r]) /\ UNCHANGED budget

NotFound(r) ==
  \/ ~Answering(seen[r]) /\ ~Opening(seen[r]) /\ UNCHANGED <<budget, idle>>
  \/ Answering(seen[r]) /\ Late /\ Noted(seen[r])
  \/ Opening(seen[r]) /\ Late /\ UNCHANGED idle

(***************************************************************************)
(* A server starts: it refuses beside one it finds; otherwise it listens,  *)
(* starts its sidecars, records itself and serves.                         *)
(***************************************************************************)
LaunchRead(s) ==
  /\ Moves(s, "off", "asking")
  /\ Read(s)
  /\ UNCHANGED <<told, files, drain, call, idle, budget, beside, cut>>

Refuse(s) ==
  /\ Found(s)
  /\ Moves(s, "asking", "refused")
  /\ UNCHANGED <<told, files, drain, seen, call, beside, cut>>

Begin(s) ==
  /\ NotFound(s)
  /\ Moves(s, "asking", "starting")
  /\ beside' = [t \in Servers |-> IF t = s THEN Running
                                  ELSE IF t \in Running THEN beside[t] \cup {s}
                                  ELSE beside[t]]
  /\ UNCHANGED <<told, files, drain, seen, call, cut>>

\* The listener, pprof and the two sidecars are up.
SidecarsUp(s) ==
  /\ Moves(s, "starting", "creating")
  /\ UNCHANGED <<told, files, drain, seen, call, idle, budget, beside, cut>>

\* One of them fails, for want of the address, or of the context.
StartFails(s) ==
  /\ Moves(s, "starting", "failed")
  /\ UNCHANGED <<told, files, drain, seen, call, idle, budget, beside, cut>>

\* os.WriteFile opens serve.json.tmp: truncated if there is one.
CreateTmp(s) ==
  /\ Moves(s, "creating", "writing")
  /\ LET i == IF tmp = NoFile THEN s ELSE tmp
     IN /\ fd' = [fd EXCEPT ![s] = i]
        /\ content' = [content EXCEPT ![i] = Torn]
        /\ tmp' = i
  /\ UNCHANGED <<told, rt, drain, seen, call, idle, budget, beside, cut>>

\* The directory, the file or the write fails: half a record may stay.
WriteFails(s) ==
  /\ pc[s] \in {"creating", "writing"}
  /\ pc' = [pc EXCEPT ![s] = "failed"]
  /\ fd' = [fd EXCEPT ![s] = NoFile]
  /\ UNCHANGED <<told, content, tmp, rt, drain, seen, call, idle, budget, beside, cut>>

\* Over another's record, this one may leave that one's tail behind.
WriteTmp(s) ==
  /\ Moves(s, "writing", "renaming")
  /\ content' \in {[content EXCEPT ![fd[s]] = w] :
                     w \in {s} \cup {Torn : t \in {content[fd[s]]} \ {Torn}}}
  /\ fd' = [fd EXCEPT ![s] = NoFile]
  /\ UNCHANGED <<told, tmp, rt, drain, seen, call, idle, budget, beside, cut>>

\* Mutant of Rename: the record is kept in serve.json.tmp.
RenameNot(s) ==
  /\ Moves(s, "renaming", "recorded")
  /\ UNCHANGED <<told, files, drain, seen, call, idle, budget, beside, cut>>

Rename(s) ==
  /\ tmp # NoFile
  /\ Moves(s, "renaming", "recorded")
  /\ rt' = tmp
  /\ tmp' = NoFile
  /\ UNCHANGED <<told, content, fd, drain, seen, call, idle, budget, beside, cut>>

\* Another has renamed the file away: the server ends, and removes nothing.
RenameFails(s) ==
  /\ tmp = NoFile
  /\ Moves(s, "renaming", "failed")
  /\ UNCHANGED <<told, files, drain, seen, call, idle, budget, beside, cut>>

Serves(s) ==
  /\ Moves(s, "recorded", "serving")
  /\ UNCHANGED <<told, files, drain, seen, call, idle, budget, beside, cut>>

Launching(s) ==
  \/ Refuse(s) \/ Begin(s) \/ SidecarsUp(s) \/ StartFails(s) \/ CreateTmp(s)
  \/ WriteFails(s) \/ WriteTmp(s) \/ Rename(s) \/ RenameFails(s) \/ Serves(s)

(***************************************************************************)
(* A server stops.  srv.Shutdown runs on a goroutine nobody waits for:     *)
(* srv.Serve returns as it begins, and the deferred calls of runServe run  *)
(* beside it.                                                              *)
(***************************************************************************)
Signal(s) ==
  /\ s \in Running
  /\ ~told[s]
  /\ told' = [told EXCEPT ![s] = TRUE]
  /\ UNCHANGED <<pc, files, drain, seen, call, idle, budget, beside, cut>>

\* Mutant of Shutdown: Serve returns once the requests have drained.
ShutdownDrained(s) ==
  /\ pc[s] \in {"recorded", "serving"}
  /\ told[s]
  /\ InFlight(s) = {}
  /\ pc' = [pc EXCEPT ![s] = "stopping"]
  /\ drain' = [drain EXCEPT ![s] = "on"]
  /\ UNCHANGED <<told, files, seen, call, idle, budget, beside, cut>>

Shutdown(s) ==
  /\ pc[s] \in {"recorded", "serving"}
  /\ told[s]
  /\ pc' = [pc EXCEPT ![s] = "stopping"]
  /\ drain' = [drain EXCEPT ![s] = "on"]
  /\ UNCHANGED <<told, files, seen, call, idle, budget, beside, cut>>

\* All requests are answered, or Shutdown's 5 s are over.
DrainEnds(s) ==
  /\ s \in Running
  /\ drain[s] = "on"
  /\ drain' = [drain EXCEPT ![s] = "over"]
  /\ UNCHANGED <<pc, told, files, seen, call, idle, budget, beside, cut>>

\* Mutant of RoutinesStop: the record is removed after the sidecars close.
RoutinesStopLast(s) ==
  /\ Moves(s, "stopping", "closing")
  /\ check' = [check EXCEPT ![s] = "none"]
  /\ UNCHANGED <<told, files, drain, seen, call, old, calm, budget, beside, cut>>

\* routines.Stop returns (module RoutineGroup): the idle check is over.
RoutinesStop(s) ==
  /\ Moves(s, "stopping", "removing")
  /\ check' = [check EXCEPT ![s] = "none"]
  /\ UNCHANGED <<told, files, drain, seen, call, old, calm, budget, beside, cut>>

\* removeRuntime reads the file, and removes it if it is this server's.
RemoveReads(s) ==
  /\ pc[s] = "removing"
  /\ pc' = [pc EXCEPT ![s] = IF Recorded = s THEN "deleting" ELSE "closing"]
  /\ UNCHANGED <<told, files, drain, seen, call, idle, budget, beside, cut>>

Remove(s) ==
  /\ Moves(s, "deleting", "closing")
  /\ rt' = NoFile
  /\ UNCHANGED <<told, content, fd, tmp, drain, seen, call, idle, budget, beside, cut>>

\* The export files, canal-query and anfra-node close.
Close(s) ==
  /\ Moves(s, "closing", "closed")
  /\ cut' = cut \cup {c \in InFlight(s) : call[c] = "in flight"}
  /\ UNCHANGED <<told, files, drain, seen, call, idle, budget, beside>>

\* The requests of a process that ends are cut off.
CutOff(s) ==
  /\ call' = [c \in Calls |-> IF c \in InFlight(s) THEN "unreachable" ELSE call[c]]
  /\ check' = [check EXCEPT ![s] = "none"]
  /\ old' = [old EXCEPT ![s] = FALSE]
  /\ calm' = [calm EXCEPT ![s] = FALSE]

Exit(s) ==
  /\ Moves(s, "closed", "exited")
  /\ CutOff(s)
  /\ UNCHANGED <<told, files, drain, seen, budget, beside, cut>>

Crash(s) ==
  /\ s \in Running
  /\ budget.crashes > 0
  /\ budget' = [budget EXCEPT !.crashes = @ - 1]
  /\ pc' = [pc EXCEPT ![s] = "crashed"]
  /\ fd' = [fd EXCEPT ![s] = NoFile]
  /\ CutOff(s)
  /\ UNCHANGED <<told, content, tmp, rt, drain, seen, beside, cut>>

Stopping(s) ==
  \/ Shutdown(s) \/ RoutinesStop(s) \/ RemoveReads(s) \/ Remove(s)
  \/ Close(s) \/ Exit(s)

(***************************************************************************)
(* A CLI call (invoke): on the repo's server when it finds one, and then   *)
(* only there; otherwise in its own process.                               *)
(***************************************************************************)
InvokeReads(c) ==
  /\ CallMoves(c, "idle", "asking")
  /\ Read(c)
  /\ UNCHANGED <<pc, told, files, drain, idle, budget, beside, cut>>

InvokeFinds(c) ==
  /\ Found(c)
  /\ CallMoves(c, "asking", "posting")
  /\ UNCHANGED <<pc, told, files, drain, seen, beside, cut>>

\* A command about the anfra that runs it is not forwarded (cliLocal).
InvokeHere(c) ==
  /\ Found(c)
  /\ CallMoves(c, "asking", "local")
  /\ UNCHANGED <<pc, told, files, drain, seen, beside, cut>>

InvokeLocally(c) ==
  /\ NotFound(c)
  /\ CallMoves(c, "asking", "local")
  /\ UNCHANGED <<pc, told, files, drain, seen, beside, cut>>

\* callServe reaches the server: inFlight is counted up.
Arrives(c) ==
  /\ Answering(seen[c])
  /\ CallMoves(c, "posting", "in flight")
  /\ calm' = [calm EXCEPT ![seen[c]] = FALSE]
  /\ UNCHANGED <<pc, told, files, drain, seen, old, check, budget, beside, cut>>

\* It has stopped since: the call fails, with no second thought.
Misses(c) ==
  /\ ~Answering(seen[c])
  /\ CallMoves(c, "posting", "unreachable")
  /\ UNCHANGED <<pc, told, files, drain, seen, idle, budget, beside, cut>>

\* The handler returns, with an answer or, its sidecars closed, an error.
Returns(c) ==
  /\ CallMoves(c, "in flight", "returned")
  /\ calm' = [calm EXCEPT ![seen[c]] = FALSE]
  /\ UNCHANGED <<pc, told, files, drain, seen, old, check, budget, beside, cut>>

\* stopWhenIdle's deferred call: `last` first, then inFlight is counted down.
StoresLast(c) ==
  /\ CallMoves(c, "returned", "stored")
  /\ old' = [old EXCEPT ![seen[c]] = FALSE]
  /\ UNCHANGED <<pc, told, files, drain, seen, check, calm, budget, beside, cut>>

CountsDown(c) ==
  /\ CallMoves(c, "stored", "answered")
  /\ UNCHANGED <<pc, told, files, drain, seen, idle, budget, beside, cut>>

Calling(c) ==
  \/ InvokeReads(c) \/ InvokeFinds(c) \/ InvokeHere(c) \/ InvokeLocally(c)
  \/ Arrives(c) \/ Misses(c) \/ Returns(c) \/ StoresLast(c) \/ CountsDown(c)

(***************************************************************************)
(* The serve.idle routine of a server started with --idle-timeout.  The    *)
(* timeout is far longer than two statements that follow one another, so   *)
(* it does not pass between them.                                          *)
(***************************************************************************)
Elapse(s) ==
  /\ pc[s] = "serving"
  /\ check[s] = "none"
  /\ \A c \in InFlight(s) : call[c] = "in flight"
  /\ old' = [old EXCEPT ![s] = TRUE]
  /\ calm' = [calm EXCEPT ![s] = InFlight(s) = {}]
  /\ UNCHANGED <<pc, told, files, drain, seen, call, check, budget, beside, cut>>

CheckLoads(s) ==
  /\ pc[s] = "serving"
  /\ check[s] = "none"
  /\ InFlight(s) = {}
  /\ check' = [check EXCEPT ![s] = IF calm[s] THEN "calm" ELSE "busy"]
  /\ UNCHANGED <<pc, told, files, drain, seen, call, old, calm, budget, beside, cut>>

IdleStop(s) ==
  /\ check[s] # "none"
  /\ old[s]
  /\ check' = [check EXCEPT ![s] = "none"]
  /\ told' = [told EXCEPT ![s] = TRUE]
  /\ UNCHANGED <<pc, files, drain, seen, call, old, calm, budget, beside, cut>>

CheckPasses(s) ==
  /\ check[s] # "none"
  /\ ~old[s]
  /\ check' = [check EXCEPT ![s] = "none"]
  /\ UNCHANGED <<pc, told, files, drain, seen, call, old, calm, budget, beside, cut>>

Next ==
  \/ \E s \in Servers :
       \/ LaunchRead(s) \/ Launching(s) \/ Signal(s) \/ Stopping(s)
       \/ DrainEnds(s) \/ Crash(s) \/ Elapse(s) \/ CheckLoads(s)
       \/ IdleStop(s) \/ CheckPasses(s)
  \/ \E c \in Calls : Calling(c)

Spec == Init /\ [][Next]_vars

\* A process that was started goes on: its statements run, its dials time
\* out, a sidecar that does not stop is killed (process.go:117-126), and
\* routines.Stop has a deadline.  Nothing makes a handler return.
FairSpec ==
  /\ Spec
  /\ \A s \in Servers : WF_vars(Launching(s)) /\ WF_vars(Stopping(s))

(***************************************************************************)
(* Safety.                                                                 *)
(***************************************************************************)
\* A server that serves, and that no other was started beside, is the one
\* serve.json names: however many looked for it and refused, crashed before
\* it or left half a record behind, a CLI call finds it (runtime.go:91-101).
ServingIsFound ==
  \A s \in Servers : pc[s] = "serving" /\ beside[s] = {} => Recorded = s

\* serve.json never names a server that has stopped, other servers' writes
\* and removals beside it included: only a crash, or a launch that failed,
\* leaves a record behind (runtime.go:24-25).
StoppedIsNotRecorded == \A s \in Servers : pc[s] = "exited" => Recorded # s

\* "Drain with a fresh deadline ... so Shutdown gets the full 5s"
\* (serve.go:180): what is left of it, as nothing waits for the drain, is that
\* a request loses the sidecars only at a server that was told to stop, and
\* that no other caller can still find.
CutOnlySo == [][\A c \in cut' \ cut : told[seen[c]] /\ Recorded # seen[c]]_vars

\* No server serves beside the one it read of as it started, unless that one
\* answered too late (serve.go:98-100).
RefusesBesideRecorded ==
  \A s, t \in Servers :
    s # t /\ pc[s] = "serving" /\ pc[t] = "serving" /\ seen[t] = s
      => budget.slow < MaxSlow

\* The idle check stops a server only if it was calm when the check began: a
\* whole idle timeout without a request started, in flight or ended
\* (serve.go:455-475).
IdleStopIsJustified ==
  [][\A s \in Servers : IdleStop(s) => check[s] = "calm"]_vars

\* A server stops of itself only when it was calm, and cuts a request off only
\* once it was told to and no caller can still find it (serve.go:178-206 and
\* 455-475).
StopsOnlySo == CutOnlySo /\ IdleStopIsJustified

\* A server told to stop ends, whatever its requests do: the deadlines of
\* serve.go:182 and 202 and of process.go:120 hold them off.
StopEnds == \A s \in Servers : told[s] ~> pc[s] \in Ended
=============================================================================
