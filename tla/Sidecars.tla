------------------------------ MODULE Sidecars ------------------------------
(***************************************************************************)
(* The sidecars of anfra's runs: internal/sidecar's extraction of an       *)
(* embedded binary into the one folder all runs share, the process and its *)
(* socket, WaitReady, and startNeededSidecars, which starts the sidecars a *)
(* command needs and closes them, last first.  Runs overlap, of one anfra  *)
(* version or two, and may be killed at any step.                          *)
(***************************************************************************)
EXTENDS Naturals, Sequences, FiniteSets

CONSTANTS
  Runs,      \* the runs there may be at once
  Versions,  \* the versions of anfra
  Need,      \* the sidecars a command needs, in the order they start
  Remote,    \* those running at a URL (Config.NodeURL, CanalQueryURL)
  MaxStarts, \* bound: the runs there are in all
  MaxKills   \* bound: the runs killed

ASSUME SidecarsConstants == Versions # {} /\ Need \in Seq(STRING) \ {<<>>} /\ MaxStarts \in Nat /\ MaxKills \in Nat

Names == {Need[i] : i \in DOMAIN Need}
Missing == 0 \* what a name of the folder has: no file, an empty one, one written in part, or whole
Empty == 1
Part == 2
Whole == 3

VARIABLES
  dir,     \* the files of <home>/sidecars, by name
  phase,      \* where each run is
  version, \* the version each run is of
  at,      \* the sidecar it is at, by its place in Need
  fd,      \* the file it has open to write, by the name it has now
  listed,  \* what pruneRuntimes listed
  proc,    \* its process of each sidecar; for one at a URL, how it answers the run
  sock,    \* the sidecars it has a socket directory for
  alone,   \* history: the runs no other was extracting or starting beside
  starts, kills

sidecarVars == <<dir, phase, version, at, fd, listed, proc, sock, alone, starts, kills>>

Files == (Names \ Remote) \X Versions \X {"path", "tmp"}
Closed == <<>>
Unlinked == <<"unlinked">>

Name(r) == Need[at[r]]
Path(r) == <<Name(r), version[r], "path">>
Tmp(r) == <<Name(r), version[r], "tmp">>

SidecarsInit ==
  /\ dir = [f \in Files |-> Missing]
  /\ phase = [r \in Runs |-> "none"] /\ version \in [Runs -> {CHOOSE v \in Versions : TRUE}] /\ at = [r \in Runs |-> 1]
  /\ fd = [r \in Runs |-> Closed] /\ listed = [r \in Runs |-> {}]
  /\ proc = [r \in Runs |-> [n \in Names |-> "none"]] /\ sock = [r \in Runs |-> {}]
  /\ alone = {} /\ starts = 0 /\ kills = 0

Ends == {"none", "done", "killed"}
Extracting == {r \in Runs : phase[r] \in {"stat", "open", "write", "rename", "list", "prune", "socket", "exec"}}

Go(r, next) == phase' = [phase EXCEPT ![r] = next]
FilesKept == UNCHANGED <<dir, fd, listed>>
RunKept == UNCHANGED <<version, starts, kills>>

\* Start resolves a binary, unless the sidecar is at a URL.
Enter(r, i) ==
  IF Need[i] \in Remote
    THEN Go(r, "wait") /\ proc' = [proc EXCEPT ![r] = [n \in Names |-> IF n = Need[i] THEN "starting" ELSE IF i = 1 THEN "none" ELSE @[n]]]
         /\ UNCHANGED alone
    ELSE Go(r, "stat") /\ proc' = [proc EXCEPT ![r] = [n \in Names |-> IF i = 1 THEN "none" ELSE @[n]]]
         /\ alone' = IF Extracting \ {r} = {} THEN alone \cup {r} ELSE alone \ (Extracting \cup {r})

StartRun(r, v) ==
  /\ phase[r] \in Ends /\ starts < MaxStarts /\ starts' = starts + 1
  /\ version' = [version EXCEPT ![r] = v] /\ at' = [at EXCEPT ![r] = 1] /\ Enter(r, 1)
  /\ sock' = [sock EXCEPT ![r] = {}] /\ FilesKept /\ UNCHANGED kills

-----------------------------------------------------------------------------
(* extractRuntime and pruneRuntimes. *)

\* startNeededSidecars: what started is closed, and the run ends.
Fail(r) == Go(r, "close") /\ UNCHANGED <<at, proc, sock, alone>>

\* Bug: a file there is taken to be whole.
AbsentFile(r) == dir[Path(r)] = Missing


Absent(r) == dir[Path(r)] # Whole

Stat(r) ==
  /\ phase[r] = "stat" /\ Go(r, IF Absent(r) THEN "open" ELSE "list")
  /\ FilesKept /\ RunKept /\ UNCHANGED <<at, proc, sock, alone>>

\* WriteFile truncates the file there, another run's too, or makes one.
Open(r) ==
  /\ phase[r] = "open" /\ Go(r, "write") /\ dir' = [dir EXCEPT ![Tmp(r)] = Empty] /\ fd' = [fd EXCEPT ![r] = Tmp(r)]
  /\ RunKept /\ UNCHANGED <<listed, at, proc, sock, alone>>

\* What is written to the file a run has open; it may have no name by then.
Put(r, size) == dir' = IF fd[r] \in Files THEN [dir EXCEPT ![fd[r]] = size] ELSE dir

Write(r) ==
  /\ phase[r] = "write" /\ Put(r, Whole) /\ fd' = [fd EXCEPT ![r] = Closed] /\ Go(r, "rename")
  /\ RunKept /\ UNCHANGED <<listed, at, proc, sock, alone>>

\* The disk is full.
WriteFails(r) ==
  /\ phase[r] = "write" /\ Put(r, Part) /\ fd' = [fd EXCEPT ![r] = Closed] /\ Fail(r)
  /\ RunKept /\ UNCHANGED listed

\* The file goes on being written under its new name, by a run that has it open.
Rename(r) ==
  /\ phase[r] = "rename" /\ dir[Tmp(r)] # Missing
  /\ dir' = [dir EXCEPT ![Path(r)] = dir[Tmp(r)], ![Tmp(r)] = Missing] /\ Go(r, "list")
  /\ fd' = [q \in Runs |-> IF fd[q] = Path(r) THEN Unlinked ELSE IF fd[q] = Tmp(r) THEN Path(r) ELSE fd[q]]
  /\ RunKept /\ UNCHANGED <<listed, at, proc, sock, alone>>

\* Another run renamed the file, or pruned it.
RenameFails(r) == phase[r] = "rename" /\ dir[Tmp(r)] = Missing /\ Fail(r) /\ FilesKept /\ RunKept

\* Every entry of this sidecar's but the one kept: the other versions', and the
\* file another run is writing.
List(r) ==
  /\ phase[r] = "list" /\ listed' = [listed EXCEPT ![r] = {f \in Files : f[1] = Name(r) /\ dir[f] # Missing /\ f # Path(r)}]
  /\ Go(r, "prune") /\ RunKept /\ UNCHANGED <<dir, fd, at, proc, sock, alone>>

Prune(r) ==
  /\ phase[r] = "prune" /\ dir' = [f \in Files |-> IF f \in listed[r] THEN Missing ELSE dir[f]]
  /\ fd' = [q \in Runs |-> IF fd[q] \in listed[r] THEN Unlinked ELSE fd[q]]
  /\ listed' = [listed EXCEPT ![r] = {}] /\ Go(r, "socket")
  /\ RunKept /\ UNCHANGED <<at, proc, sock, alone>>

-----------------------------------------------------------------------------
(* The process, and WaitReady. *)

Socket(r) ==
  /\ phase[r] = "socket" /\ sock' = [sock EXCEPT ![r] = @ \cup {Name(r)}] /\ Go(r, "exec")
  /\ FilesKept /\ RunKept /\ UNCHANGED <<at, proc, alone>>

\* A file that is not there, one open for writing (text file busy) or written in
\* part does not run.
Executable(r) == dir[Path(r)] = Whole /\ \A q \in Runs : fd[q] # Path(r)

Exec(r) ==
  /\ phase[r] = "exec" /\ Executable(r)
  /\ proc' = [proc EXCEPT ![r][Name(r)] = "starting"] /\ Go(r, "wait")
  /\ FilesKept /\ RunKept /\ UNCHANGED <<at, sock, alone>>

\* StartProcess fails: its socket's directory stays.
ExecFails(r) == phase[r] = "exec" /\ ~Executable(r) /\ Fail(r) /\ FilesKept /\ RunKept

\* The sidecar's own life: it listens, answers nothing, or exits.
Alive(r, n) == n \notin Remote /\ proc[r][n] \in {"starting", "healthy", "hung"}
Live(r, n) ==
  /\ \E s \in {"healthy", "hung", "dead"} :
       /\ proc[r][n] = "starting" \/ (Alive(r, n) /\ s = "dead")
       /\ proc' = [proc EXCEPT ![r][n] = s]
  /\ FilesKept /\ RunKept /\ UNCHANGED <<phase, at, sock, alone>>

Answers(r) == proc[r][Name(r)] = "healthy"
Holds(r) == proc[r][Name(r)] = "hung"

\* It is ready: the next one starts, or the command runs.
Ready(r) ==
  /\ phase[r] = "wait" /\ Answers(r)
  /\ IF at[r] < Len(Need) THEN at' = [at EXCEPT ![r] = @ + 1] /\ Enter(r, at[r] + 1)
                          ELSE Go(r, "running") /\ UNCHANGED <<at, proc, alone>>
  /\ FilesKept /\ RunKept /\ UNCHANGED sock

\* Start's own close of the sidecar, then startNeededSidecars' of the rest.
GivesUp(r) == phase[r] = "wait" /\ Go(r, "close") /\ FilesKept /\ RunKept /\ UNCHANGED <<at, proc, sock, alone>>

\* Bug: only a sidecar of its own has a deadline.
DeadlineOwned(r) == Name(r) \notin Remote /\ ~Holds(r) /\ GivesUp(r)

\* The deadline is looked at after a check that failed: not while one is held.
Deadline(r) == ~Holds(r) /\ GivesUp(r)

\* Ctrl-C, which ends a check that is held too.
Canceled(r) == GivesUp(r)

-----------------------------------------------------------------------------
(* Close. *)

Done(r) == phase[r] = "running" /\ Go(r, "close") /\ FilesKept /\ RunKept /\ UNCHANGED <<at, proc, sock, alone>>

\* Bug: only the sidecar that failed to start is closed.
ClosingLast(r) == {i \in {at[r]} : Need[i] \notin Remote /\ proc[r][Need[i]] # "none"}

\* The sidecars Close is called on, the last to start first: one whose process
\* did not start is not closed.
Closing(r) == {i \in 1 .. at[r] : Need[i] \notin Remote /\ proc[r][Need[i]] # "none"}

\* SIGTERM, SIGKILL 3 s later; then its socket is removed.
Close(r) ==
  /\ phase[r] = "close" /\ \E i \in Closing(r) :
       /\ \A j \in Closing(r) : Need[j] \in sock[r] => j <= i
       /\ Need[i] \in sock[r]
       /\ proc' = [proc EXCEPT ![r][Need[i]] = "dead"] /\ sock' = [sock EXCEPT ![r] = @ \ {Need[i]}]
  /\ FilesKept /\ RunKept /\ UNCHANGED <<phase, at, alone>>

End(r) ==
  /\ phase[r] = "close" /\ \A i \in Closing(r) : Need[i] \notin sock[r]
  /\ Go(r, "done") /\ FilesKept /\ RunKept /\ UNCHANGED <<at, proc, sock, alone>>

\* A run killed leaves what it had written; its sidecars get SIGTERM (Pdeathsig).
Kill(r) ==
  /\ phase[r] \notin Ends /\ kills < MaxKills /\ kills' = kills + 1 /\ Go(r, "killed")
  /\ \E s \in {Empty, Part} : Put(r, s)
  /\ fd' = [fd EXCEPT ![r] = Closed] /\ listed' = [listed EXCEPT ![r] = {}]
  /\ proc' = [proc EXCEPT ![r] = [n \in Names |-> IF Alive(r, n) THEN "dead" ELSE proc[r][n]]]
  /\ UNCHANGED <<version, at, sock, alone, starts>>

Step(r) ==
  \/ Stat(r) \/ Open(r) \/ Write(r) \/ WriteFails(r) \/ Rename(r) \/ RenameFails(r) \/ List(r) \/ Prune(r) \/ Socket(r) \/ Exec(r)
  \/ ExecFails(r) \/ Ready(r) \/ Deadline(r) \/ Close(r) \/ End(r)

SidecarsNext == \E r \in Runs :
  Step(r) \/ Canceled(r) \/ Done(r) \/ Kill(r) \/ (\E v \in Versions : StartRun(r, v)) \/ \E n \in Names : Live(r, n)

\* A run goes on by itself, and its deadline passes; a command may run for ever.
SidecarsSpec == SidecarsInit /\ [][SidecarsNext]_sidecarVars /\ \A r \in Runs : WF_sidecarVars(Step(r))

-----------------------------------------------------------------------------
SidecarsTypeOK ==
  /\ dir \in [Files -> Missing .. Whole]
  /\ phase \in [Runs -> Ends \cup {"stat", "open", "write", "rename", "list", "prune", "socket", "exec", "wait", "running", "close"}]
  /\ version \in [Runs -> Versions] /\ at \in [Runs -> DOMAIN Need] /\ fd \in [Runs -> Files \cup {Closed, Unlinked}]
  /\ listed \in [Runs -> SUBSET Files] /\ proc \in [Runs -> [Names -> {"none", "starting", "healthy", "hung", "dead"}]]
  /\ sock \in [Runs -> SUBSET Names] /\ alone \subseteq Runs

\* extractRuntime's "concurrent runs converge on the same file", so far as it
\* is so: whatever runs before it were killed or left half written, a run no
\* other is extracting beside runs its version's whole binary.
AloneRunsWhole == [][\A r \in Runs : r \in alone => ~RenameFails(r) /\ ~ExecFails(r)]_sidecarVars

\* A run that ends by itself leaves no process of its sidecars, and no socket
\* directory but that of one whose process did not start.
LeavesNothing ==
  \A r \in Runs : phase[r] = "done" =>
    /\ \A n \in Names : ~Alive(r, n)
    /\ sock[r] \subseteq {n \in Names : proc[r][n] = "none"}

\* A start ends, ready or not, unless the sidecar holds the check it was sent:
\* no deadline bounds that one.
StartEnds == \A r \in Runs : (phase[r] = "wait") ~> (phase[r] # "wait" \/ Holds(r))

=============================================================================
