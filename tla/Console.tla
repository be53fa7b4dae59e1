------------------------------- MODULE Console -------------------------------
(***************************************************************************)
(* A session of anfra console, cmd/anfra/console*.go: its mode and flags,  *)
(* how an entry becomes a command's args, the server it starts and stops,  *)
(* and the history it shares with another console.  Flags are the format   *)
(* (--json, --yaml) and query's --lang; a server is its process.           *)
(***************************************************************************)
EXTENDS Integers, Sequences, FiniteSets, SequencesExt

CONSTANTS
  Kept,       \* historyKept
  OldLines,   \* the lengths the history may have at first
  MaxEntries, \* bound: the entries of the session
  MaxOthers,  \* bound: the entries of the other console
  MaxServers  \* bound: the servers there are in all

ASSUME ConsoleConstants == {Kept, MaxEntries, MaxOthers, MaxServers} \subseteq Nat /\ OldLines \subseteq Nat

VARIABLES
  mode,     \* [cmd, lang, fmts]: the mode's command and its own flags; cmd "" in command mode
  flags,    \* the session's flags: [lang, fmts]
  lang,     \* the mode's --lang in effect
  refused,  \* history: a refused line set the session's --lang since the mode's was worked out
  pc,       \* "load", "type", "ready", "run", "left", "killed"
  entry,    \* the command being run, with the flags it was given
  count,    \* the entries so far
  procs,    \* the servers: "booting", "serving", "stopped"
  mine,     \* those this console spawned
  url, started, starting, \* consoleServer's
  unfound,  \* history: those of its own that were up, or coming up, when it started another
  file,     \* the history's lines
  next,     \* the next entry's number
  read,     \* by console: what load read, to be written back
  during,   \* history: the entries added while a console was rewriting the file
  others    \* the entries of the other console so far

session == <<mode, flags, lang, refused, entry, count>>
server == <<procs, mine, url, started, starting, unfound>>
history == <<file, next, read, during, others>>
consoleVars == <<session, pc, server, history>>

Formats == {"json", "yaml"}
Langs == {"aql", "sql"}
Commands == {"query", "search"}
TakesLang(cmd) == cmd = "query"
None == 0
Nothing == [cmd |-> "", lang |-> "", read |-> "", own |-> {}, fmts |-> {}, text |-> FALSE]
Consoles == {"this", "other"}
Idle == <<-1>>
Commanding == [cmd |-> "", lang |-> "", fmts |-> {}]
Modes ==
  {[cmd |-> "query", lang |-> "", fmts |-> {}], [cmd |-> "query", lang |-> "", fmts |-> {"json"}],
   [cmd |-> "query", lang |-> "sql", fmts |-> {"json"}], [cmd |-> "search", lang |-> "", fmts |-> {}]}

\* The lang a command runs in: its own, the session's, else the default.
LangFor(cmd, own, f) ==
  IF ~TakesLang(cmd) THEN "" ELSE IF own # "" THEN own ELSE IF f.lang # "" THEN f.lang ELSE "aql"
LangOf(m, f) == LangFor(m.cmd, m.lang, f)

ConsoleInit ==
  /\ mode \in Modes \cup {Commanding}
  /\ flags = [lang |-> "", fmts |-> {}] /\ lang = LangOf(mode, flags) /\ refused = FALSE
  /\ pc = "load" /\ entry = Nothing /\ count = 0
  /\ procs = <<>> /\ mine = {} /\ url = None /\ started = None /\ starting = None /\ unfound = {}
  /\ \E n \in OldLines : file = [i \in 1 .. n |-> i] /\ next = n + 1
  /\ read = [c \in Consoles |-> Idle] /\ during = {} /\ others = 0

-----------------------------------------------------------------------------
(* The history: consoleHistory.load, add and rewrite. *)

Recent(s) == IF Len(s) > Kept THEN SubSeq(s, Len(s) - Kept + 1, Len(s)) ELSE s

\* A file grown past twice the limit is to be cut back to it.
Load(c) ==
  /\ read' = [read EXCEPT ![c] = IF Len(file) > 2 * Kept THEN Recent(file) ELSE Idle]
  /\ UNCHANGED <<file, next, during, others>>

Rewrite(c) == read[c] # Idle /\ file' = read[c] /\ read' = [read EXCEPT ![c] = Idle] /\ UNCHANGED <<next, during, others>>

AddLine ==
  /\ file' = Append(file, next) /\ next' = next + 1
  /\ during' = IF \E c \in Consoles : read[c] # Idle THEN during \cup {next} ELSE during
  /\ UNCHANGED read
Add == AddLine /\ UNCHANGED others

StartRewrite ==
  /\ pc = "rewrite" /\ pc' = "type" /\ UNCHANGED <<session, server>>
  /\ Rewrite("this") \/ (read["this"] = Idle /\ UNCHANGED history)

\* The other console, in another folder.
OtherLoad == read["other"] = Idle /\ Load("other") /\ UNCHANGED <<session, pc, server>>
OtherRewrite == Rewrite("other") /\ UNCHANGED <<session, pc, server>>
OtherAdd == others < MaxOthers /\ others' = others + 1 /\ read["other"] = Idle /\ AddLine /\ UNCHANGED <<session, pc, server>>

-----------------------------------------------------------------------------
(* The server: consoleServer. *)

\* findServer: what it finds serves the repo; but it misses one that answers
\* later than it waits, or whose record another's has replaced.
Serving == {s \in DOMAIN procs : procs[s] = "serving"}
FindsServer == url' \in Serving

\* ensure: the one found, or one of its own, started in the background.
Ensure ==
  \/ starting # None /\ UNCHANGED server
  \/ starting = None /\ FindsServer /\ UNCHANGED <<procs, mine, started, starting, unfound>>
  \/ starting = None /\ url' = None /\ UNCHANGED <<procs, mine, started, starting, unfound>> \* it cannot be spawned
  \/ /\ starting = None /\ Len(procs) < MaxServers
     /\ procs' = Append(procs, "booting") /\ started' = Len(procs') /\ starting' = Len(procs')
     /\ mine' = mine \cup {Len(procs')} /\ url' = None
     /\ unfound' = unfound \cup {s \in mine : procs[s] # "stopped"}

\* Its goroutine: a server answers, or none does for consoleServerWait.
Answered == FindsServer
WaitOver == UNCHANGED url
Poll ==
  /\ pc \notin {"left", "killed"} /\ starting # None /\ starting' = None /\ (Answered \/ WaitOver)
  /\ UNCHANGED <<session, pc, history, procs, mine, started, unfound>>

\* stop, as the session ends.
StopsIfWarm == IF url # None THEN {started} ELSE {} \* mutant: a server still starting is left
Stops == {started}
Stop ==
  /\ procs' = [s \in DOMAIN procs |-> IF s \in Stops THEN "stopped" ELSE procs[s]]
  /\ started' = None /\ url' = (IF started # None THEN None ELSE url) /\ UNCHANGED <<mine, starting, unfound>>

\* The servers' own lives: one that comes up serves the repo, or stops, as where
\* it finds it served; it stops idle, or is stopped by whoever started it.
Turn(s, state) == procs' = [procs EXCEPT ![s] = state] /\ UNCHANGED <<session, pc, mine, url, started, starting, unfound, history>>
Boot(s) == procs[s] = "booting" /\ \E state \in {"serving", "stopped"} : Turn(s, state)
End(s) == procs[s] = "serving" /\ Turn(s, "stopped")
OtherServer ==
  /\ Len(procs) < MaxServers /\ procs' = Append(procs, "booting")
  /\ UNCHANGED <<session, pc, mine, url, started, starting, unfound, history>>

-----------------------------------------------------------------------------
(* The session: dispatch. *)

\* refreshLang, when what it reads has changed.
Refresh(m, f) == mode' = m /\ flags' = f /\ lang' = LangOf(m, f) /\ refused' = FALSE

Typing == pc = "type" /\ count < MaxEntries /\ count' = count + 1 /\ Add

\* What is said; a mode that queries then warms a server up.
Said == /\ UNCHANGED <<pc, entry>>
        /\ IF mode'.cmd # "" THEN Ensure ELSE UNCHANGED server

\* runConsole starts: its server, for a mode that queries, then its history.
OpenSession ==
  /\ pc = "load" /\ pc' = "rewrite" /\ Load("this") /\ UNCHANGED session
  /\ IF mode.cmd # "" THEN Ensure ELSE UNCHANGED server

SwitchMode(m) == Typing /\ Refresh(m, flags) /\ Said

\* A format set replaces the other: they are alternatives.
AlternativesItself(f) == {f} \* mutant: the other stays
Alternatives(f) == Formats

WithFormat(f, on) == [flags EXCEPT !.fmts = IF on THEN (@ \ Alternatives(f)) \cup {f} ELSE @ \ {f}]
WithLang(l) == [flags EXCEPT !.lang = l]

\* A flag the mode gives is the mode's to change; "" unsets one.
SetFormat(f, on) ==
  /\ Typing
  /\ IF mode.cmd # "" /\ f \in mode.fmts
       THEN Refresh([mode EXCEPT !.fmts = (@ \ {f}) \cup (IF on THEN {f} ELSE {})], flags)
       ELSE Refresh(mode, WithFormat(f, on))
  /\ Said

SetLang(l) ==
  /\ Typing /\ (mode.cmd = "" \/ TakesLang(mode.cmd))
  /\ IF mode.cmd # "" /\ mode.lang # "" THEN Refresh([mode EXCEPT !.lang = l], flags) ELSE Refresh(mode, WithLang(l))
  /\ Said

\* A line that also gives one of the mode's own flags what it cannot be: the
\* mode is refused and stays, its lang not worked out, the session's flags set.
SetRefused(f) ==
  /\ Typing /\ mode.cmd # "" /\ mode.fmts # {}
  /\ flags' = f /\ refused' = (refused \/ f.lang # flags.lang) /\ UNCHANGED <<mode, lang>>
  /\ Said

\* withFlags: the session's flags that its command takes and was not given.
WithFlags(cmd, l, fmts) ==
  [cmd |-> cmd, own |-> fmts, fmts |-> fmts \cup flags.fmts, read |-> lang,
   lang |-> LangFor(cmd, l, flags), text |-> FALSE]

\* A command, which waits for its server first, or text for the mode's.
Runs(e) == Typing /\ entry' = e /\ pc' = "ready" /\ UNCHANGED <<mode, flags, lang, refused, server>>
Command(cmd, l, fmts) == Runs(WithFlags(cmd, l, fmts))
EnterText == mode.cmd # "" /\ Runs([WithFlags(mode.cmd, mode.lang, mode.fmts) EXCEPT !.text = TRUE])

\* ready: the server it knew is found; or it has stopped, is missed, or there is
\* none yet, and one is started.
Warm == starting = None /\ url # None
Ready ==
  /\ pc = "ready" /\ UNCHANGED <<session, history>>
  /\ \/ Warm /\ Serving # {} /\ pc' = "run" /\ UNCHANGED server
     \/ Ensure /\ pc' = IF starting' # None THEN "wait" ELSE "run"

\* The wait ends with the start, or at Ctrl-C.
Waited == pc = "wait" /\ pc' = "run" /\ UNCHANGED <<session, server, history>>
Ran == pc = "run" /\ pc' = "type" /\ entry' = Nothing /\ UNCHANGED <<mode, flags, lang, refused, count, server, history>>

\* \q, Ctrl-D or SIGTERM; and update, which starts the console again.
Leave == pc \in {"type", "wait"} /\ pc' = "left" /\ Stop /\ UNCHANGED <<session, history>>
Kill == pc \notin {"left", "killed"} /\ pc' = "killed" /\ UNCHANGED <<session, server, history>>

Enter ==
  \/ \E m \in Modes \cup {Commanding} : SwitchMode(m)
  \/ \E f \in Formats, on \in BOOLEAN : SetFormat(f, on)
  \/ \E l \in {"", "sql"} : SetLang(l)
  \/ \E f \in Formats, on \in BOOLEAN : f \notin mode.fmts /\ SetRefused(WithFormat(f, on))
  \/ \E l \in {"", "sql"} : TakesLang(mode.cmd) /\ mode.lang = "" /\ SetRefused(WithLang(l))
  \/ \E cmd \in Commands, l \in {"", "sql"}, fmts \in {{}, {"json"}} : (TakesLang(cmd) \/ l = "") /\ Command(cmd, l, fmts)
  \/ EnterText

\* What goes on beside the session, while it does.
Beside ==
  /\ pc \notin {"left", "killed"}
  /\ \/ OtherLoad \/ OtherRewrite \/ OtherAdd \/ OtherServer
     \/ \E s \in DOMAIN procs : Boot(s) \/ End(s)

ConsoleNext == OpenSession \/ StartRewrite \/ Enter \/ Ready \/ Waited \/ Ran \/ Leave \/ Kill \/ Poll \/ Beside

ConsoleSpec == ConsoleInit /\ [][ConsoleNext]_consoleVars /\ WF_consoleVars(Poll) /\ WF_consoleVars(Ready) /\ WF_consoleVars(Waited)

-----------------------------------------------------------------------------
ConsoleTypeOK ==
  /\ mode \in [cmd : Commands \cup {""}, lang : Langs \cup {""}, fmts : SUBSET Formats]
  /\ flags \in [lang : Langs \cup {""}, fmts : SUBSET Formats] /\ lang \in Langs \cup {""} /\ refused \in BOOLEAN
  /\ pc \in {"load", "rewrite", "type", "ready", "wait", "run", "left", "killed"} /\ count \in 0 .. MaxEntries
  /\ procs \in Seq({"booting", "serving", "stopped"}) /\ mine \subseteq DOMAIN procs /\ unfound \subseteq mine
  /\ {url, started, starting} \subseteq DOMAIN procs \cup {None}
  /\ file \in Seq(Nat) /\ next \in Nat /\ read \in [Consoles -> Seq(Int)] /\ during \subseteq 1 .. next

\* What ends an entry is decided by the language its command then runs it in:
\* the mode's lang in effect, kept beside the flags, is what withFlags gives, but
\* after a refused line that set the session's lang and not the mode's.
RunsAsRead == entry.text => entry.read = entry.lang \/ refused

\* The session gives a command at most one format, whatever was set and in
\* which order, but beside one the entry or its mode gives itself.
OneFormat == Cardinality(flags.fmts) <= 1 /\ (Cardinality(entry.fmts) > 1 => entry.own # {} /\ ~(entry.fmts \subseteq entry.own))

\* Both: but for those, an entry runs in the language it was read in, in one
\* format.
RunsAsEntered == RunsAsRead /\ OneFormat

\* A session that ends leaves no server of its own running, but one that was up,
\* or still coming up, when a later look found none and it started another.
StopsItsServer ==
  pc = "left" => \A s \in mine : procs[s] = "stopped" \/ s \in unfound

\* Each of the last entries is in the history, whichever console added it, but
\* for those added while a console was cutting the file back.
HistoryKept ==
  /\ \A i \in 1 .. Len(file) - 1 : file[i] < file[i + 1]
  /\ \A n \in 1 .. next - 1 : n > next - 1 - Kept => n \in ToSet(file) \cup during

\* Both: but for those, a session that ends leaves behind its entries, and no
\* server of its own.
LeavesItsEntriesOnly == StopsItsServer /\ HistoryKept

=============================================================================
