----------------------------- MODULE AgentSetup -----------------------------
(***************************************************************************)
(* anfra agent setup and its check (internal/agents): what setup runs of   *)
(* each agent's CLI, in which order and how that may fail, the record and  *)
(* the report it ends with, what the notice says from that record, and the *)
(* hint after repeated failures.  A version of the skills is the number of *)
(* their release; 0 is none, and a copy with no stamp.  How two writers of *)
(* the record meet, and the block's text, are AgentNotices'.               *)
(***************************************************************************)
EXTENDS FiniteSets, Naturals, Sequences

CONSTANTS
  ClaudeCode, Codex, \* the agents anfra installs the plugin into
  ByHand,            \* the others it knows
  Other,             \* an id it does not know
  Folders,           \* where copies of the skills are read
  ReadBy,            \* the folders each known agent reads
  Releases,          \* bound: the releases of the skills
  MaxNamed,          \* bound: the agents named with --agent
  Shells,            \* the commands that fail and succeed beside one another
  HintAfter, HintWithin,
  MaxTime            \* bound: the clock

Installing == {ClaudeCode, Codex}
Known == Installing \cup ByHand
NoVersion == 0
Unrecorded == [never |-> TRUE]

\* What the notice may be about: an agent, a folder, or neither.
ASSUME AgentConstants ==
  /\ {"none", "notes"} \cap (Known \cup Folders) = {}
  /\ Other \notin Known /\ ReadBy \in [Known -> SUBSET Folders]
  /\ {Releases, MaxNamed} \subseteq Nat \ {0} /\ HintAfter \in Nat \ {0} /\ HintWithin \in Nat /\ MaxTime \in Nat

VARIABLES
  machine,  \* [clis, found, repo]: the CLIs on the PATH, the agents on this machine, whether in an anfra repo
  plugin,   \* by agent: its version at the user's scope, and at the project's
  market,   \* by agent: the version its marketplace last fetched
  release, cached, \* the latest version, and that of the background check
  copies,   \* by folder: the stamps there, and whether it has the old names
  record,   \* agents-check.json's plugins: versions by agent
  notes,    \* AGENTS.md's block and CLAUDE.md
  run,      \* the setup or check under way
  report,   \* what the last one answered
  since,    \* history: a plugin changed by hand, or a list not had, since it began; a record made so
  fails, seen, clock, truth \* agents-failures.json; what each command read of it; time; what happened

machines == <<machine, plugin, market, release, copies>>
streaks == <<fails, seen, clock, truth>>
agentSetup == <<machines, cached, record, notes, run, report, since, streaks>>

NoReport == [of |-> "none", issues |-> {}, hints |-> {}, failed |-> FALSE, outcome |-> {}]
NoStreak == [times |-> <<>>, hinted |-> FALSE]
NoRun == [at |-> "idle", check |-> FALSE, named |-> FALSE, chosen |-> {}, left |-> {}, doing |-> Other,
          steps |-> <<>>, outcome |-> {}, failed |-> FALSE, began |-> 0]

AgentSetupInit ==
  /\ machine \in [clis : SUBSET Installing, found : SUBSET Known, repo : BOOLEAN]
  /\ machine.clis \subseteq machine.found
  /\ plugin \in [Installing -> [user : 0 .. 1, project : 0 .. 1]] /\ plugin[Codex].project = NoVersion
  /\ market \in [Installing -> 0 .. 1]
  /\ \A a \in Installing : market[a] = 0 => plugin[a] = [user |-> NoVersion, project |-> NoVersion]
  /\ copies \in [Folders -> [stamps : SUBSET (0 .. 1), old : BOOLEAN]]
  /\ notes \in [block : {"missing", "outdated", "up-to-date", "unreadable"},
               claude : {"absent", "linked", "imported", "not-imported", "unreadable"}]
  /\ release = 1 /\ cached = 0 /\ record = Unrecorded
  /\ run = NoRun /\ report = NoReport
  /\ since = [edited |-> FALSE, unlisted |-> FALSE, misrecorded |-> FALSE]
  /\ fails = NoStreak /\ seen = [s \in Shells |-> <<>>] /\ clock = 0
  /\ truth = [times |-> <<>>, hints |-> 0, raced |-> FALSE, early |-> FALSE]

-----------------------------------------------------------------------------
(* What is there of the skills. *)

AllCopies == {d \in Folders : copies[d].stamps # {} \/ copies[d].old}
ReadsCopies(a) == IF a \in Known THEN ReadBy[a] \cap AllCopies ELSE {}

\* status: one version alone compares with the latest, if that is known.
StatusOf(versions) ==
  IF Cardinality(versions) > 1 THEN "mixed"
  ELSE IF cached = 0 THEN "unknown"
  ELSE IF \E v \in versions : v < cached THEN "behind" ELSE "latest"
CopyStatus(d) == IF copies[d].stamps = {} THEN "deprecated" ELSE StatusOf(copies[d].stamps)

Scopes(a) == {plugin[a].user, plugin[a].project} \ {NoVersion}
\* InstalledPlugin: none without its CLI, or when the list fails.
Listed(a, unlisted) == IF a \in machine.clis \ unlisted THEN Scopes(a) ELSE {}

\* CheckBlock and agentsMDState
BlockIs == IF "unreadable" \in {notes.block, notes.claude} THEN "unreadable" ELSE notes.block
Imports == ~(notes.claude = "not-imported")

-----------------------------------------------------------------------------
(* Setup. *)

\* A bug to catch: a marketplace already there is not fetched again.
InstallStepsUnrefreshed(a) ==
  IF a = ClaudeCode THEN <<"add", "install", "update">> ELSE <<"add", "put">>

InstallSteps(a) ==
  IF a = ClaudeCode THEN <<"add", "refresh", "install", "update">> ELSE <<"add", "refresh", "put">>

\* selectAgents: those named, whether known or not, else those found.
Begins(check, named, chosen) ==
  /\ run.at = "idle" /\ report.of = "none" \* bound: one that ends
  /\ IF named THEN chosen \subseteq Known \cup {Other} /\ Cardinality(chosen) <= MaxNamed ELSE chosen = machine.found
  /\ chosen # {}
  /\ run' = [NoRun EXCEPT !.at = IF check THEN "report" ELSE "install", !.check = check, !.named = named,
                          !.chosen = chosen, !.left = chosen, !.began = release]
  /\ since' = [since EXCEPT !.edited = FALSE, !.unlisted = FALSE]
  /\ UNCHANGED <<machines, cached, record, notes, report, streaks>>

Outcome(a, what) ==
  run' = [run EXCEPT !.left = @ \ {a}, !.doing = Other, !.steps = <<>>, !.outcome = @ \cup {[agent |-> a, is |-> what]},
                     !.failed = @ \/ what = "failed" \/ (run.named /\ what # "installed")]

\* install, of each agent, those found in the order of Known: what it needs first.
Install(a) ==
  /\ run.at = "install" /\ a \in run.left /\ run.steps = <<>>
  /\ ~run.named /\ a # ClaudeCode => ClaudeCode \notin run.left /\ (a # Codex => Codex \notin run.left)
  /\ CASE a \notin Installing -> Outcome(a, "instructions_only")
       [] a \in Installing \ machine.clis -> Outcome(a, "cli_missing")
       [] OTHER -> run' = [run EXCEPT !.doing = a, !.steps = InstallSteps(a)]
  /\ UNCHANGED <<machines, cached, record, notes, report, since, streaks>>

\* One of its steps, which the agent's CLI takes, or fails at.
Step ==
  LET a == run.doing
      does == Head(run.steps)
  IN /\ run.at = "install" /\ run.steps # <<>>
     /\ \/ /\ market' = IF does = "refresh" \/ (does = "add" /\ market[a] = 0)
                        THEN [market EXCEPT ![a] = release] ELSE market
           /\ plugin' = IF does \in {"update", "put"} \/ (does = "install" /\ plugin[a].user = NoVersion)
                        THEN [plugin EXCEPT ![a].user = market[a]] ELSE plugin
           /\ IF Len(run.steps) = 1 THEN Outcome(a, "installed") ELSE run' = [run EXCEPT !.steps = Tail(@)]
        \/ Outcome(a, "failed") /\ UNCHANGED <<market, plugin>>
     /\ since' = [since EXCEPT !.misrecorded = @ \/ plugin' # plugin]
     /\ UNCHANGED <<machine, release, copies, cached, record, notes, report, streaks>>

\* WriteBlock: the block, then CLAUDE.md's import; either may fail.
WriteNotes ==
  /\ run.at = "install" /\ run.left = {}
  /\ IF ~machine.repo THEN run' = [run EXCEPT !.at = "record"] /\ UNCHANGED notes
     ELSE LET wrote == IF notes.block = "unreadable" THEN {} ELSE {"up-to-date"}
              imports == IF notes.claude = "not-imported" THEN {"imported"} ELSE {notes.claude} \ {"unreadable"}
          IN \/ /\ wrote # {} /\ imports # {}
                /\ notes' = [block |-> "up-to-date", claude |-> CHOOSE c \in imports : TRUE]
                /\ run' = [run EXCEPT !.at = "record"]
             \/ /\ notes' \in {notes} \cup {[notes EXCEPT !.block = b] : b \in wrote}
                /\ run' = [run EXCEPT !.at = "record", !.failed = TRUE]
  /\ UNCHANGED <<machines, cached, record, report, since, streaks>>

\* RecordPlugins: of every known agent, those whose list is not had as none.
Records(unlisted) ==
  /\ record' = [a \in Installing |-> Listed(a, unlisted)]
  /\ since' = [since EXCEPT !.unlisted = @ \/ unlisted # {},
                            !.misrecorded = \E a \in Installing : Scopes(a) # {} /\ Listed(a, unlisted) = {}]
RecordAfter(unlisted) ==
  /\ run.at = "record" /\ Records(unlisted)
  /\ run' = [run EXCEPT !.at = "report"]
  /\ UNCHANGED <<machines, cached, notes, report, streaks>>

-----------------------------------------------------------------------------
(* The report. *)

Lacks(a, unlisted) == (a \notin Installing \/ Listed(a, unlisted) = {}) /\ ReadsCopies(a) = {}
PluginBehind(a, unlisted) == a \in Installing /\ \E v \in Listed(a, unlisted) : StatusOf({v}) = "behind"

\* checkMessage
Issues(unlisted) ==
  {<<"no skills", a>> : a \in {b \in run.chosen : Lacks(b, unlisted)}}
  \cup {<<"behind", a>> : a \in {b \in run.chosen : PluginBehind(b, unlisted)}}
  \cup {<<CopyStatus(d), d>> : d \in {e \in AllCopies : CopyStatus(e) \in {"behind", "mixed"}}}
  \cup {<<"old names", d>> : d \in {e \in AllCopies : copies[e].old}}
  \cup IF ~machine.repo THEN {}
       ELSE IF BlockIs # "up-to-date" THEN {<<"block", BlockIs>>}
       ELSE IF ~Imports THEN {<<"import", "CLAUDE.md">>} ELSE {}

\* reportHints: what setup would install, update or write, and what it would not.
SetupWould(unlisted) ==
  \/ \E a \in run.chosen : (a \in Installing /\ Lacks(a, unlisted)) \/ PluginBehind(a, unlisted)
  \/ machine.repo /\ (BlockIs \in {"missing", "outdated"} \/ (BlockIs = "up-to-date" /\ ~Imports))
Hints(unlisted) ==
  (IF SetupWould(unlisted) THEN {"setup"} ELSE {})
  \cup (IF \E a \in run.chosen \ Installing : Lacks(a, unlisted) THEN {"by hand"} ELSE {})
  \cup (IF \E d \in AllCopies : CopyStatus(d) \in {"behind", "mixed"} THEN {"update copies"} ELSE {})
  \cup (IF \E d \in AllCopies : copies[d].old THEN {"remove copies"} ELSE {})
  \cup (IF machine.repo THEN {} ELSE {"init"})

Report(unlisted) ==
  /\ run.at = "report"
  /\ report' = [of |-> IF run.check THEN "check" ELSE "setup", issues |-> Issues(unlisted), hints |-> Hints(unlisted),
                failed |-> run.failed, outcome |-> run.outcome, agents |-> run.chosen, began |-> run.began, latest |-> cached]
  /\ since' = [since EXCEPT !.unlisted = @ \/ unlisted # {}]
  /\ run' = NoRun
  /\ UNCHANGED <<machines, cached, record, notes, streaks>>

\* A setup or check that is interrupted leaves what it did.
Interrupt ==
  /\ run.at # "idle" /\ run' = NoRun
  /\ UNCHANGED <<machines, cached, record, notes, report, since, streaks>>

-----------------------------------------------------------------------------
(* The notice and the badge, from the record. *)

RecordedBehind == {a \in Installing : record # Unrecorded /\ cached # 0 /\ \E v \in record[a] : v < cached}
CopiesBehind == {d \in AllCopies : cached # 0 /\ CopyStatus(d) \in {"behind", "mixed"}}
OtherIssues ==
  {d \in AllCopies : copies[d].old}
  \cup IF machine.repo /\ BlockIs # "unreadable" /\ (BlockIs # "up-to-date" \/ ~Imports) THEN {"notes"} ELSE {}
NoneRecorded == record # Unrecorded => \A a \in Installing : record[a] = {}
NoSkills == record # Unrecorded /\ NoneRecorded /\ AllCopies = {} /\ machine.found # {}

\* attention: what is behind, else what else there is, else that there are none.
Attention ==
  IF RecordedBehind \cup CopiesBehind \cup OtherIssues # {} THEN RecordedBehind \cup CopiesBehind \cup OtherIssues
  ELSE IF NoSkills THEN {"none"} ELSE {}

\* The background check's: the latest version, then the plugins.  Beside a setup
\* it is AgentNotices'.
Background ==
  /\ run.at = "idle"
  /\ cached' = release
  /\ \E unlisted \in SUBSET machine.clis : Records(unlisted)
  /\ UNCHANGED <<machines, notes, run, report, streaks>>

\* A release; and a person, who installs or removes a plugin in the agent's own CLI.
Publish ==
  /\ release < Releases /\ release' = release + 1
  /\ UNCHANGED <<machine, plugin, market, copies, cached, record, notes, run, report, since, streaks>>
ChangePlugin(a) ==
  /\ ~since.edited \* bound: one a run
  /\ \E v \in {NoVersion, market[a]} : plugin' = [plugin EXCEPT ![a].user = v]
  /\ since' = [since EXCEPT !.edited = TRUE, !.misrecorded = TRUE]
  /\ UNCHANGED <<machine, market, release, copies, cached, record, notes, run, report, streaks>>

-----------------------------------------------------------------------------
(* The hint after repeated failures. *)

\* setupHint: to an agent's machine that has none of the skills.
HintsSetup == machine.found # {} /\ NoneRecorded /\ AllCopies = {}
RecentOf(times) == SelectSeq(times, LAMBDA t : clock - t < HintWithin)

ReadStreak(s) ==
  /\ seen[s] = <<>> /\ Len(fails.times) <= HintAfter /\ Len(truth.times) <= HintAfter \* bound: the failures of a streak
  /\ seen' = [seen EXCEPT ![s] = <<fails>>]
  /\ UNCHANGED <<machines, cached, record, notes, run, report, since, fails, clock, truth>>
\* Failed: what was read, with this failure, is written back.
WriteStreak(s) ==
  /\ seen[s] # <<>>
  /\ LET times == Append(RecentOf(seen[s][1].times), clock)
         now == Append(RecentOf(truth.times), clock)
         hints == Len(times) >= HintAfter /\ ~seen[s][1].hinted /\ HintsSetup
         over == truth.raced \/ \E o \in Shells \ {s} : seen[o] # <<>>
     IN /\ fails' = [times |-> times, hinted |-> IF Len(times) >= HintAfter /\ ~seen[s][1].hinted THEN hints ELSE seen[s][1].hinted]
        /\ truth' = [times |-> now, hints |-> IF hints /\ truth.hints < 2 THEN truth.hints + 1 ELSE truth.hints,
                     raced |-> over, early |-> truth.early \/ (hints /\ ~(Len(now) >= HintAfter))]
  /\ seen' = [seen EXCEPT ![s] = <<>>]
  /\ UNCHANGED <<machines, cached, record, notes, run, report, since, clock>>
\* Succeeded
EndStreak ==
  /\ fails' = NoStreak
  /\ truth' = [times |-> <<>>, hints |-> 0, raced |-> \E s \in Shells : seen[s] # <<>>, early |-> FALSE]
  /\ UNCHANGED <<machines, cached, record, notes, run, report, since, seen, clock>>
Tick ==
  /\ clock < MaxTime /\ clock' = clock + 1
  /\ UNCHANGED <<machines, cached, record, notes, run, report, since, fails, seen, truth>>

-----------------------------------------------------------------------------
SetupNext ==
  \/ \E check, named \in BOOLEAN, chosen \in SUBSET (Known \cup {Other}) : Begins(check, named, chosen)
  \/ \E a \in Known \cup {Other} : Install(a)
  \/ Step \/ WriteNotes \/ Interrupt
  \/ \E unlisted \in SUBSET machine.clis : RecordAfter(unlisted) \/ Report(unlisted)
  \/ Background \/ Publish \/ \E a \in Installing : ChangePlugin(a)
StreakNext == (\E s \in Shells : ReadStreak(s) \/ WriteStreak(s)) \/ EndStreak \/ Tick

-----------------------------------------------------------------------------
Undisturbed == ~since.edited /\ ~since.unlisted /\ run.at = "idle"
Succeeded == report.of = "setup" /\ ~report.failed

\* An agent setup says it installed the skills for has the version that was the
\* latest as setup began, or a later one, whatever it had before and whatever is
\* released beside it; but where someone changed a plugin by hand meanwhile.
InstalledIsLatest ==
  report.of = "setup" /\ ~since.edited =>
    \A o \in report.outcome : o.is = "installed" => plugin[o.agent].user >= report.began

\* A setup that succeeds leaves nothing that running it again would do, and all
\* the notice may say then, of the agents it acted on, is of the copies, until a
\* later release is known; but for a plugin of the project's, which it does not
\* update, and an agent that it only found, and whose CLI is not on the PATH.
SetupSettlesAll ==
  Succeeded /\ Undisturbed =>
    /\ "setup" \in report.hints => \E a \in report.agents : a \in Installing /\ (plugin[a].project # NoVersion \/ a \notin machine.clis)
    /\ cached <= report.began => \A x \in Attention \ Folders :
         x = "none" \/ (x \in Installing /\ (x \notin report.agents \/ plugin[x].project # NoVersion))

\* "The anfra skills are up to date in every agent": every one of them asked
\* about has them, and no plugin of theirs is behind the version then cached.
UpToDateIsSo ==
  report.of = "check" /\ report.issues = {} /\ Undisturbed =>
    \A a \in report.agents :
      /\ (a \in Installing /\ Scopes(a) # {}) \/ ReadsCopies(a) # {}
      /\ a \in machine.clis /\ report.latest # 0 => \A v \in Scopes(a) : v >= report.latest

\* No notice that the agents have no skills where one has the plugin, as of the
\* record, unless its list was not had then.
NoneIsSo == Attention = {"none"} => since.misrecorded \/ \A a \in Installing : Scopes(a) = {}

\* One hint a streak, and after HintAfter failures within HintWithin of each
\* other since the last success; but where commands failed beside one another.
HintedOnce == truth.raced \/ (truth.hints <= 1 /\ ~truth.early)

SkillsAreSaid == InstalledIsLatest /\ SetupSettlesAll /\ UpToDateIsSo /\ NoneIsSo /\ HintedOnce
=============================================================================
