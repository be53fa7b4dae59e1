------------------------------- MODULE MCCli --------------------------------
(***************************************************************************)
(* What a person does with anfra at a terminal: a session of the console,  *)
(* a login, logout or publish's org, an agents' setup, and the hint after  *)
(* failures.  They share no state: a behaviour is of one of them, the      *)
(* others at rest.                                                         *)
(***************************************************************************)
EXTENDS Console, SignIn, AgentSetup

VARIABLE focus

vars == <<focus, consoleVars, signIn, agentSetup>>

OfConsole(A) == focus = "console" /\ A /\ UNCHANGED <<focus, signIn, agentSetup>>
OfSignIn(A) == focus = "sign in" /\ A /\ UNCHANGED <<focus, consoleVars, agentSetup>>
OfSetup(A) == focus = "setup" /\ A /\ UNCHANGED <<focus, consoleVars, signIn>>
OfStreak(A) == focus = "streak" /\ A /\ UNCHANGED <<focus, consoleVars, signIn>>

\* The others at rest.
ConsoleRests ==
  /\ mode = Commanding /\ flags = [lang |-> "", fmts |-> {}] /\ lang = "" /\ refused = FALSE /\ pc = "left" /\ entry = Nothing /\ count = 0
  /\ procs = <<>> /\ mine = {} /\ url = None /\ started = None /\ starting = None /\ unfound = {}
  /\ file = <<>> /\ next = 1 /\ read = [c \in Consoles |-> Idle] /\ during = {} /\ others = 0
SignInRests ==
  /\ command = "status" /\ linked = NoOrg /\ folders = <<>> /\ given = NoOrg
  /\ terminal = [interactive |-> FALSE, machine |-> FALSE, cloud |-> FALSE]
  /\ saved = {} /\ stale = {} /\ at = "end" /\ ask = Closed /\ target = NoOrg /\ work = NoWork /\ ctx = "live"
  /\ told = "nothing" /\ issued = NoGrant
  /\ past = [agreed |-> {}, canceled |-> FALSE, lost |-> FALSE, removed |-> {}, listed |-> {}]
\* For the hint, a machine with an agent and none of the skills.
SetupRests ==
  /\ machine = [clis |-> {}, found |-> ByHand, repo |-> FALSE]
  /\ plugin = [a \in Installing |-> [user |-> 0, project |-> 0]] /\ market = [a \in Installing |-> 0]
  /\ release = 1 /\ cached = 0 /\ record = Unrecorded /\ copies = [d \in Folders |-> [stamps |-> {}, old |-> FALSE]]
  /\ notes = [block |-> "missing", claude |-> "absent"] /\ run = NoRun /\ report = NoReport
  /\ since = [edited |-> FALSE, unlisted |-> FALSE, misrecorded |-> FALSE]
  /\ fails = NoStreak /\ seen = [s \in Shells |-> <<>>] /\ clock = 0
  /\ truth = [times |-> <<>>, hints |-> 0, raced |-> FALSE, early |-> FALSE]

\* The setups the run begins from, of all there are: in an anfra repo, every state
\* of its notes, with Claude Code alone; elsewhere up to two agents, with every
\* plugin and copy of theirs, but Codex where there are copies; a marketplace
\* where a plugin is.
SetupBegun ==
  /\ Cardinality(machine.found) <= 2
  /\ machine.repo => /\ machine.clis = {ClaudeCode} /\ machine.found = {ClaudeCode}
                     /\ plugin = [a \in Installing |-> [user |-> 0, project |-> 0]] /\ AllCopies = {}
  /\ AllCopies # {} => Codex \notin machine.found /\ plugin[Codex].user = 0
  /\ ~machine.repo => notes = [block |-> "missing", claude |-> "absent"]
  /\ market = [a \in Installing |-> IF Scopes(a) = {} THEN 0 ELSE 1]

Init ==
  /\ focus \in {"console", "sign in", "setup", "streak"}
  /\ IF focus = "console" THEN ConsoleInit ELSE ConsoleRests
  /\ IF focus = "sign in" THEN SignInInit ELSE SignInRests
  /\ IF focus = "setup" THEN AgentSetupInit /\ SetupBegun ELSE SetupRests
Next == OfConsole(ConsoleNext) \/ OfSignIn(SignInNext) \/ OfSetup(SetupNext) \/ OfStreak(StreakNext)
Spec == Init /\ [][Next]_vars

\* Every agent but Claude Code reads the one folder.
CopiesReadBy == [a \in Known |-> IF a = ClaudeCode THEN {} ELSE Folders]
=============================================================================
