---------------------------- MODULE AgentNotices ----------------------------
(***************************************************************************)
(* internal/agents: the plugins' record and the notice's (notice.go), in   *)
(* ~/.anfra/agents-check.json, which commands, the background check and    *)
(* setup read and rewrite with no lock; and the anfra block that setup     *)
(* keeps in a repo's AGENTS.md (agentsmd.go), a file people edit too.      *)
(* A line of AGENTS.md stands for any text it holds: a marker, what this   *)
(* anfra writes between them, or the repo's own.                           *)
(***************************************************************************)
EXTENDS Naturals, Sequences, SequencesExt

CONSTANTS
    Users,      \* commands at a terminal, checks and setups: slots of processes
    Own,        \* the lines a person writes
    MaxLines,   \* bounds AGENTS.md, where a person adds to it
    MaxEdits,   \* bounds the person's edits, and the agents' own updates
    MaxLost     \* bounds the kills and the writes that fail

Lines == {"begin", "end", "text"} \cup Own

VARIABLES
    agents,     \* agents-check.json
    at,         \* where each process is
    doing,      \* what it does: a command, or a recording
    read,       \* what it read of agents-check.json
    printed,    \* whether the notice printed within a day
    undone,     \* whether what says so was lost since, or could not be seen
    md,         \* AGENTS.md
    setup,      \* how the last setup left AGENTS.md: "none", "written" or "edited"
    edits, lost

fileVars == <<agents, at, doing, read, printed, undone, lost>>
mdVars == <<md, setup, edits>>
noticeVars == <<fileVars, mdVars>>

NoState == [recorded |-> FALSE, noticed |-> FALSE]
NotWhole == [torn |-> TRUE]

\* readState: a file that is not whole is none.
State == IF agents = NotWhole THEN NoState ELSE agents

\* A bug to catch: due as long as the plugins were not recorded.
DueTillRecorded == ~State.noticed \/ ~State.recorded

\* NoticeDue: noticed stands for less than a day ago.
Due == ~State.noticed

NoticesInit ==
    /\ agents = NoState
    /\ at = [u \in Users |-> "idle"]
    /\ doing = [u \in Users |-> "none"]
    /\ read = [u \in Users |-> NoState]
    /\ printed = FALSE /\ undone = FALSE
    /\ md = <<>> /\ setup = "none"
    /\ edits = 0 /\ lost = 0

To(u, where) == at' = [at EXCEPT ![u] = where]

-----------------------------------------------------------------------------
(* The notice after a command, and the record of the plugins. *)

\* A command ends, with something of the skills that needs attention.
Command(u) ==
    /\ at[u] = "idle" /\ Due
    /\ undone' = (undone \/ agents = NotWhole)
    /\ doing' = [doing EXCEPT ![u] = "mark"]
    /\ To(u, "read")
    /\ UNCHANGED <<agents, read, printed, lost, mdVars>>

\* RecordPlugins: the background check's, or a setup's.
Record(u) ==
    /\ at[u] = "idle"
    /\ doing' = [doing EXCEPT ![u] = "record"]
    /\ To(u, "read")
    /\ UNCHANGED <<agents, read, printed, undone, lost, mdVars>>

\* The agents' CLIs are asked between a recording's read and its write.
ReadState(u) ==
    /\ at[u] = "read"
    /\ read' = [read EXCEPT ![u] = State]
    /\ undone' = (undone \/ agents = NotWhole)
    /\ To(u, "open")
    /\ UNCHANGED <<agents, doing, printed, lost, mdVars>>

TruncateState(u) ==
    /\ at[u] = "open"
    /\ agents' = NotWhole
    /\ To(u, "put")
    /\ UNCHANGED <<doing, read, printed, undone, lost, mdVars>>

\* MarkNoticed, RecordPlugins: what was read is written back, but for its own.
NewState(u) == IF doing[u] = "mark" THEN [read[u] EXCEPT !.noticed = TRUE]
                                   ELSE [read[u] EXCEPT !.recorded = TRUE]

Prints(u) == doing[u] = "mark"

\* Another command that is about to print too.
OthersMark(u) == \E w \in Users \ {u} : doing[w] = "mark"

Over(u) == /\ To(u, "idle")
           /\ doing' = [doing EXCEPT ![u] = "none"]
           /\ read' = [read EXCEPT ![u] = NoState]

WriteState(u) ==
    /\ at[u] = "put"
    /\ agents' = NewState(u)
    /\ printed' = (printed \/ Prints(u))
    /\ undone' = IF Prints(u) THEN OthersMark(u)
                 ELSE undone \/ (printed /\ ~read[u].noticed)
    /\ Over(u)
    /\ UNCHANGED <<lost, mdVars>>

\* The write fails, which is not said: the notice prints all the same.
StateUnwritten(u) ==
    /\ at[u] = "open" /\ lost < MaxLost
    /\ lost' = lost + 1
    /\ printed' = (printed \/ Prints(u))
    /\ undone' = (undone \/ Prints(u))
    /\ Over(u)
    /\ UNCHANGED <<agents, mdVars>>

KillUser(u) ==
    /\ at[u] # "idle" /\ lost < MaxLost
    /\ lost' = lost + 1
    /\ Over(u)
    /\ UNCHANGED <<agents, printed, undone, mdVars>>

\* No command or recording takes a day.
Day ==
    /\ \A u \in Users : at[u] = "idle"
    /\ printed
    /\ printed' = FALSE /\ undone' = FALSE
    /\ agents' = IF agents = NotWhole THEN NotWhole ELSE [agents EXCEPT !.noticed = FALSE]
    /\ UNCHANGED <<at, doing, read, lost, mdVars>>

-----------------------------------------------------------------------------
(* The anfra block of AGENTS.md. *)

Block == <<"begin", "text", "end">>

At(line, lines) == {i \in DOMAIN lines : lines[i] = line}

\* A bug to catch: the block goes to the last end there is.
CurrentToLast(lines) ==
    LET begins == At("begin", lines)
        ends   == {j \in At("end", lines) : \E i \in begins : i < j}
    IN  IF ends = {} THEN <<>> ELSE <<Min(begins), Max(ends)>>

\* currentBlock: from the first begin to the first end after it; none is <<>>.
Current(lines) ==
    LET begins == At("begin", lines)
        ends   == {j \in At("end", lines) : \E i \in begins : i < j}
    IN  IF ends = {} THEN <<>>
        ELSE LET first == Min(begins)
                 last  == Min({j \in At("end", lines) : first < j})
             IN  <<first, last>>

\* withBlock
WithBlock(lines) ==
    LET current == Current(lines)
    IN  IF current = <<>> THEN lines \o Block
        ELSE SubSeq(lines, 1, current[1] - 1) \o Block
             \o SubSeq(lines, current[2] + 1, Len(lines))

\* CheckBlock
BlockState(lines) ==
    LET current == Current(lines)
    IN  IF current = <<>> THEN "missing"
        ELSE IF SubSeq(lines, current[1], current[2]) = Block THEN "up-to-date"
        ELSE "outdated"

\* Setup, of a repo
Setup ==
    /\ md' = WithBlock(md)
    /\ setup' = "written"
    /\ UNCHANGED <<fileVars, edits>>

\* A person adds or deletes a line.
Edit ==
    /\ edits < MaxEdits
    /\ \/ \E i \in 1 .. Len(md) + 1, line \in Lines :
            Len(md) < MaxLines /\ md' = InsertAt(md, i, line)
       \/ \E i \in DOMAIN md : md' = RemoveAt(md, i)
    /\ setup' = "edited"
    /\ edits' = edits + 1
    /\ UNCHANGED fileVars

-----------------------------------------------------------------------------
RecordsNext ==
    \/ \E u \in Users : \/ Command(u) \/ Record(u) \/ ReadState(u) \/ TruncateState(u) \/ WriteState(u)
                        \/ StateUnwritten(u) \/ KillUser(u)
    \/ Day

BlockNext == Setup \/ Edit

-----------------------------------------------------------------------------
(* What is promised. *)

\* The skills' notice prints at most once a day (notice.go:16, 115), however
\* commands, checks and setups overlap, unless the mark that says it printed
\* was lost or not to be seen: another command was about to print it too, a
\* recording of the plugins that read before it printed wrote after, the file
\* was being written as it was read, or could not be written.
NoticedDaily ==
    [][\A u \in Users : ((WriteState(u) \/ StateUnwritten(u)) /\ Prints(u)) => ~printed \/ undone]_noticeVars

\* What lies outside every block: outside a begin and the end next after it,
\* with no other marker between them.
Blocks(lines) ==
  {b \in At("begin", lines) \X At("end", lines) :
     b[1] < b[2] /\ \A i \in b[1] + 1 .. b[2] - 1 : lines[i] \notin {"begin", "end"}}
Outside(lines) == {i \in DOMAIN lines : \A b \in Blocks(lines) : i \notin b[1] .. b[2]}

\* The lines outside are the same ones, in the same order: what was put in
\* went to one place, and those after it moved together.
SameOutside(old, new) ==
  LET was == Outside(old)
  IN  \E start \in 0 .. Len(old) :
        LET moved(i) == IF i <= start THEN i ELSE i + Len(new) - Len(old)
        IN  /\ Outside(new) = {moved(i) : i \in was}
            /\ \A i \in was : new[moved(i)] = old[i]
            /\ \A i, j \in was : i < j => moved(i) < moved(j)

\* A begin that another follows before any end.
Unclosed(lines) == \E b, c \in At("begin", lines) : b < c /\ ~\E e \in At("end", lines) : b < e /\ e < c

\* Setup replaces its own block alone: "the rest of the file stays the repo's
\* own" (agentsmd.go:14-15), wherever people moved its markers, unless they
\* left a begin with no end of its own.
RestIsKept == [][Setup => SameOutside(md, md') \/ Unclosed(md)]_noticeVars

\* What setup leaves is up-to-date, so that running it again changes nothing,
\* unless a begin with no end of its own comes before the block.
SetupSettles == setup = "written" => BlockState(md) = "up-to-date" \/ Unclosed(md)

\* Both: the block is setup's, and the rest of AGENTS.md is not.
BlockIsSetups == RestIsKept /\ []SetupSettles
=============================================================================
