------------------------------ MODULE CliProofs ------------------------------
(***************************************************************************)
(* What anfra does and says at a terminal, for any orgs, agents, entries,  *)
(* servers and lines: a session of the console, a login, logout or         *)
(* publish's org, and an agents' setup and its check.                      *)
(***************************************************************************)
EXTENDS Console, SignIn, AgentSetup,
        SequenceTheorems, FiniteSetTheorems, NaturalsInduction, WellFoundedInduction, TLAPS

(* A session of anfra console.                                              *)

OneOf == {{}, {"json"}, {"yaml"}}

\* The session, its mode's flags and its own: at most one format each.
SessionShape ==
  /\ mode \in [cmd : Commands \cup {""}, lang : Langs \cup {""}, fmts : OneOf]
  /\ flags \in [lang : Langs \cup {""}, fmts : OneOf]
  /\ pc \in {"load", "rewrite", "type", "ready", "wait", "run", "left", "killed"} /\ count \in 0 .. MaxEntries

Between == {"load", "rewrite", "type"}

\* The lang is the mode's in effect, but after a line refused, and an entry has
\* the formats that were given with it and the session's.
InEffect ==
  /\ refused \in BOOLEAN /\ lang \in Langs \cup {""} /\ (~refused => lang = LangOf(mode, flags))
  /\ entry.text => (entry.read = entry.lang \/ refused) /\ pc \notin Between
  /\ entry.own \in OneOf /\ \E f \in OneOf : entry.fmts = entry.own \cup f

\* While the session lasts, the server it started last is the one that it stops;
\* those it started before have stopped, or were not found.
Owns ==
  /\ procs \in Seq({"booting", "serving", "stopped"}) /\ mine \subseteq 1 .. Len(procs) /\ unfound \subseteq mine
  /\ url \in 0 .. Len(procs) /\ started \in 0 .. Len(procs) /\ starting \in 0 .. Len(procs)
  /\ pc # "left" => \A s \in mine : s = started \/ procs[s] = "stopped" \/ s \in unfound
  /\ StopsItsServer

\* The lines of s are those of the entries up to top, in their order, with each
\* of the last ones that is not in d.
KeepsIn(s, top, d) ==
  /\ s \in Seq(Nat) /\ \A i \in 1 .. Len(s) : s[i] \in 1 .. top
  /\ \A i, j \in 1 .. Len(s) : i <= j => s[j] - s[i] >= j - i
  /\ \A n \in 1 .. top : n > top - Kept => n \in d \/ \E i \in 1 .. Len(s) : s[i] = n

\* So are the history's, and those a console is to write back.
HistoryIs ==
  /\ next \in Nat \ {0} /\ during \subseteq 1 .. next
  /\ KeepsIn(file, next - 1, during)
  /\ read \in [Consoles -> Seq(Int)] /\ \A c \in Consoles : read[c] = Idle \/ KeepsIn(read[c], next - 1, during)

ConsoleInv == SessionShape /\ InEffect /\ Owns /\ HistoryIs

LEMMA ConsoleIsTyped ==
  ASSUME ConsoleInv
  PROVE  ConsoleTypeOK
<1>1. /\ mode \in [cmd : Commands \cup {""}, lang : Langs \cup {""}, fmts : SUBSET Formats]
      /\ flags \in [lang : Langs \cup {""}, fmts : SUBSET Formats]
  BY DEF ConsoleInv, SessionShape, OneOf, Formats
<1>2. lang \in Langs \cup {""} /\ refused \in BOOLEAN
  BY DEF ConsoleInv, InEffect
<1>3. procs \in Seq({"booting", "serving", "stopped"}) /\ mine \subseteq DOMAIN procs /\ unfound \subseteq mine /\ {url, started, starting} \subseteq DOMAIN procs \cup {None}
  <2>1. procs \in Seq({"booting", "serving", "stopped"}) /\ DOMAIN procs = 1 .. Len(procs) /\ Len(procs) \in Nat
    BY LenProperties DEF ConsoleInv, Owns
  <2> QED
    BY <2>1 DEF ConsoleInv, Owns, None
<1>4. file \in Seq(Nat) /\ next \in Nat /\ read \in [Consoles -> Seq(Int)] /\ during \subseteq 1 .. next
  BY DEF ConsoleInv, HistoryIs, KeepsIn
<1> QED
  BY <1>1, <1>2, <1>3, <1>4 DEF ConsoleTypeOK, ConsoleInv, SessionShape

LEMMA OneOfIsOne ==
  ASSUME NEW f \in OneOf
  PROVE  Cardinality(f) \in Nat /\ Cardinality(f) <= 1
BY FS_EmptySet, FS_Singleton DEF OneOf

LEMMA ConsoleRunsAsEntered ==
  ASSUME SessionShape, InEffect
  PROVE  RunsAsEntered
<1>1. RunsAsRead
  BY DEF InEffect, RunsAsRead
<1>2. Cardinality(flags.fmts) <= 1
  BY OneOfIsOne DEF SessionShape
<1>3. ASSUME Cardinality(entry.fmts) > 1 PROVE entry.own # {} /\ ~(entry.fmts \subseteq entry.own)
  <2>1. PICK f \in OneOf : entry.fmts = entry.own \cup f
    BY DEF InEffect
  <2>2. entry.fmts \notin OneOf
    BY <1>3, OneOfIsOne
  <2> QED
    BY <2>1, <2>2 DEF InEffect
<1> QED
  BY <1>1, <1>2, <1>3 DEF RunsAsEntered, OneFormat

LEMMA ConsoleLeaves ==
  ASSUME Owns, HistoryIs
  PROVE  LeavesItsEntriesOnly
<1>1. file \in Seq(Nat) /\ Len(file) \in Nat /\ DOMAIN file = 1 .. Len(file) /\ next - 1 \in Nat
  BY LenProperties DEF HistoryIs, KeepsIn
<1>2. ASSUME NEW i \in 1 .. Len(file) - 1 PROVE file[i] < file[i + 1]
  <2>1. i \in 1 .. Len(file) /\ i + 1 \in 1 .. Len(file)
    BY <1>1
  <2>2. file[i] \in Nat /\ file[i + 1] \in Nat
    BY <1>1, <2>1, ElementOfSeq
  <2>3. file[i + 1] - file[i] >= (i + 1) - i
    BY <2>1 DEF HistoryIs, KeepsIn
  <2> QED
    BY <2>2, <2>3
<1>3. ASSUME NEW n \in 1 .. next - 1, n > next - 1 - Kept PROVE n \in ToSet(file) \cup during
  BY <1>1, <1>3 DEF HistoryIs, KeepsIn, ToSet
<1> QED
  BY <1>2, <1>3 DEF LeavesItsEntriesOnly, HistoryKept, Owns

-----------------------------------------------------------------------------
(* Its history. *)

\* What is cut from a history are lines before the last ones.
LEMMA RecentKeeps ==
  ASSUME NEW s, NEW top \in Nat, NEW d, KeepsIn(s, top, d)
  PROVE  KeepsIn(Recent(s), top, d)
<1>1. s \in Seq(Nat) /\ Len(s) \in Nat /\ Kept \in Nat
  BY LenProperties, ConsoleConstants DEF KeepsIn
<1>2. CASE Len(s) <= Kept
  BY <1>1, <1>2 DEF Recent
<1>3. CASE Len(s) > Kept
  <2> DEFINE m == Len(s) - Kept
             r == SubSeq(s, m + 1, Len(s))
  <2>1. Recent(s) = r /\ m \in Nat /\ m + 1 \in Int /\ Len(s) - (m + 1) + 1 = Kept /\ Len(s) = m + Kept
    BY <1>1, <1>3 DEF Recent
  <2>2. \A i \in m + 1 .. Len(s) : s[i] \in Nat
    BY <1>1, <2>1, ElementOfSeq
  <2>3. r \in Seq(Nat) /\ Len(r) = Kept /\ \A i \in 1 .. Kept : r[i] = s[m + i]
    <3>1. r \in Seq(Nat) /\ Len(r) = IF m + 1 <= Len(s) THEN Len(s) - (m + 1) + 1 ELSE 0
      BY <1>1, <2>1, <2>2, SubSeqProperties
    <3>2. \A i \in 1 .. Len(s) - (m + 1) + 1 : r[i] = s[m + 1 + i - 1]
      BY <1>1, <2>1, <2>2, SubSeqProperties
    <3>3. \A i \in 1 .. Kept : m + 1 + i - 1 = m + i
      BY <1>1, <2>1
    <3> HIDE DEF r
    <3> QED
      BY <1>1, <2>1, <3>1, <3>2, <3>3
  <2> HIDE DEF r
  <2>4. ASSUME NEW i \in 1 .. Kept PROVE m + i \in 1 .. Len(s)
    BY <1>1, <2>1
  <2>5. \A i \in 1 .. Len(r) : r[i] \in 1 .. top
    BY <2>3, <2>4 DEF KeepsIn
  <2>6. ASSUME NEW i \in 1 .. Len(r), NEW j \in 1 .. Len(r), i <= j PROVE r[j] - r[i] >= j - i
    <3>0. i \in 1 .. Kept /\ j \in 1 .. Kept
      BY <2>3
    <3>1. m + i \in 1 .. Len(s) /\ m + j \in 1 .. Len(s) /\ m + i <= m + j /\ (m + j) - (m + i) = j - i
      <4>1. m + i \in 1 .. Len(s) /\ m + j \in 1 .. Len(s)
        BY <2>4, <3>0
      <4>2. m \in Nat /\ i \in Nat /\ j \in Nat
        BY <1>1, <2>1, <3>0
      <4> HIDE DEF m
      <4> QED
        BY <2>6, <4>1, <4>2
    <3>2. s[m + j] - s[m + i] >= (m + j) - (m + i)
      BY <3>1 DEF KeepsIn
    <3> QED
      BY <2>3, <3>1, <3>2
  <2>7. ASSUME NEW n \in 1 .. top, n > top - Kept, n \notin d PROVE \E i \in 1 .. Len(r) : r[i] = n
    <3>1. PICK k \in 1 .. Len(s) : s[k] = n
      BY <2>7 DEF KeepsIn
    <3>2. Len(s) \in 1 .. Len(s) /\ k <= Len(s)
      BY <1>1, <3>1
    <3>3. s[Len(s)] - n >= Len(s) - k
      BY <3>1, <3>2 DEF KeepsIn
    <3>4. s[Len(s)] \in 1 .. top
      BY <3>2 DEF KeepsIn
    <3>5. k - m \in 1 .. Kept /\ m + (k - m) = k
      BY <1>1, <2>1, <2>7, <3>1, <3>3, <3>4
    <3> QED
      BY <2>3, <3>1, <3>5
  <2> QED
    BY <2>1, <2>3, <2>5, <2>6, <2>7 DEF KeepsIn
<1> QED
  BY <1>1, <1>2, <1>3

\* A line added is the last; one added while another console is to write its own
\* back is lost there.
LEMMA AppendKeeps ==
  ASSUME NEW s, NEW top \in Nat, NEW d, KeepsIn(s, top, d)
  PROVE  KeepsIn(Append(s, top + 1), top + 1, d) /\ KeepsIn(s, top + 1, d \cup {top + 1})
<1>1. s \in Seq(Nat) /\ Len(s) \in Nat /\ Kept \in Nat
  BY LenProperties, ConsoleConstants DEF KeepsIn
<1> DEFINE t == Append(s, top + 1)
<1>2. t \in Seq(Nat) /\ Len(t) = Len(s) + 1 /\ t[Len(s) + 1] = top + 1 /\ \A i \in 1 .. Len(s) : t[i] = s[i]
  BY <1>1, AppendProperties
<1> HIDE DEF t
<1>3. \A i \in 1 .. Len(s) : s[i] \in 1 .. top
  BY DEF KeepsIn
<1>4. \A i \in 1 .. Len(t) : t[i] \in 1 .. top + 1
  BY <1>1, <1>2, <1>3
<1>5. ASSUME NEW i \in 1 .. Len(t), NEW j \in 1 .. Len(t), i <= j PROVE t[j] - t[i] >= j - i
  <2>1. CASE j <= Len(s)
    <3>1. i \in 1 .. Len(s) /\ j \in 1 .. Len(s)
      BY <1>1, <1>2, <1>5, <2>1
    <3>2. s[j] - s[i] >= j - i
      BY <1>5, <3>1 DEF KeepsIn
    <3> QED
      BY <1>2, <3>1, <3>2
  <2>2. CASE j = Len(s) + 1 /\ i <= Len(s)
    <3>1. i \in 1 .. Len(s) /\ Len(s) \in 1 .. Len(s) /\ i <= Len(s)
      BY <1>1, <1>5, <2>2
    <3>2. s[Len(s)] - s[i] >= Len(s) - i
      BY <3>1 DEF KeepsIn
    <3>3. s[Len(s)] \in 1 .. top /\ s[i] \in 1 .. top
      BY <1>3, <3>1
    <3>4. t[j] = top + 1 /\ t[i] = s[i] /\ j = Len(s) + 1
      BY <1>2, <2>2, <3>1
    <3> DEFINE a == s[Len(s)]
               b == s[i]
               n == Len(s)
    <3>5. a \in Int /\ b \in Int /\ n \in Int /\ i \in Int /\ a <= top /\ a - b >= n - i
      BY <1>1, <3>1, <3>2, <3>3
    <3>6. t[j] = top + 1 /\ t[i] = b /\ j = n + 1
      BY <3>4
    <3> HIDE DEF a, b, n
    <3> QED
      BY <3>5, <3>6
  <2>3. CASE i = Len(s) + 1
    BY <1>1, <1>2, <1>5, <2>3
  <2> QED
    BY <1>1, <1>2, <2>1, <2>2, <2>3
<1>6. ASSUME NEW n \in 1 .. top + 1, n > (top + 1) - Kept, n \notin d PROVE \E i \in 1 .. Len(t) : t[i] = n
  <2>1. CASE n = top + 1
    BY <1>1, <1>2, <2>1
  <2>2. CASE n # top + 1
    <3>1. n \in 1 .. top /\ n > top - Kept
      BY <1>1, <1>6, <2>2
    <3>2. PICK i \in 1 .. Len(s) : s[i] = n
      BY <1>6, <3>1 DEF KeepsIn
    <3> QED
      BY <1>1, <1>2, <3>2
  <2> QED
    BY <2>1, <2>2
<1>7. KeepsIn(t, top + 1, d)
  BY <1>2, <1>4, <1>5, <1>6 DEF KeepsIn
<1>8. ASSUME NEW n \in 1 .. top + 1, n > (top + 1) - Kept, n \notin d \cup {top + 1} PROVE \E i \in 1 .. Len(s) : s[i] = n
  <2>1. n \in 1 .. top /\ n > top - Kept
    BY <1>1, <1>8
  <2> QED
    BY <1>8, <2>1 DEF KeepsIn
<1>9. \A i \in 1 .. Len(s) : s[i] \in 1 .. top + 1
  BY <1>3
<1>10. \A i, j \in 1 .. Len(s) : i <= j => s[j] - s[i] >= j - i
  BY DEF KeepsIn
<1>11. KeepsIn(s, top + 1, d \cup {top + 1})
  BY <1>1, <1>8, <1>9, <1>10 DEF KeepsIn
<1> QED
  BY <1>7, <1>11 DEF t

LEMMA AddLineKeeps ==
  ASSUME HistoryIs, AddLine
  PROVE  HistoryIs'
<1> DEFINE top == next - 1
<1>1. top \in Nat /\ top + 1 = next /\ next' = next + 1 /\ next' - 1 = next /\ file' = Append(file, next) /\ read' = read
  BY DEF HistoryIs, AddLine
<1>2. next' \in Nat \ {0} /\ during' \subseteq 1 .. next'
  BY <1>1 DEF HistoryIs, AddLine
<1>3. KeepsIn(file, top, during) /\ \A c \in Consoles : read[c] = Idle \/ KeepsIn(read[c], top, during)
  BY DEF HistoryIs
<1>4. during' = during \/ during' = during \cup {next}
  BY DEF AddLine
<1> HIDE DEF top
<1>5. KeepsIn(Append(file, top + 1), top + 1, during)
  BY <1>1, <1>3, AppendKeeps
<1>6. KeepsIn(file', next, during')
  BY <1>1, <1>4, <1>5 DEF KeepsIn
<1>7. ASSUME NEW c \in Consoles, read[c] # Idle PROVE KeepsIn(read[c], next, during')
  <2>1. during' = during \cup {top + 1}
    BY <1>1, <1>7 DEF AddLine
  <2> QED
    BY <1>1, <1>3, <1>7, <2>1, AppendKeeps
<1>8. read' \in [Consoles -> Seq(Int)]
  BY <1>1 DEF HistoryIs
<1> QED
  BY <1>1, <1>2, <1>6, <1>7, <1>8 DEF HistoryIs

LEMMA LoadKeeps ==
  ASSUME HistoryIs, NEW c \in Consoles, Load(c)
  PROVE  HistoryIs'
<1>1. UNCHANGED <<file, next, during>> /\ next - 1 \in Nat
  BY DEF HistoryIs, Load
<1> DEFINE had == IF Len(file) > 2 * Kept THEN Recent(file) ELSE Idle
<1>2. read' = [read EXCEPT ![c] = had] /\ read \in [Consoles -> Seq(Int)]
  BY DEF HistoryIs, Load
<1>3. KeepsIn(Recent(file), next - 1, during)
  BY <1>1, RecentKeeps DEF HistoryIs
<1>4. Recent(file) \in Seq(Int)
  BY <1>3, SeqMonotonic DEF KeepsIn
<1>5. Idle \in Seq(Int)
  BY DEF Idle
<1>6. had \in Seq(Int) /\ (had = Idle \/ KeepsIn(had, next - 1, during))
  BY <1>3, <1>4, <1>5
<1> HIDE DEF had
<1>7. read' \in [Consoles -> Seq(Int)] /\ \A o \in Consoles : read'[o] = IF o = c THEN had ELSE read[o]
  BY <1>2, <1>6
<1> QED
  BY <1>1, <1>6, <1>7 DEF HistoryIs

LEMMA RewriteKeeps ==
  ASSUME HistoryIs, NEW c \in Consoles, Rewrite(c)
  PROVE  HistoryIs'
<1>1. UNCHANGED <<next, during>> /\ file' = read[c] /\ read[c] # Idle /\ read' = [read EXCEPT ![c] = Idle] /\ read \in [Consoles -> Seq(Int)]
  BY DEF HistoryIs, Rewrite
<1>2. Idle \in Seq(Int)
  BY DEF Idle
<1>3. read' \in [Consoles -> Seq(Int)] /\ \A o \in Consoles : read'[o] = IF o = c THEN Idle ELSE read[o]
  BY <1>1, <1>2
<1> QED
  BY <1>1, <1>3 DEF HistoryIs

LEMMA HistoryStays ==
  ASSUME HistoryIs, UNCHANGED history
  PROVE  HistoryIs'
BY DEF HistoryIs, history

-----------------------------------------------------------------------------
(* Its server. *)

LEMMA OwnsStays ==
  ASSUME Owns, UNCHANGED server, pc # "left"
  PROVE  pc' # "left" => Owns'
BY DEF Owns, server, StopsItsServer

LEMMA EnsureOwns ==
  ASSUME Owns, Ensure, pc # "left", pc' # "left"
  PROVE  Owns'
<1>1. Len(procs) \in Nat /\ procs \in Seq({"booting", "serving", "stopped"}) /\ DOMAIN procs = 1 .. Len(procs)
  BY LenProperties DEF Owns
<1>2. CASE UNCHANGED server
  BY <1>2, OwnsStays
<1>3. CASE url' \in 0 .. Len(procs) /\ UNCHANGED <<procs, mine, started, starting, unfound>>
  BY <1>3 DEF Owns, StopsItsServer
<1>4. CASE /\ procs' = Append(procs, "booting") /\ started' = Len(procs') /\ starting' = Len(procs')
           /\ mine' = mine \cup {Len(procs')} /\ url' = None
           /\ unfound' = unfound \cup {s \in mine : procs[s] # "stopped"}
  <2>1. /\ procs' \in Seq({"booting", "serving", "stopped"}) /\ Len(procs') = Len(procs) + 1
        /\ \A i \in 1 .. Len(procs) : procs'[i] = procs[i]
    BY <1>1, <1>4, AppendProperties
  <2>2. ASSUME NEW s \in mine' PROVE s = started' \/ procs'[s] = "stopped" \/ s \in unfound'
    <3>1. CASE s \in mine
      <4>1. procs'[s] = procs[s]
        BY <2>1, <3>1 DEF Owns
      <4> QED
        BY <1>4, <3>1, <4>1
    <3>2. CASE s = Len(procs')
      BY <1>4, <3>2
    <3> QED
      BY <1>4, <2>2, <3>1, <3>2
  <2>3. mine' \subseteq 1 .. Len(procs')
    <3>1. mine \subseteq 1 .. Len(procs) /\ mine' = mine \cup {Len(procs) + 1}
      BY <1>4, <2>1 DEF Owns
    <3>2. ASSUME NEW s \in mine' PROVE s \in 1 .. Len(procs) + 1
      BY <1>1, <3>1
    <3> QED
      BY <2>1, <3>2
  <2>4. unfound' \subseteq mine'
    BY <1>4 DEF Owns
  <2>5. started' \in 0 .. Len(procs') /\ starting' \in 0 .. Len(procs') /\ url' \in 0 .. Len(procs')
    BY <1>1, <1>4, <2>1 DEF None
  <2> QED
    BY <2>1, <2>2, <2>3, <2>4, <2>5 DEF Owns, StopsItsServer
<1>5. Serving \subseteq 0 .. Len(procs) /\ None \in 0 .. Len(procs)
  BY <1>1 DEF Serving, None
<1>6. \/ UNCHANGED server
      \/ url' \in Serving /\ UNCHANGED <<procs, mine, started, starting, unfound>>
      \/ url' = None /\ UNCHANGED <<procs, mine, started, starting, unfound>>
      \/ /\ procs' = Append(procs, "booting") /\ started' = Len(procs') /\ starting' = Len(procs')
         /\ mine' = mine \cup {Len(procs')} /\ url' = None
         /\ unfound' = unfound \cup {s \in mine : procs[s] # "stopped"}
  BY DEF Ensure, FindsServer
<1> HIDE DEF Serving, None
<1> QED
  BY <1>2, <1>3, <1>4, <1>5, <1>6

LEMMA TurnOwns ==
  ASSUME Owns, pc # "left", NEW s \in DOMAIN procs, NEW state \in {"booting", "serving", "stopped"},
         procs[s] # "stopped", Turn(s, state)
  PROVE  Owns'
<1>1. s \in 1 .. Len(procs)
  BY LenProperties DEF Owns
<1>2. procs' = [procs EXCEPT ![s] = state] /\ UNCHANGED <<pc, mine, url, started, starting, unfound>>
  BY DEF Turn
<1>3. procs' \in Seq({"booting", "serving", "stopped"}) /\ Len(procs') = Len(procs)
  BY <1>1, <1>2, ExceptSeq DEF Owns
<1>4. ASSUME NEW t \in mine, procs[t] = "stopped" PROVE procs'[t] = "stopped"
  <2>1. t \in DOMAIN procs /\ t # s
    BY <1>4, LenProperties DEF Owns
  <2> QED
    BY <1>2, <1>4, <2>1
<1> QED
  BY <1>2, <1>3, <1>4 DEF Owns, StopsItsServer

LEMMA OtherServerOwns ==
  ASSUME Owns, pc # "left", OtherServer
  PROVE  Owns'
<1>1. Len(procs) \in Nat /\ procs' = Append(procs, "booting") /\ UNCHANGED <<pc, mine, url, started, starting, unfound>>
  BY LenProperties DEF Owns, OtherServer
<1>2. /\ procs' \in Seq({"booting", "serving", "stopped"}) /\ Len(procs') = Len(procs) + 1
      /\ \A i \in 1 .. Len(procs) : procs'[i] = procs[i]
  BY <1>1, AppendProperties DEF Owns
<1>3. \A t \in mine : t \in 1 .. Len(procs)
  BY DEF Owns
<1> QED
  BY <1>1, <1>2, <1>3 DEF Owns, StopsItsServer

LEMMA StopOwns ==
  ASSUME Owns, pc # "left", Stop, pc' = "left"
  PROVE  Owns'
<1>1. procs \in Seq({"booting", "serving", "stopped"}) /\ Len(procs) \in Nat /\ DOMAIN procs = 1 .. Len(procs)
  BY LenProperties DEF Owns
<1>2. /\ procs' = [s \in 1 .. Len(procs) |-> IF s \in {started} THEN "stopped" ELSE procs[s]]
      /\ started' = None /\ UNCHANGED <<mine, starting, unfound>> /\ (url' = None \/ url' = url)
  BY <1>1 DEF Stop, Stops
<1>3. procs' \in Seq({"booting", "serving", "stopped"}) /\ Len(procs') = Len(procs)
  <2>1. CASE started \in 1 .. Len(procs)
    <3>1. procs' = [procs EXCEPT ![started] = "stopped"]
      BY <1>1, <1>2, <2>1
    <3> QED
      BY <1>1, <2>1, <3>1, ExceptSeq
  <2>2. CASE started \notin 1 .. Len(procs)
    <3>1. procs' = procs
      BY <1>1, <1>2, <2>2
    <3> QED
      BY <1>1, <3>1
  <2> QED
    BY <2>1, <2>2
<1>4. ASSUME NEW s \in mine PROVE procs'[s] = "stopped" \/ s \in unfound
  <2>1. s \in 1 .. Len(procs) /\ (s = started \/ procs[s] = "stopped" \/ s \in unfound)
    BY <1>1 DEF Owns
  <2> QED
    BY <1>2, <2>1
<1> QED
  BY <1>1, <1>2, <1>3, <1>4 DEF Owns, StopsItsServer, None

-----------------------------------------------------------------------------
(* Its entries. *)

LEMMA ModesAre ==
  Modes \cup {Commanding} \subseteq [cmd : Commands \cup {""}, lang : Langs \cup {""}, fmts : OneOf]
<1>1. {} \in OneOf /\ {"json"} \in OneOf
  BY DEF OneOf
<1>2. "query" \in Commands /\ "search" \in Commands /\ "sql" \in Langs
  BY DEF Commands, Langs
<1>3. ASSUME NEW m \in Modes \cup {Commanding}
      PROVE  m \in [cmd : Commands \cup {""}, lang : Langs \cup {""}, fmts : OneOf]
  <2>1. CASE m = [cmd |-> "query", lang |-> "", fmts |-> {}]
    BY <1>1, <1>2, <2>1
  <2>2. CASE m = [cmd |-> "query", lang |-> "sql", fmts |-> {"json"}]
    BY <1>1, <1>2, <2>2
  <2>3. CASE m = [cmd |-> "search", lang |-> "", fmts |-> {}]
    BY <1>1, <1>2, <2>3
  <2>4. CASE m = [cmd |-> "", lang |-> "", fmts |-> {}]
    BY <1>1, <1>2, <2>4
  <2>5. CASE m = [cmd |-> "query", lang |-> "", fmts |-> {"json"}]
    BY <1>1, <1>2, <2>5
  <2> QED
    BY <1>3, <2>1, <2>2, <2>3, <2>4, <2>5 DEF Modes, Commanding
<1> QED
  BY <1>3

LEMMA LangIsOne ==
  ASSUME NEW m \in [cmd : Commands \cup {""}, lang : Langs \cup {""}, fmts : OneOf], NEW f \in [lang : Langs \cup {""}, fmts : OneOf]
  PROVE  LangOf(m, f) \in Langs \cup {""}
BY DEF LangOf, LangFor, Langs

LEMMA RefreshIs ==
  ASSUME SessionShape, InEffect, UNCHANGED <<pc, entry>>, pc = "type", count' \in 0 .. MaxEntries, NEW m, NEW f, Refresh(m, f),
         m \in [cmd : Commands \cup {""}, lang : Langs \cup {""}, fmts : OneOf], f \in [lang : Langs \cup {""}, fmts : OneOf]
  PROVE  SessionShape' /\ InEffect'
<1>1. mode' = m /\ flags' = f /\ lang' = LangOf(m, f) /\ ~refused' /\ refused' \in BOOLEAN
  BY DEF Refresh
<1>2. lang' = LangOf(mode', flags') /\ lang' \in Langs \cup {""}
  BY <1>1, LangIsOne
<1> QED
  BY <1>1, <1>2 DEF SessionShape, InEffect, Between

LEMMA TypingCounts ==
  ASSUME SessionShape, HistoryIs, Typing
  PROVE  count' \in 0 .. MaxEntries /\ HistoryIs' /\ pc = "type"
<1>1. MaxEntries \in Nat
  BY ConsoleConstants
<1>2. count \in 0 .. MaxEntries /\ count < MaxEntries /\ count' = count + 1 /\ AddLine /\ pc = "type"
  BY DEF SessionShape, Typing, Add
<1>3. count' \in 0 .. MaxEntries
  BY <1>1, <1>2
<1> QED
  BY <1>2, <1>3, AddLineKeeps

LEMMA SwitchModeKeeps ==
  ASSUME ConsoleInv, NEW m \in Modes \cup {Commanding}, SwitchMode(m)
  PROVE  ConsoleInv'
<1>1. count' \in 0 .. MaxEntries /\ HistoryIs' /\ pc = "type" /\ Refresh(m, flags) /\ Said /\ UNCHANGED <<pc, entry>>
  BY TypingCounts DEF ConsoleInv, SwitchMode, Said
<1>2. m \in [cmd : Commands \cup {""}, lang : Langs \cup {""}, fmts : OneOf]
  BY ModesAre
<1>3. SessionShape' /\ InEffect'
  BY <1>1, <1>2, RefreshIs DEF ConsoleInv, SessionShape
<1>4. Owns'
  BY <1>1, EnsureOwns, OwnsStays DEF ConsoleInv, Said
<1> QED
  BY <1>1, <1>3, <1>4 DEF ConsoleInv

LEMMA FlagsAre ==
  ASSUME SessionShape
  PROVE  /\ \A f \in Formats, on \in BOOLEAN : WithFormat(f, on) \in [lang : Langs \cup {""}, fmts : OneOf]
         /\ \A l \in {"", "sql"} : WithLang(l) \in [lang : Langs \cup {""}, fmts : OneOf]
<1>1. ASSUME NEW f \in Formats, NEW on \in BOOLEAN PROVE WithFormat(f, on) \in [lang : Langs \cup {""}, fmts : OneOf]
  <2>1. (IF on THEN (flags.fmts \ Alternatives(f)) \cup {f} ELSE flags.fmts \ {f}) \in OneOf
    BY DEF SessionShape, OneOf, Formats, Alternatives
  <2> QED
    BY <2>1 DEF SessionShape, WithFormat
<1>2. ASSUME NEW l \in {"", "sql"} PROVE WithLang(l) \in [lang : Langs \cup {""}, fmts : OneOf]
  BY DEF SessionShape, WithLang, Langs
<1> QED
  BY <1>1, <1>2

LEMMA SetFormatKeeps ==
  ASSUME ConsoleInv, NEW f \in Formats, NEW on \in BOOLEAN, SetFormat(f, on)
  PROVE  ConsoleInv'
<1>1. count' \in 0 .. MaxEntries /\ HistoryIs' /\ pc = "type" /\ Said /\ UNCHANGED <<pc, entry>>
  BY TypingCounts DEF ConsoleInv, SetFormat, Said
<1>2. SessionShape /\ InEffect
  BY DEF ConsoleInv
<1>3. SessionShape' /\ InEffect'
  <2>1. CASE mode.cmd # "" /\ f \in mode.fmts
    <3> DEFINE m == [mode EXCEPT !.fmts = (@ \ {f}) \cup (IF on THEN {f} ELSE {})]
    <3>1. Refresh(m, flags)
      BY <2>1 DEF SetFormat
    <3>2. (mode.fmts \ {f}) \cup (IF on THEN {f} ELSE {}) \in OneOf
      BY <1>2, <2>1 DEF SessionShape, OneOf, Formats
    <3>3. m \in [cmd : Commands \cup {""}, lang : Langs \cup {""}, fmts : OneOf] /\ flags \in [lang : Langs \cup {""}, fmts : OneOf]
      BY <1>2, <3>2 DEF SessionShape
    <3> HIDE DEF m
    <3> QED
      BY <1>1, <1>2, <3>1, <3>3, RefreshIs
  <2>2. CASE ~(mode.cmd # "" /\ f \in mode.fmts)
    <3>1. Refresh(mode, WithFormat(f, on))
      BY <2>2 DEF SetFormat
    <3>2. mode \in [cmd : Commands \cup {""}, lang : Langs \cup {""}, fmts : OneOf]
      BY <1>2 DEF SessionShape
    <3> QED
      BY <1>1, <1>2, <3>1, <3>2, FlagsAre, RefreshIs
  <2> QED
    BY <2>1, <2>2
<1>4. Owns'
  BY <1>1, EnsureOwns, OwnsStays DEF ConsoleInv, Said
<1> QED
  BY <1>1, <1>3, <1>4 DEF ConsoleInv

LEMMA SetLangKeeps ==
  ASSUME ConsoleInv, NEW l \in {"", "sql"}, SetLang(l)
  PROVE  ConsoleInv'
<1>1. count' \in 0 .. MaxEntries /\ HistoryIs' /\ pc = "type" /\ Said /\ UNCHANGED <<pc, entry>>
  BY TypingCounts DEF ConsoleInv, SetLang, Said
<1>2. SessionShape /\ InEffect
  BY DEF ConsoleInv
<1>3. SessionShape' /\ InEffect'
  <2> DEFINE m == [mode EXCEPT !.lang = l]
  <2>1. Refresh(m, flags) \/ Refresh(mode, WithLang(l))
    BY DEF SetLang
  <2>2. /\ {m, mode} \subseteq [cmd : Commands \cup {""}, lang : Langs \cup {""}, fmts : OneOf]
        /\ {WithLang(l), flags} \subseteq [lang : Langs \cup {""}, fmts : OneOf]
    BY <1>2, FlagsAre DEF SessionShape, Langs
  <2> HIDE DEF m
  <2> QED
    BY <1>1, <1>2, <2>1, <2>2, RefreshIs
<1>4. Owns'
  BY <1>1, EnsureOwns, OwnsStays DEF ConsoleInv, Said
<1> QED
  BY <1>1, <1>3, <1>4 DEF ConsoleInv

LEMMA SetRefusedKeeps ==
  ASSUME ConsoleInv, NEW f \in [lang : Langs \cup {""}, fmts : OneOf], SetRefused(f)
  PROVE  ConsoleInv'
<1>1. count' \in 0 .. MaxEntries /\ HistoryIs' /\ pc = "type" /\ Said /\ UNCHANGED <<pc, entry>>
  BY TypingCounts DEF ConsoleInv, SetRefused, Said
<1>2. flags' = f /\ refused' = (refused \/ f.lang # flags.lang) /\ UNCHANGED <<mode, lang>>
  BY DEF SetRefused
<1>3. SessionShape'
  BY <1>1, <1>2 DEF ConsoleInv, SessionShape
<1>4. refused' \in BOOLEAN /\ (~refused' => ~refused /\ f.lang = flags.lang)
  BY <1>2 DEF ConsoleInv, InEffect
<1>5. ~refused' => lang' = LangOf(mode', flags')
  <2>1. ASSUME f.lang = flags.lang PROVE LangOf(mode, f) = LangOf(mode, flags)
    BY <2>1 DEF LangOf, LangFor
  <2> QED
    BY <1>2, <1>4, <2>1 DEF ConsoleInv, InEffect
<1>6. InEffect'
  BY <1>1, <1>2, <1>4, <1>5 DEF ConsoleInv, InEffect, Between
<1>7. Owns'
  BY <1>1, EnsureOwns, OwnsStays DEF ConsoleInv, Said
<1> QED
  BY <1>1, <1>3, <1>6, <1>7 DEF ConsoleInv

\* A command, or text for the mode's, is run with what is in effect.
LEMMA RunsKeeps ==
  ASSUME ConsoleInv, NEW e, Runs(e), e.text => e.read = e.lang \/ refused, e.own \in OneOf, \E f \in OneOf : e.fmts = e.own \cup f
  PROVE  ConsoleInv'
<1>1. count' \in 0 .. MaxEntries /\ HistoryIs' /\ pc = "type" /\ entry' = e /\ pc' = "ready" /\ UNCHANGED <<mode, flags, lang, refused, server>>
  BY TypingCounts DEF ConsoleInv, Runs
<1>2. SessionShape'
  BY <1>1 DEF ConsoleInv, SessionShape
<1>3. InEffect'
  BY <1>1 DEF ConsoleInv, InEffect, Between
<1>4. Owns'
  BY <1>1, OwnsStays DEF ConsoleInv
<1> QED
  BY <1>1, <1>2, <1>3, <1>4 DEF ConsoleInv

LEMMA EnterKeeps ==
  ASSUME ConsoleInv, Enter
  PROVE  ConsoleInv'
<1>1. flags.fmts \in OneOf /\ mode.fmts \in OneOf /\ (~refused => lang = LangFor(mode.cmd, mode.lang, flags))
  BY DEF ConsoleInv, SessionShape, InEffect, LangOf
<1>2. ASSUME NEW cmd \in Commands, NEW l \in {"", "sql"}, NEW fmts \in {{}, {"json"}}, Command(cmd, l, fmts) PROVE ConsoleInv'
  <2> DEFINE e == WithFlags(cmd, l, fmts)
  <2>1. Runs(e)
    BY <1>2 DEF Command
  <2>2. ~e.text /\ e.own = fmts /\ e.fmts = fmts \cup flags.fmts
    BY DEF WithFlags
  <2>3. fmts \in OneOf
    BY DEF OneOf
  <2> HIDE DEF e
  <2> QED
    BY <1>1, <2>1, <2>2, <2>3, RunsKeeps
<1>3. CASE EnterText
  <2> DEFINE e == [WithFlags(mode.cmd, mode.lang, mode.fmts) EXCEPT !.text = TRUE]
  <2>1. Runs(e)
    BY <1>3 DEF EnterText
  <2>2. e.read = lang /\ e.lang = LangFor(mode.cmd, mode.lang, flags) /\ e.own = mode.fmts /\ e.fmts = mode.fmts \cup flags.fmts
    BY DEF WithFlags
  <2> HIDE DEF e
  <2> QED
    BY <1>1, <2>1, <2>2, RunsKeeps
<1> QED
  BY <1>2, <1>3, SwitchModeKeeps, SetFormatKeeps, SetLangKeeps, SetRefusedKeeps, FlagsAre DEF Enter, ConsoleInv

LEMMA ConsoleBegins ==
  ConsoleInit => ConsoleInv
<1> SUFFICES ASSUME ConsoleInit PROVE ConsoleInv
  OBVIOUS
<1>0. /\ mode \in Modes \cup {Commanding} /\ flags = [lang |-> "", fmts |-> {}] /\ lang = LangOf(mode, flags)
      /\ pc = "load" /\ entry = Nothing /\ count = 0 /\ procs = <<>> /\ mine = {} /\ unfound = {} /\ refused = FALSE /\ url = 0 /\ started = 0 /\ starting = 0
      /\ \E n \in Nat : file = [i \in 1 .. n |-> i] /\ next = n + 1
      /\ read = [c \in Consoles |-> Idle] /\ during = {}
  BY ConsoleConstants DEF ConsoleInit, None
<1>1. SessionShape
  <2>1. {} \in OneOf /\ 0 \in 0 .. MaxEntries
    BY ConsoleConstants DEF OneOf
  <2> QED
    BY <1>0, <2>1, ModesAre DEF SessionShape
<1>2. InEffect
  <2>1. LangOf(mode, flags) \in Langs \cup {""}
    BY <1>1, LangIsOne DEF SessionShape
  <2> QED
    BY <2>1 DEF ConsoleInit, InEffect, Nothing, OneOf
<1>3. Owns
  <2>1. <<>> \in Seq({"booting", "serving", "stopped"}) /\ Len(<<>>) = 0
    BY EmptySeq
  <2>2. procs \in Seq({"booting", "serving", "stopped"}) /\ Len(procs) = 0
    BY <1>0, <2>1
  <2>3. pc = "load" /\ mine = {} /\ unfound = {} /\ url = 0 /\ started = 0 /\ starting = 0
    BY <1>0
  <2> QED
    BY <2>2, <2>3 DEF Owns, StopsItsServer
<1>4. HistoryIs
  <2>1. PICK n \in Nat : file = [i \in 1 .. n |-> i] /\ next = n + 1
    BY <1>0
  <2>2. file \in Seq(Nat) /\ Len(file) = n
    BY <2>1
  <2>3. KeepsIn(file, next - 1, during)
    BY <2>1, <2>2 DEF KeepsIn
  <2>4. Idle \in Seq(Int)
    BY DEF Idle
  <2>5. read \in [Consoles -> Seq(Int)] /\ \A c \in Consoles : read[c] = Idle
    BY <1>0, <2>4
  <2>6. next \in Nat \ {0} /\ during \subseteq 1 .. next
    <3>1. next = n + 1 /\ during = {}
      BY <1>0, <2>1
    <3> QED
      BY <3>1
  <2> QED
    BY <2>3, <2>5, <2>6 DEF HistoryIs
<1> QED
  BY <1>1, <1>2, <1>3, <1>4 DEF ConsoleInv

\* Steps that leave the session's entries and flags alone.
LEMMA SessionStays ==
  ASSUME ConsoleInv, UNCHANGED session,
         pc' \in {"load", "rewrite", "type", "ready", "wait", "run", "left", "killed"}, pc' \in Between => pc \in Between
  PROVE  SessionShape' /\ InEffect'
BY DEF ConsoleInv, SessionShape, InEffect, session, Between

LEMMA ConsoleGoesOn ==
  ASSUME ConsoleInv, ConsoleNext
  PROVE  ConsoleInv'
<1>0. SessionShape /\ InEffect /\ Owns /\ HistoryIs /\ {"this", "other"} \subseteq Consoles
  BY DEF ConsoleInv, Consoles
<1> USE DEF ConsoleInv, Between
<1>1. CASE OpenSession
  <2>1. pc = "load" /\ pc' = "rewrite" /\ Load("this") /\ UNCHANGED session /\ (Ensure \/ UNCHANGED server)
    BY <1>1 DEF OpenSession
  <2>2. HistoryIs'
    BY <1>0, <2>1, LoadKeeps
  <2> QED
    BY <1>0, <2>1, <2>2, SessionStays, EnsureOwns, OwnsStays
<1>2. CASE StartRewrite
  <2>1. pc = "rewrite" /\ pc' = "type" /\ UNCHANGED <<session, server>> /\ (Rewrite("this") \/ UNCHANGED history)
    BY <1>2 DEF StartRewrite
  <2>2. HistoryIs'
    BY <1>0, <2>1, RewriteKeeps, HistoryStays
  <2> QED
    BY <1>0, <2>1, <2>2, SessionStays, OwnsStays
<1>3. CASE Enter
  BY <1>3, EnterKeeps
<1>4. CASE Ready
  <2>1. pc = "ready" /\ pc' \in {"run", "wait"} /\ UNCHANGED <<session, history>> /\ (Ensure \/ UNCHANGED server)
    BY <1>4 DEF Ready
  <2> QED
    BY <1>0, <2>1, SessionStays, HistoryStays, EnsureOwns, OwnsStays
<1>5. CASE Waited
  <2>1. pc = "wait" /\ pc' = "run" /\ UNCHANGED <<session, history, server>>
    BY <1>5 DEF Waited
  <2> QED
    BY <1>0, <2>1, SessionStays, HistoryStays, OwnsStays
<1>6. CASE Ran
  <2>1. pc = "run" /\ pc' = "type" /\ entry' = Nothing /\ UNCHANGED <<mode, flags, lang, refused, count, history, server>>
    BY <1>6 DEF Ran
  <2>2. SessionShape' /\ InEffect'
    BY <2>1 DEF SessionShape, InEffect, Nothing, OneOf
  <2> QED
    BY <1>0, <2>1, <2>2, HistoryStays, OwnsStays
<1>7. CASE Leave
  <2>1. pc # "left" /\ pc' = "left" /\ Stop /\ UNCHANGED <<session, history>>
    BY <1>7 DEF Leave
  <2> QED
    BY <1>0, <2>1, SessionStays, HistoryStays, StopOwns
<1>8. CASE Kill
  <2>1. pc # "left" /\ pc' = "killed" /\ UNCHANGED <<session, server, history>>
    BY <1>8 DEF Kill
  <2> QED
    BY <1>0, <2>1, SessionStays, HistoryStays, OwnsStays
<1>9. CASE Poll
  <2>1. /\ pc # "left" /\ UNCHANGED <<session, pc, history, procs, mine, started, unfound>>
        /\ starting' = 0 /\ (url' \in Serving \/ url' = url)
    BY <1>9 DEF Poll, Answered, FindsServer, WaitOver, None
  <2>2. DOMAIN procs = 1 .. Len(procs) /\ Len(procs) \in Nat
    BY <1>0, LenProperties DEF Owns
  <2>3. url' \in 0 .. Len(procs)
    BY <1>0, <2>1, <2>2 DEF Serving, Owns
  <2>4. Owns'
    BY <1>0, <2>1, <2>2, <2>3 DEF Owns, StopsItsServer
  <2> QED
    BY <1>0, <2>1, <2>4, SessionStays, HistoryStays DEF SessionShape
<1>10. CASE Beside
  <2>1. pc \notin {"left", "killed"}
    BY <1>10 DEF Beside
  <2>2. ASSUME UNCHANGED <<session, pc, server>>, HistoryIs' PROVE ConsoleInv'
    BY <1>0, <2>1, <2>2, SessionStays, OwnsStays DEF SessionShape
  <2>3. ASSUME UNCHANGED <<session, pc, history>>, Owns' PROVE ConsoleInv'
    BY <1>0, <2>3, SessionStays, HistoryStays DEF SessionShape
  <2>4. CASE OtherLoad \/ OtherRewrite \/ OtherAdd
    <3>1. HistoryIs'
      BY <1>0, <2>4, LoadKeeps, RewriteKeeps, AddLineKeeps DEF OtherLoad, OtherRewrite, OtherAdd
    <3>2. UNCHANGED <<session, pc, server>>
      BY <2>4 DEF OtherLoad, OtherRewrite, OtherAdd
    <3> QED
      BY <2>2, <3>1, <3>2
  <2>5. CASE OtherServer
    <3>1. Owns'
      BY <1>0, <2>1, <2>5, OtherServerOwns
    <3>2. UNCHANGED <<session, pc, history>>
      BY <2>5 DEF OtherServer
    <3> QED
      BY <2>3, <3>1, <3>2
  <2>6. ASSUME NEW s \in DOMAIN procs, Boot(s) \/ End(s) PROVE ConsoleInv'
    <3>1. PICK state \in {"booting", "serving", "stopped"} : Turn(s, state) /\ procs[s] # "stopped"
      BY <2>6 DEF Boot, End
    <3>2. Owns'
      BY <1>0, <2>1, <3>1, TurnOwns
    <3>3. UNCHANGED <<session, pc, history>>
      BY <3>1 DEF Turn
    <3> QED
      BY <2>3, <3>2, <3>3
  <2> QED
    BY <1>10, <2>4, <2>5, <2>6 DEF Beside
<1> QED
  BY <1>1, <1>2, <1>3, <1>4, <1>5, <1>6, <1>7, <1>8, <1>9, <1>10 DEF ConsoleNext

LEMMA ConsoleStays ==
  ASSUME ConsoleInv, UNCHANGED consoleVars
  PROVE  ConsoleInv'
<1>1. UNCHANGED <<mode, flags, lang, refused, entry, count, pc, procs, mine, url, started, starting, unfound, file, next, read, during>>
  BY DEF consoleVars, session, server, history
<1> QED
  BY <1>1 DEF ConsoleInv, SessionShape, InEffect, Owns, StopsItsServer, HistoryIs

\* The invariant holds whatever the person, the servers and the other console do.
LEMMA ConsoleInvariant == ConsoleInit /\ [][ConsoleNext]_consoleVars => []ConsoleInv
<1>1. ConsoleInv /\ [ConsoleNext]_consoleVars => ConsoleInv'
  BY ConsoleGoesOn, ConsoleStays
<1> QED
  BY <1>1, ConsoleBegins, PTL

\* Whatever flags were set, in a mode or beside one, and in which order, a line
\* of text runs in the language it was read in, but after a refused line that set
\* the session's, and in one format at most of the session's
\* (console_session.go).
THEOREM EntriesRunAsRead == ConsoleInit /\ [][ConsoleNext]_consoleVars => [](ConsoleTypeOK /\ RunsAsEntered)
<1>1. ConsoleInv => ConsoleTypeOK /\ RunsAsEntered
  BY ConsoleIsTyped, ConsoleRunsAsEntered DEF ConsoleInv
<1> QED
  BY <1>1, ConsoleInvariant, PTL

\* A session that ends, however its server's start, its end and the other
\* console's entries came between, stops its servers, but one it did not find
\* while it ran, and the history keeps the last entries of both
\* (console_server.go, console_history.go).
THEOREM SessionLeavesItsEntriesOnly == ConsoleInit /\ [][ConsoleNext]_consoleVars => []LeavesItsEntriesOnly
<1>1. ConsoleInv => LeavesItsEntriesOnly
  BY ConsoleLeaves DEF ConsoleInv
<1> QED
  BY <1>1, ConsoleInvariant, PTL

-----------------------------------------------------------------------------
(* A login, a logout, and an org to publish to.                             *)

Logins == {"login", "select", "recover"}
PickerChoices == {"url", "cloud", "another", "cancel", "change"}
Pickers == {"none", "address", "stored", "target", "linked", "alternative", "change", "confirm"}
Asked == [of : Pickers, choices : SUBSET (Orgs \cup PickerChoices), editing : BOOLEAN]
Works1 == [browser : {"closed", "opening", "open"}, callback : {"none", "denied", "code"},
           result : {"none", "canceled", "timed out", "failed", "signed in", "may stay", "none saved", "signed out", "removed"}]
Entries1 == [org : Orgs, login : {"valid", "invalid", "missing"}]
Pasts == [agreed : SUBSET Orgs, canceled : BOOLEAN, lost : BOOLEAN, removed : SUBSET Orgs, listed : SUBSET Entries1]

Grants == [org : Orgs \cup {NoOrg}, live : BOOLEAN]
Folders1 == [1 .. Depth -> [config : Orgs \cup {NoOrg, "none", "bad"}, boundary : BOOLEAN]]

SettingKnown ==
  /\ command \in Logins \cup {"logout", "status"}
  /\ linked \in Orgs \cup {NoOrg} /\ given \in Orgs \cup {NoOrg, "bad"}
  /\ terminal \in [interactive : BOOLEAN, machine : BOOLEAN, cloud : BOOLEAN]
  /\ command = "status" => folders \in Folders1
SavedKnown == saved \subseteq Orgs /\ stale \subseteq saved /\ (command # "status" => stale = {})
SignShape ==
  /\ SettingKnown /\ SavedKnown
  /\ at \in {"start", "pick", "connect", "wait", "exchange", "save", "revoke", "signout", "worked", "end"}
  /\ ask \in Asked /\ target \in Orgs \cup {NoOrg} /\ work \in Works1 /\ ctx \in {"live", "canceled", "expired"}
  /\ issued \in Grants /\ past \in Pasts

\* What a picker offers, to which command, with o in hand.
Offering(of, choices, o) ==
  \/ of = "address" /\ command \in Logins /\ choices \subseteq {"url", "cloud"}
  \/ of = "stored" /\ command = "logout" /\ choices \subseteq saved
  \/ of = "target" /\ command = "select" /\ choices \subseteq saved \cup {"another"}
  \/ of = "linked" /\ command = "recover" /\ choices = {linked, "another"}
  \/ of = "alternative" /\ command = "recover" /\ choices \subseteq saved \cup {"another"}
  \/ of = "change" /\ command = "recover" /\ choices = {"cancel", "change"} /\ o \in saved
  \/ of = "confirm" /\ command = "select" /\ choices = {o} /\ o \in saved
PickersOffer == at = "pick" => Offering(ask.of, ask.choices, target) /\ (ask.editing => ask.of = "address")

\* Which command is where, and what it has done there.
GoesOn ==
  /\ command = "status" => at \in {"start", "end"}
  /\ at \in {"connect", "wait", "exchange", "save", "revoke"} => command \in Logins
  /\ at = "signout" => command = "logout" /\ target \in Orgs /\ target \in {given} \cup past.agreed
  /\ at = "worked" /\ command # "logout" /\ work.result = "signed in" => target \in saved
  /\ at # "end" => told = "nothing"
  /\ command = "recover" => linked \in Orgs

\* Where a grant that lives can be: none before the exchange, and none once the
\* login starts over.
GrantIsKnown ==
  /\ issued.live => command \in Logins /\ issued.org \in Orgs /\ at \notin {"start", "connect", "wait", "signout"}
  /\ at = "pick" /\ issued.live => ask.of \in {"confirm", "change"} /\ issued.org \in saved
  /\ at = "save" => issued.live /\ target = issued.org
  /\ at = "revoke" => issued.live
  /\ at = "worked" /\ issued.live =>
       IF work.result = "signed in" THEN issued.org \in saved ELSE past.lost \/ work.result = "may stay"

SignInv ==
  SignShape /\ PickersOffer /\ GoesOn /\ GrantIsKnown
  /\ StatusIsOfItsRepo /\ GrantIsHeld /\ PublishesWhereAgreed /\ RemovesWhatIsNamed

LEMMA BackSigns ==
  ASSUME SignInv, Back
  PROVE  SignInv'
<1> USE SignInConstants DEF SignInv, Back, setting, Works, ErrorOf, Working
<1>1. SignShape'
  <2>1. SettingKnown'
    BY DEF SignShape, SettingKnown
  <2>2. SavedKnown'
    BY DEF SignShape, SavedKnown, GoesOn, GrantIsKnown
  <2>3. ask' \in Asked /\ target' \in Orgs \cup {NoOrg}
    BY DEF SignShape, Asked, Pickers, GrantIsKnown
  <2>4. work' \in Works1
    BY DEF SignShape, SettingKnown, Works1, Result
  <2>5. issued' \in Grants
    BY DEF SignShape, Grants
  <2>6. past' \in Pasts
    BY DEF SignShape, SettingKnown, Pasts, GoesOn
  <2>7. at' \in {"start", "pick", "connect", "wait", "exchange", "save", "revoke", "signout", "worked", "end"} /\ ctx' \in {"live", "canceled", "expired"}
    BY DEF SignShape
  <2> QED
    BY <2>1, <2>2, <2>3, <2>4, <2>5, <2>6, <2>7 DEF SignShape
<1>2. PickersOffer'
  BY DEF PickersOffer, Offering, SignShape, SettingKnown, SavedKnown, Grants, Asked
<1>3. GoesOn'
  BY ZenonT(40) DEF GoesOn, SignShape, SettingKnown, SavedKnown, Grants, Works1, Pasts, PickersOffer, GrantIsKnown
<1>4. GrantIsKnown'
  BY DEF GrantIsKnown, GoesOn, SignShape, SettingKnown, SavedKnown, Grants, PickersOffer, Works1, Pasts
<1>5. StatusIsOfItsRepo'
  BY DEF StatusIsOfItsRepo, GoesOn, Result, SignShape, SettingKnown, SavedKnown, Grants, Works1
<1>6. GrantIsHeld'
  BY DEF GrantIsHeld, GrantIsKnown, GoesOn, Result, SignShape, SettingKnown, SavedKnown, Grants, Works1, Pasts
<1>7. PublishesWhereAgreed' /\ RemovesWhatIsNamed'
  BY DEF PublishesWhereAgreed, RemovesWhatIsNamed, GoesOn, Result, SignShape, SettingKnown, SavedKnown, Grants, Works1, Pasts
<1> QED
  BY <1>1, <1>2, <1>3, <1>4, <1>5, <1>6, <1>7

LEMMA ConnectSigns ==
  ASSUME SignInv, Connect
  PROVE  SignInv'
<1> USE SignInConstants DEF SignInv, Connect, setting, Works, ErrorOf, Working
<1>1. SignShape'
  <2>1. SettingKnown'
    BY DEF SignShape, SettingKnown
  <2>2. SavedKnown'
    BY DEF SignShape, SavedKnown, GoesOn, GrantIsKnown
  <2>3. ask' \in Asked /\ target' \in Orgs \cup {NoOrg}
    BY DEF SignShape, Asked, Pickers, GrantIsKnown
  <2>4. work' \in Works1
    BY DEF SignShape, SettingKnown, Works1, Result
  <2>5. issued' \in Grants
    BY DEF SignShape, Grants
  <2>6. past' \in Pasts
    BY DEF SignShape, SettingKnown, Pasts, GoesOn
  <2>7. at' \in {"start", "pick", "connect", "wait", "exchange", "save", "revoke", "signout", "worked", "end"} /\ ctx' \in {"live", "canceled", "expired"}
    BY DEF SignShape
  <2> QED
    BY <2>1, <2>2, <2>3, <2>4, <2>5, <2>6, <2>7 DEF SignShape
<1>2. PickersOffer'
  BY DEF PickersOffer, Offering, SignShape, SettingKnown, SavedKnown, Grants, Asked
<1>3. GoesOn'
  BY ZenonT(40) DEF GoesOn, SignShape, SettingKnown, SavedKnown, Grants, Works1, Pasts, PickersOffer, GrantIsKnown
<1>4. GrantIsKnown'
  BY DEF GrantIsKnown, GoesOn, SignShape, SettingKnown, SavedKnown, Grants, PickersOffer, Works1, Pasts
<1>5. StatusIsOfItsRepo'
  BY DEF StatusIsOfItsRepo, GoesOn, Result, SignShape, SettingKnown, SavedKnown, Grants, Works1
<1>6. GrantIsHeld'
  BY DEF GrantIsHeld, GrantIsKnown, GoesOn, Result, SignShape, SettingKnown, SavedKnown, Grants, Works1, Pasts
<1>7. PublishesWhereAgreed' /\ RemovesWhatIsNamed'
  BY DEF PublishesWhereAgreed, RemovesWhatIsNamed, GoesOn, Result, SignShape, SettingKnown, SavedKnown, Grants, Works1, Pasts
<1> QED
  BY <1>1, <1>2, <1>3, <1>4, <1>5, <1>6, <1>7

LEMMA LaunchSigns ==
  ASSUME SignInv, Launch
  PROVE  SignInv'
<1> USE SignInConstants DEF SignInv, Launch, setting, Works, ErrorOf, Working
<1>1. SignShape'
  <2>1. SettingKnown'
    BY DEF SignShape, SettingKnown
  <2>2. SavedKnown'
    BY DEF SignShape, SavedKnown, GoesOn, GrantIsKnown
  <2>3. ask' \in Asked /\ target' \in Orgs \cup {NoOrg}
    BY DEF SignShape, Asked, Pickers, GrantIsKnown
  <2>4. work' \in Works1
    BY DEF SignShape, SettingKnown, Works1, Result
  <2>5. issued' \in Grants
    BY DEF SignShape, Grants
  <2>6. past' \in Pasts
    BY DEF SignShape, SettingKnown, Pasts, GoesOn
  <2>7. at' \in {"start", "pick", "connect", "wait", "exchange", "save", "revoke", "signout", "worked", "end"} /\ ctx' \in {"live", "canceled", "expired"}
    BY DEF SignShape
  <2> QED
    BY <2>1, <2>2, <2>3, <2>4, <2>5, <2>6, <2>7 DEF SignShape
<1>2. PickersOffer'
  BY DEF PickersOffer, Offering, SignShape, SettingKnown, SavedKnown, Grants, Asked
<1>3. GoesOn'
  BY ZenonT(40) DEF GoesOn, SignShape, SettingKnown, SavedKnown, Grants, Works1, Pasts, PickersOffer, GrantIsKnown
<1>4. GrantIsKnown'
  BY DEF GrantIsKnown, GoesOn, SignShape, SettingKnown, SavedKnown, Grants, PickersOffer, Works1, Pasts
<1>5. StatusIsOfItsRepo'
  BY DEF StatusIsOfItsRepo, GoesOn, Result, SignShape, SettingKnown, SavedKnown, Grants, Works1
<1>6. GrantIsHeld'
  BY DEF GrantIsHeld, GrantIsKnown, GoesOn, Result, SignShape, SettingKnown, SavedKnown, Grants, Works1, Pasts
<1>7. PublishesWhereAgreed' /\ RemovesWhatIsNamed'
  BY DEF PublishesWhereAgreed, RemovesWhatIsNamed, GoesOn, Result, SignShape, SettingKnown, SavedKnown, Grants, Works1, Pasts
<1> QED
  BY <1>1, <1>2, <1>3, <1>4, <1>5, <1>6, <1>7

LEMMA CallbackSigns ==
  ASSUME SignInv, NEW r \in Requests, Callback(r)
  PROVE  SignInv'
<1> USE SignInConstants DEF SignInv, Callback, setting, Works, ErrorOf, Working
<1>1. SignShape'
  <2>1. SettingKnown'
    BY DEF SignShape, SettingKnown
  <2>2. SavedKnown'
    BY DEF SignShape, SavedKnown, GoesOn, GrantIsKnown
  <2>3. ask' \in Asked /\ target' \in Orgs \cup {NoOrg}
    BY DEF SignShape, Asked, Pickers, GrantIsKnown
  <2>4. work' \in Works1
    BY DEF SignShape, SettingKnown, Works1, Result
  <2>5. issued' \in Grants
    BY DEF SignShape, Grants
  <2>6. past' \in Pasts
    BY DEF SignShape, SettingKnown, Pasts, GoesOn
  <2>7. at' \in {"start", "pick", "connect", "wait", "exchange", "save", "revoke", "signout", "worked", "end"} /\ ctx' \in {"live", "canceled", "expired"}
    BY DEF SignShape
  <2> QED
    BY <2>1, <2>2, <2>3, <2>4, <2>5, <2>6, <2>7 DEF SignShape
<1>2. PickersOffer'
  BY DEF PickersOffer, Offering, SignShape, SettingKnown, SavedKnown, Grants, Asked
<1>3. GoesOn'
  BY ZenonT(40) DEF GoesOn, SignShape, SettingKnown, SavedKnown, Grants, Works1, Pasts, PickersOffer, GrantIsKnown
<1>4. GrantIsKnown'
  BY DEF GrantIsKnown, GoesOn, SignShape, SettingKnown, SavedKnown, Grants, PickersOffer, Works1, Pasts
<1>5. StatusIsOfItsRepo'
  BY DEF StatusIsOfItsRepo, GoesOn, Result, SignShape, SettingKnown, SavedKnown, Grants, Works1
<1>6. GrantIsHeld'
  BY DEF GrantIsHeld, GrantIsKnown, GoesOn, Result, SignShape, SettingKnown, SavedKnown, Grants, Works1, Pasts
<1>7. PublishesWhereAgreed' /\ RemovesWhatIsNamed'
  BY DEF PublishesWhereAgreed, RemovesWhatIsNamed, GoesOn, Result, SignShape, SettingKnown, SavedKnown, Grants, Works1, Pasts
<1> QED
  BY <1>1, <1>2, <1>3, <1>4, <1>5, <1>6, <1>7

LEMMA TakeCallbackSigns ==
  ASSUME SignInv, TakeCallback
  PROVE  SignInv'
<1> USE SignInConstants DEF SignInv, TakeCallback, setting, Works, ErrorOf, Working
<1>1. SignShape'
  <2>1. SettingKnown'
    BY DEF SignShape, SettingKnown
  <2>2. SavedKnown'
    BY DEF SignShape, SavedKnown, GoesOn, GrantIsKnown
  <2>3. ask' \in Asked /\ target' \in Orgs \cup {NoOrg}
    BY DEF SignShape, Asked, Pickers, GrantIsKnown
  <2>4. work' \in Works1
    BY DEF SignShape, SettingKnown, Works1, Result
  <2>5. issued' \in Grants
    BY DEF SignShape, Grants
  <2>6. past' \in Pasts
    BY DEF SignShape, SettingKnown, Pasts, GoesOn
  <2>7. at' \in {"start", "pick", "connect", "wait", "exchange", "save", "revoke", "signout", "worked", "end"} /\ ctx' \in {"live", "canceled", "expired"}
    BY DEF SignShape
  <2> QED
    BY <2>1, <2>2, <2>3, <2>4, <2>5, <2>6, <2>7 DEF SignShape
<1>2. PickersOffer'
  BY DEF PickersOffer, Offering, SignShape, SettingKnown, SavedKnown, Grants, Asked
<1>3. GoesOn'
  BY ZenonT(40) DEF GoesOn, SignShape, SettingKnown, SavedKnown, Grants, Works1, Pasts, PickersOffer, GrantIsKnown
<1>4. GrantIsKnown'
  BY DEF GrantIsKnown, GoesOn, SignShape, SettingKnown, SavedKnown, Grants, PickersOffer, Works1, Pasts
<1>5. StatusIsOfItsRepo'
  BY DEF StatusIsOfItsRepo, GoesOn, Result, SignShape, SettingKnown, SavedKnown, Grants, Works1
<1>6. GrantIsHeld'
  BY DEF GrantIsHeld, GrantIsKnown, GoesOn, Result, SignShape, SettingKnown, SavedKnown, Grants, Works1, Pasts
<1>7. PublishesWhereAgreed' /\ RemovesWhatIsNamed'
  BY DEF PublishesWhereAgreed, RemovesWhatIsNamed, GoesOn, Result, SignShape, SettingKnown, SavedKnown, Grants, Works1, Pasts
<1> QED
  BY <1>1, <1>2, <1>3, <1>4, <1>5, <1>6, <1>7

LEMMA StopWaitingSigns ==
  ASSUME SignInv, StopWaiting
  PROVE  SignInv'
<1> USE SignInConstants DEF SignInv, StopWaiting, setting, Works, ErrorOf, Working
<1>1. SignShape'
  <2>1. SettingKnown'
    BY DEF SignShape, SettingKnown
  <2>2. SavedKnown'
    BY DEF SignShape, SavedKnown, GoesOn, GrantIsKnown
  <2>3. ask' \in Asked /\ target' \in Orgs \cup {NoOrg}
    BY DEF SignShape, Asked, Pickers, GrantIsKnown
  <2>4. work' \in Works1
    BY DEF SignShape, SettingKnown, Works1, Result
  <2>5. issued' \in Grants
    BY DEF SignShape, Grants
  <2>6. past' \in Pasts
    BY DEF SignShape, SettingKnown, Pasts, GoesOn
  <2>7. at' \in {"start", "pick", "connect", "wait", "exchange", "save", "revoke", "signout", "worked", "end"} /\ ctx' \in {"live", "canceled", "expired"}
    BY DEF SignShape
  <2> QED
    BY <2>1, <2>2, <2>3, <2>4, <2>5, <2>6, <2>7 DEF SignShape
<1>2. PickersOffer'
  BY DEF PickersOffer, Offering, SignShape, SettingKnown, SavedKnown, Grants, Asked
<1>3. GoesOn'
  BY ZenonT(40) DEF GoesOn, SignShape, SettingKnown, SavedKnown, Grants, Works1, Pasts, PickersOffer, GrantIsKnown
<1>4. GrantIsKnown'
  BY DEF GrantIsKnown, GoesOn, SignShape, SettingKnown, SavedKnown, Grants, PickersOffer, Works1, Pasts
<1>5. StatusIsOfItsRepo'
  BY DEF StatusIsOfItsRepo, GoesOn, Result, SignShape, SettingKnown, SavedKnown, Grants, Works1
<1>6. GrantIsHeld'
  BY DEF GrantIsHeld, GrantIsKnown, GoesOn, Result, SignShape, SettingKnown, SavedKnown, Grants, Works1, Pasts
<1>7. PublishesWhereAgreed' /\ RemovesWhatIsNamed'
  BY DEF PublishesWhereAgreed, RemovesWhatIsNamed, GoesOn, Result, SignShape, SettingKnown, SavedKnown, Grants, Works1, Pasts
<1> QED
  BY <1>1, <1>2, <1>3, <1>4, <1>5, <1>6, <1>7

LEMMA RefusedSigns ==
  ASSUME SignInv, Refused
  PROVE  SignInv'
<1> USE SignInConstants DEF SignInv, Refused, setting, Works, ErrorOf, Working
<1>1. SignShape'
  <2>1. SettingKnown'
    BY DEF SignShape, SettingKnown
  <2>2. SavedKnown'
    BY DEF SignShape, SavedKnown, GoesOn, GrantIsKnown
  <2>3. ask' \in Asked /\ target' \in Orgs \cup {NoOrg}
    BY DEF SignShape, Asked, Pickers, GrantIsKnown
  <2>4. work' \in Works1
    BY DEF SignShape, SettingKnown, Works1, Result
  <2>5. issued' \in Grants
    BY DEF SignShape, Grants
  <2>6. past' \in Pasts
    BY DEF SignShape, SettingKnown, Pasts, GoesOn
  <2>7. at' \in {"start", "pick", "connect", "wait", "exchange", "save", "revoke", "signout", "worked", "end"} /\ ctx' \in {"live", "canceled", "expired"}
    BY DEF SignShape
  <2> QED
    BY <2>1, <2>2, <2>3, <2>4, <2>5, <2>6, <2>7 DEF SignShape
<1>2. PickersOffer'
  BY DEF PickersOffer, Offering, SignShape, SettingKnown, SavedKnown, Grants, Asked
<1>3. GoesOn'
  BY ZenonT(40) DEF GoesOn, SignShape, SettingKnown, SavedKnown, Grants, Works1, Pasts, PickersOffer, GrantIsKnown
<1>4. GrantIsKnown'
  BY DEF GrantIsKnown, GoesOn, SignShape, SettingKnown, SavedKnown, Grants, PickersOffer, Works1, Pasts
<1>5. StatusIsOfItsRepo'
  BY DEF StatusIsOfItsRepo, GoesOn, Result, SignShape, SettingKnown, SavedKnown, Grants, Works1
<1>6. GrantIsHeld'
  BY DEF GrantIsHeld, GrantIsKnown, GoesOn, Result, SignShape, SettingKnown, SavedKnown, Grants, Works1, Pasts
<1>7. PublishesWhereAgreed' /\ RemovesWhatIsNamed'
  BY DEF PublishesWhereAgreed, RemovesWhatIsNamed, GoesOn, Result, SignShape, SettingKnown, SavedKnown, Grants, Works1, Pasts
<1> QED
  BY <1>1, <1>2, <1>3, <1>4, <1>5, <1>6, <1>7

LEMMA IssueSigns ==
  ASSUME SignInv, NEW o \in Orgs, Issue(o)
  PROVE  SignInv'
<1> USE SignInConstants DEF SignInv, Issue, setting, Works, ErrorOf, Working
<1>1. SignShape'
  <2>1. SettingKnown'
    BY DEF SignShape, SettingKnown
  <2>2. SavedKnown'
    BY DEF SignShape, SavedKnown, GoesOn, GrantIsKnown
  <2>3. ask' \in Asked /\ target' \in Orgs \cup {NoOrg}
    BY DEF SignShape, Asked, Pickers, GrantIsKnown
  <2>4. work' \in Works1
    BY DEF SignShape, SettingKnown, Works1, Result
  <2>5. issued' \in Grants
    BY DEF SignShape, Grants
  <2>6. past' \in Pasts
    BY DEF SignShape, SettingKnown, Pasts, GoesOn
  <2>7. at' \in {"start", "pick", "connect", "wait", "exchange", "save", "revoke", "signout", "worked", "end"} /\ ctx' \in {"live", "canceled", "expired"}
    BY DEF SignShape
  <2> QED
    BY <2>1, <2>2, <2>3, <2>4, <2>5, <2>6, <2>7 DEF SignShape
<1>2. PickersOffer'
  BY DEF PickersOffer, Offering, SignShape, SettingKnown, SavedKnown, Grants, Asked
<1>3. GoesOn'
  BY ZenonT(40) DEF GoesOn, SignShape, SettingKnown, SavedKnown, Grants, Works1, Pasts, PickersOffer, GrantIsKnown
<1>4. GrantIsKnown'
  BY DEF GrantIsKnown, GoesOn, SignShape, SettingKnown, SavedKnown, Grants, PickersOffer, Works1, Pasts
<1>5. StatusIsOfItsRepo'
  BY DEF StatusIsOfItsRepo, GoesOn, Result, SignShape, SettingKnown, SavedKnown, Grants, Works1
<1>6. GrantIsHeld'
  BY DEF GrantIsHeld, GrantIsKnown, GoesOn, Result, SignShape, SettingKnown, SavedKnown, Grants, Works1, Pasts
<1>7. PublishesWhereAgreed' /\ RemovesWhatIsNamed'
  BY DEF PublishesWhereAgreed, RemovesWhatIsNamed, GoesOn, Result, SignShape, SettingKnown, SavedKnown, Grants, Works1, Pasts
<1> QED
  BY <1>1, <1>2, <1>3, <1>4, <1>5, <1>6, <1>7

LEMMA ReplyLostSigns ==
  ASSUME SignInv, ReplyLost
  PROVE  SignInv'
<1> USE SignInConstants DEF SignInv, ReplyLost, setting, Works, ErrorOf, Working
<1>1. SignShape'
  <2>1. SettingKnown'
    BY DEF SignShape, SettingKnown
  <2>2. SavedKnown'
    BY DEF SignShape, SavedKnown, GoesOn, GrantIsKnown
  <2>3. ask' \in Asked /\ target' \in Orgs \cup {NoOrg}
    BY DEF SignShape, Asked, Pickers, GrantIsKnown
  <2>4. work' \in Works1
    BY DEF SignShape, SettingKnown, Works1, Result
  <2>5. issued' \in Grants
    BY DEF SignShape, Grants
  <2>6. past' \in Pasts
    BY DEF SignShape, SettingKnown, Pasts, GoesOn
  <2>7. at' \in {"start", "pick", "connect", "wait", "exchange", "save", "revoke", "signout", "worked", "end"} /\ ctx' \in {"live", "canceled", "expired"}
    BY DEF SignShape
  <2> QED
    BY <2>1, <2>2, <2>3, <2>4, <2>5, <2>6, <2>7 DEF SignShape
<1>2. PickersOffer'
  BY DEF PickersOffer, Offering, SignShape, SettingKnown, SavedKnown, Grants, Asked
<1>3. GoesOn'
  BY ZenonT(40) DEF GoesOn, SignShape, SettingKnown, SavedKnown, Grants, Works1, Pasts, PickersOffer, GrantIsKnown
<1>4. GrantIsKnown'
  BY DEF GrantIsKnown, GoesOn, SignShape, SettingKnown, SavedKnown, Grants, PickersOffer, Works1, Pasts
<1>5. StatusIsOfItsRepo'
  BY DEF StatusIsOfItsRepo, GoesOn, Result, SignShape, SettingKnown, SavedKnown, Grants, Works1
<1>6. GrantIsHeld'
  BY DEF GrantIsHeld, GrantIsKnown, GoesOn, Result, SignShape, SettingKnown, SavedKnown, Grants, Works1, Pasts
<1>7. PublishesWhereAgreed' /\ RemovesWhatIsNamed'
  BY DEF PublishesWhereAgreed, RemovesWhatIsNamed, GoesOn, Result, SignShape, SettingKnown, SavedKnown, Grants, Works1, Pasts
<1> QED
  BY <1>1, <1>2, <1>3, <1>4, <1>5, <1>6, <1>7

LEMMA ReplyUsedSigns ==
  ASSUME SignInv, ReplyUsed
  PROVE  SignInv'
<1> USE SignInConstants DEF SignInv, ReplyUsed, setting, Works, ErrorOf, Working
<1>1. SignShape'
  <2>1. SettingKnown'
    BY DEF SignShape, SettingKnown
  <2>2. SavedKnown'
    BY DEF SignShape, SavedKnown, GoesOn, GrantIsKnown
  <2>3. ask' \in Asked /\ target' \in Orgs \cup {NoOrg}
    BY DEF SignShape, Asked, Pickers, GrantIsKnown
  <2>4. work' \in Works1
    BY DEF SignShape, SettingKnown, Works1, Result
  <2>5. issued' \in Grants
    BY DEF SignShape, Grants
  <2>6. past' \in Pasts
    BY DEF SignShape, SettingKnown, Pasts, GoesOn
  <2>7. at' \in {"start", "pick", "connect", "wait", "exchange", "save", "revoke", "signout", "worked", "end"} /\ ctx' \in {"live", "canceled", "expired"}
    BY DEF SignShape
  <2> QED
    BY <2>1, <2>2, <2>3, <2>4, <2>5, <2>6, <2>7 DEF SignShape
<1>2. PickersOffer'
  BY DEF PickersOffer, Offering, SignShape, SettingKnown, SavedKnown, Grants, Asked
<1>3. GoesOn'
  BY ZenonT(40) DEF GoesOn, SignShape, SettingKnown, SavedKnown, Grants, Works1, Pasts, PickersOffer, GrantIsKnown
<1>4. GrantIsKnown'
  BY DEF GrantIsKnown, GoesOn, SignShape, SettingKnown, SavedKnown, Grants, PickersOffer, Works1, Pasts
<1>5. StatusIsOfItsRepo'
  BY DEF StatusIsOfItsRepo, GoesOn, Result, SignShape, SettingKnown, SavedKnown, Grants, Works1
<1>6. GrantIsHeld'
  BY DEF GrantIsHeld, GrantIsKnown, GoesOn, Result, SignShape, SettingKnown, SavedKnown, Grants, Works1, Pasts
<1>7. PublishesWhereAgreed' /\ RemovesWhatIsNamed'
  BY DEF PublishesWhereAgreed, RemovesWhatIsNamed, GoesOn, Result, SignShape, SettingKnown, SavedKnown, Grants, Works1, Pasts
<1> QED
  BY <1>1, <1>2, <1>3, <1>4, <1>5, <1>6, <1>7

LEMMA ReplyUnusableSigns ==
  ASSUME SignInv, ReplyUnusable
  PROVE  SignInv'
<1> USE SignInConstants DEF SignInv, ReplyUnusable, setting, Works, ErrorOf, Working
<1>1. SignShape'
  <2>1. SettingKnown'
    BY DEF SignShape, SettingKnown
  <2>2. SavedKnown'
    BY DEF SignShape, SavedKnown, GoesOn, GrantIsKnown
  <2>3. ask' \in Asked /\ target' \in Orgs \cup {NoOrg}
    BY DEF SignShape, Asked, Pickers, GrantIsKnown
  <2>4. work' \in Works1
    BY DEF SignShape, SettingKnown, Works1, Result
  <2>5. issued' \in Grants
    BY DEF SignShape, Grants
  <2>6. past' \in Pasts
    BY DEF SignShape, SettingKnown, Pasts, GoesOn
  <2>7. at' \in {"start", "pick", "connect", "wait", "exchange", "save", "revoke", "signout", "worked", "end"} /\ ctx' \in {"live", "canceled", "expired"}
    BY DEF SignShape
  <2> QED
    BY <2>1, <2>2, <2>3, <2>4, <2>5, <2>6, <2>7 DEF SignShape
<1>2. PickersOffer'
  BY DEF PickersOffer, Offering, SignShape, SettingKnown, SavedKnown, Grants, Asked
<1>3. GoesOn'
  BY ZenonT(40) DEF GoesOn, SignShape, SettingKnown, SavedKnown, Grants, Works1, Pasts, PickersOffer, GrantIsKnown
<1>4. GrantIsKnown'
  BY DEF GrantIsKnown, GoesOn, SignShape, SettingKnown, SavedKnown, Grants, PickersOffer, Works1, Pasts
<1>5. StatusIsOfItsRepo'
  BY DEF StatusIsOfItsRepo, GoesOn, Result, SignShape, SettingKnown, SavedKnown, Grants, Works1
<1>6. GrantIsHeld'
  BY DEF GrantIsHeld, GrantIsKnown, GoesOn, Result, SignShape, SettingKnown, SavedKnown, Grants, Works1, Pasts
<1>7. PublishesWhereAgreed' /\ RemovesWhatIsNamed'
  BY DEF PublishesWhereAgreed, RemovesWhatIsNamed, GoesOn, Result, SignShape, SettingKnown, SavedKnown, Grants, Works1, Pasts
<1> QED
  BY <1>1, <1>2, <1>3, <1>4, <1>5, <1>6, <1>7

LEMMA SaveSigns ==
  ASSUME SignInv, Save
  PROVE  SignInv'
<1> USE SignInConstants DEF SignInv, Save, setting, Works, ErrorOf, Working
<1>1. SignShape'
  <2>1. SettingKnown'
    BY DEF SignShape, SettingKnown
  <2>2. SavedKnown'
    BY DEF SignShape, SavedKnown, GoesOn, GrantIsKnown
  <2>3. ask' \in Asked /\ target' \in Orgs \cup {NoOrg}
    BY DEF SignShape, Asked, Pickers, GrantIsKnown
  <2>4. work' \in Works1
    BY DEF SignShape, SettingKnown, Works1, Result
  <2>5. issued' \in Grants
    BY DEF SignShape, Grants
  <2>6. past' \in Pasts
    BY DEF SignShape, SettingKnown, Pasts, GoesOn
  <2>7. at' \in {"start", "pick", "connect", "wait", "exchange", "save", "revoke", "signout", "worked", "end"} /\ ctx' \in {"live", "canceled", "expired"}
    BY DEF SignShape
  <2> QED
    BY <2>1, <2>2, <2>3, <2>4, <2>5, <2>6, <2>7 DEF SignShape
<1>2. PickersOffer'
  BY DEF PickersOffer, Offering, SignShape, SettingKnown, SavedKnown, Grants, Asked
<1>3. GoesOn'
  BY ZenonT(40) DEF GoesOn, SignShape, SettingKnown, SavedKnown, Grants, Works1, Pasts, PickersOffer, GrantIsKnown
<1>4. GrantIsKnown'
  BY DEF GrantIsKnown, GoesOn, SignShape, SettingKnown, SavedKnown, Grants, PickersOffer, Works1, Pasts
<1>5. StatusIsOfItsRepo'
  BY DEF StatusIsOfItsRepo, GoesOn, Result, SignShape, SettingKnown, SavedKnown, Grants, Works1
<1>6. GrantIsHeld'
  BY DEF GrantIsHeld, GrantIsKnown, GoesOn, Result, SignShape, SettingKnown, SavedKnown, Grants, Works1, Pasts
<1>7. PublishesWhereAgreed' /\ RemovesWhatIsNamed'
  BY DEF PublishesWhereAgreed, RemovesWhatIsNamed, GoesOn, Result, SignShape, SettingKnown, SavedKnown, Grants, Works1, Pasts
<1> QED
  BY <1>1, <1>2, <1>3, <1>4, <1>5, <1>6, <1>7

LEMMA SaveFailsSigns ==
  ASSUME SignInv, SaveFails
  PROVE  SignInv'
<1> USE SignInConstants DEF SignInv, SaveFails, setting, Works, ErrorOf, Working
<1>1. SignShape'
  <2>1. SettingKnown'
    BY DEF SignShape, SettingKnown
  <2>2. SavedKnown'
    BY DEF SignShape, SavedKnown, GoesOn, GrantIsKnown
  <2>3. ask' \in Asked /\ target' \in Orgs \cup {NoOrg}
    BY DEF SignShape, Asked, Pickers, GrantIsKnown
  <2>4. work' \in Works1
    BY DEF SignShape, SettingKnown, Works1, Result
  <2>5. issued' \in Grants
    BY DEF SignShape, Grants
  <2>6. past' \in Pasts
    BY DEF SignShape, SettingKnown, Pasts, GoesOn
  <2>7. at' \in {"start", "pick", "connect", "wait", "exchange", "save", "revoke", "signout", "worked", "end"} /\ ctx' \in {"live", "canceled", "expired"}
    BY DEF SignShape
  <2> QED
    BY <2>1, <2>2, <2>3, <2>4, <2>5, <2>6, <2>7 DEF SignShape
<1>2. PickersOffer'
  BY DEF PickersOffer, Offering, SignShape, SettingKnown, SavedKnown, Grants, Asked
<1>3. GoesOn'
  BY ZenonT(40) DEF GoesOn, SignShape, SettingKnown, SavedKnown, Grants, Works1, Pasts, PickersOffer, GrantIsKnown
<1>4. GrantIsKnown'
  BY DEF GrantIsKnown, GoesOn, SignShape, SettingKnown, SavedKnown, Grants, PickersOffer, Works1, Pasts
<1>5. StatusIsOfItsRepo'
  BY DEF StatusIsOfItsRepo, GoesOn, Result, SignShape, SettingKnown, SavedKnown, Grants, Works1
<1>6. GrantIsHeld'
  BY DEF GrantIsHeld, GrantIsKnown, GoesOn, Result, SignShape, SettingKnown, SavedKnown, Grants, Works1, Pasts
<1>7. PublishesWhereAgreed' /\ RemovesWhatIsNamed'
  BY DEF PublishesWhereAgreed, RemovesWhatIsNamed, GoesOn, Result, SignShape, SettingKnown, SavedKnown, Grants, Works1, Pasts
<1> QED
  BY <1>1, <1>2, <1>3, <1>4, <1>5, <1>6, <1>7

LEMMA RevokeSigns ==
  ASSUME SignInv, Revoke
  PROVE  SignInv'
<1> USE SignInConstants DEF SignInv, Revoke, setting, Works, ErrorOf, Working
<1>1. SignShape'
  <2>1. SettingKnown'
    BY DEF SignShape, SettingKnown
  <2>2. SavedKnown'
    BY DEF SignShape, SavedKnown, GoesOn, GrantIsKnown
  <2>3. ask' \in Asked /\ target' \in Orgs \cup {NoOrg}
    BY DEF SignShape, Asked, Pickers, GrantIsKnown
  <2>4. work' \in Works1
    BY DEF SignShape, SettingKnown, Works1, Result
  <2>5. issued' \in Grants
    BY DEF SignShape, Grants
  <2>6. past' \in Pasts
    BY DEF SignShape, SettingKnown, Pasts, GoesOn
  <2>7. at' \in {"start", "pick", "connect", "wait", "exchange", "save", "revoke", "signout", "worked", "end"} /\ ctx' \in {"live", "canceled", "expired"}
    BY DEF SignShape
  <2> QED
    BY <2>1, <2>2, <2>3, <2>4, <2>5, <2>6, <2>7 DEF SignShape
<1>2. PickersOffer'
  BY DEF PickersOffer, Offering, SignShape, SettingKnown, SavedKnown, Grants, Asked
<1>3. GoesOn'
  BY ZenonT(40) DEF GoesOn, SignShape, SettingKnown, SavedKnown, Grants, Works1, Pasts, PickersOffer, GrantIsKnown
<1>4. GrantIsKnown'
  BY ZenonT(40) DEF GrantIsKnown, GoesOn, SignShape, SettingKnown, SavedKnown, Grants, PickersOffer, Works1, Pasts
<1>5. StatusIsOfItsRepo'
  BY DEF StatusIsOfItsRepo, GoesOn, Result, SignShape, SettingKnown, SavedKnown, Grants, Works1
<1>6. GrantIsHeld'
  BY DEF GrantIsHeld, GrantIsKnown, GoesOn, Result, SignShape, SettingKnown, SavedKnown, Grants, Works1, Pasts
<1>7. PublishesWhereAgreed' /\ RemovesWhatIsNamed'
  BY DEF PublishesWhereAgreed, RemovesWhatIsNamed, GoesOn, Result, SignShape, SettingKnown, SavedKnown, Grants, Works1, Pasts
<1> QED
  BY <1>1, <1>2, <1>3, <1>4, <1>5, <1>6, <1>7

LEMMA SignOutSigns ==
  ASSUME SignInv, SignOut
  PROVE  SignInv'
<1> USE SignInConstants DEF SignInv, SignOut, setting, Works, ErrorOf, Working
<1>1. SignShape'
  <2>1. SettingKnown'
    BY DEF SignShape, SettingKnown
  <2>2. SavedKnown'
    BY DEF SignShape, SavedKnown, GoesOn, GrantIsKnown
  <2>3. ask' \in Asked /\ target' \in Orgs \cup {NoOrg}
    BY DEF SignShape, Asked, Pickers, GrantIsKnown
  <2>4. work' \in Works1
    BY DEF SignShape, SettingKnown, Works1, Result
  <2>5. issued' \in Grants
    BY DEF SignShape, Grants
  <2>6. past' \in Pasts
    BY DEF SignShape, SettingKnown, Pasts, GoesOn
  <2>7. at' \in {"start", "pick", "connect", "wait", "exchange", "save", "revoke", "signout", "worked", "end"} /\ ctx' \in {"live", "canceled", "expired"}
    BY DEF SignShape
  <2> QED
    BY <2>1, <2>2, <2>3, <2>4, <2>5, <2>6, <2>7 DEF SignShape
<1>2. PickersOffer'
  BY DEF PickersOffer, Offering, SignShape, SettingKnown, SavedKnown, Grants, Asked
<1>3. GoesOn'
  BY ZenonT(40) DEF GoesOn, SignShape, SettingKnown, SavedKnown, Grants, Works1, Pasts, PickersOffer, GrantIsKnown
<1>4. GrantIsKnown'
  BY DEF GrantIsKnown, GoesOn, SignShape, SettingKnown, SavedKnown, Grants, PickersOffer, Works1, Pasts
<1>5. StatusIsOfItsRepo'
  BY DEF StatusIsOfItsRepo, GoesOn, Result, SignShape, SettingKnown, SavedKnown, Grants, Works1
<1>6. GrantIsHeld'
  BY DEF GrantIsHeld, GrantIsKnown, GoesOn, Result, SignShape, SettingKnown, SavedKnown, Grants, Works1, Pasts
<1>7. PublishesWhereAgreed' /\ RemovesWhatIsNamed'
  <2>1. PublishesWhereAgreed'
    BY DEF PublishesWhereAgreed, GoesOn
  <2>2. given' = given /\ past'.agreed = past.agreed /\ past'.removed \subseteq past.removed \cup {target}
    BY DEF SignShape, Pasts
  <2>3. target \in {given} \cup past.agreed
    BY DEF GoesOn
  <2> QED
    BY <2>1, <2>2, <2>3 DEF RemovesWhatIsNamed
<1> QED
  BY <1>1, <1>2, <1>3, <1>4, <1>5, <1>6, <1>7

LEMMA CancelSigns ==
  ASSUME SignInv, Cancel
  PROVE  SignInv'
<1> USE SignInConstants DEF SignInv, Cancel, setting, Works, ErrorOf, Working
<1>1. SignShape'
  <2>1. SettingKnown'
    BY DEF SignShape, SettingKnown
  <2>2. SavedKnown'
    BY DEF SignShape, SavedKnown, GoesOn, GrantIsKnown
  <2>3. ask' \in Asked /\ target' \in Orgs \cup {NoOrg}
    BY DEF SignShape, Asked, Pickers, GrantIsKnown
  <2>4. work' \in Works1
    BY DEF SignShape, SettingKnown, Works1, Result
  <2>5. issued' \in Grants
    BY DEF SignShape, Grants
  <2>6. past' \in Pasts
    BY DEF SignShape, SettingKnown, Pasts, GoesOn
  <2>7. at' \in {"start", "pick", "connect", "wait", "exchange", "save", "revoke", "signout", "worked", "end"} /\ ctx' \in {"live", "canceled", "expired"}
    BY DEF SignShape
  <2> QED
    BY <2>1, <2>2, <2>3, <2>4, <2>5, <2>6, <2>7 DEF SignShape
<1>2. PickersOffer'
  BY DEF PickersOffer, Offering, SignShape, SettingKnown, SavedKnown, Grants, Asked
<1>3. GoesOn'
  BY ZenonT(40) DEF GoesOn, SignShape, SettingKnown, SavedKnown, Grants, Works1, Pasts, PickersOffer, GrantIsKnown
<1>4. GrantIsKnown'
  BY DEF GrantIsKnown, GoesOn, SignShape, SettingKnown, SavedKnown, Grants, PickersOffer, Works1, Pasts
<1>5. StatusIsOfItsRepo'
  BY DEF StatusIsOfItsRepo, GoesOn, Result, SignShape, SettingKnown, SavedKnown, Grants, Works1
<1>6. GrantIsHeld'
  BY DEF GrantIsHeld, GrantIsKnown, GoesOn, Result, SignShape, SettingKnown, SavedKnown, Grants, Works1, Pasts
<1>7. PublishesWhereAgreed' /\ RemovesWhatIsNamed'
  BY DEF PublishesWhereAgreed, RemovesWhatIsNamed, GoesOn, Result, SignShape, SettingKnown, SavedKnown, Grants, Works1, Pasts
<1> QED
  BY <1>1, <1>2, <1>3, <1>4, <1>5, <1>6, <1>7

LEMMA ExpireSigns ==
  ASSUME SignInv, Expire
  PROVE  SignInv'
<1> USE SignInConstants DEF SignInv, Expire, setting, Works, ErrorOf, Working
<1>1. SignShape'
  <2>1. SettingKnown'
    BY DEF SignShape, SettingKnown
  <2>2. SavedKnown'
    BY DEF SignShape, SavedKnown, GoesOn, GrantIsKnown
  <2>3. ask' \in Asked /\ target' \in Orgs \cup {NoOrg}
    BY DEF SignShape, Asked, Pickers, GrantIsKnown
  <2>4. work' \in Works1
    BY DEF SignShape, SettingKnown, Works1, Result
  <2>5. issued' \in Grants
    BY DEF SignShape, Grants
  <2>6. past' \in Pasts
    BY DEF SignShape, SettingKnown, Pasts, GoesOn
  <2>7. at' \in {"start", "pick", "connect", "wait", "exchange", "save", "revoke", "signout", "worked", "end"} /\ ctx' \in {"live", "canceled", "expired"}
    BY DEF SignShape
  <2> QED
    BY <2>1, <2>2, <2>3, <2>4, <2>5, <2>6, <2>7 DEF SignShape
<1>2. PickersOffer'
  BY DEF PickersOffer, Offering, SignShape, SettingKnown, SavedKnown, Grants, Asked
<1>3. GoesOn'
  BY ZenonT(40) DEF GoesOn, SignShape, SettingKnown, SavedKnown, Grants, Works1, Pasts, PickersOffer, GrantIsKnown
<1>4. GrantIsKnown'
  BY DEF GrantIsKnown, GoesOn, SignShape, SettingKnown, SavedKnown, Grants, PickersOffer, Works1, Pasts
<1>5. StatusIsOfItsRepo'
  BY DEF StatusIsOfItsRepo, GoesOn, Result, SignShape, SettingKnown, SavedKnown, Grants, Works1
<1>6. GrantIsHeld'
  BY DEF GrantIsHeld, GrantIsKnown, GoesOn, Result, SignShape, SettingKnown, SavedKnown, Grants, Works1, Pasts
<1>7. PublishesWhereAgreed' /\ RemovesWhatIsNamed'
  BY DEF PublishesWhereAgreed, RemovesWhatIsNamed, GoesOn, Result, SignShape, SettingKnown, SavedKnown, Grants, Works1, Pasts
<1> QED
  BY <1>1, <1>2, <1>3, <1>4, <1>5, <1>6, <1>7

-----------------------------------------------------------------------------
(* The three ways a step of the command goes on: it ends, it asks, or it    *)
(* logs in.                                                                *)

LEMMA EndsSigns ==
  ASSUME SignInv, at # "end", NEW what, Ends(what), UNCHANGED <<setting, saved, work, ctx, issued>>,
         target' \in Orgs \cup {NoOrg}, past' \in Pasts, past'.lost = past.lost, past'.canceled = past.canceled,
         past'.removed \subseteq {given} \cup past'.agreed,
         what = "chosen" => target' \in saved /\ (target' = linked \/ target' \in past'.agreed),
         issued.live => (issued.org \in saved /\ what \in {"signed in", "chosen", "canceled"})
                        \/ what = "may stay" \/ past.lost \/ past.canceled,
         (what = "status" => StatusIsOfItsRepo')
  PROVE  SignInv'
<1>1. /\ at' = "end" /\ told' = what /\ ask' = Closed /\ SignShape /\ GoesOn /\ GrantIsKnown
      /\ UNCHANGED <<command, linked, given, terminal, folders, stale, saved, work, ctx, issued>>
  BY DEF Ends, setting, SignInv
<1>2. Closed \in Asked
  BY DEF Closed, Asked, Pickers
<1>3. SettingKnown' /\ SavedKnown'
  BY <1>1 DEF SignShape, SettingKnown, SavedKnown
<1>4. SignShape'
  BY <1>1, <1>2, <1>3 DEF SignShape
<1>5. PickersOffer'
  BY <1>1 DEF PickersOffer
<1>6. GoesOn'
  BY <1>1 DEF GoesOn
<1>7. GrantIsKnown'
  BY <1>1 DEF GrantIsKnown
<1>8. GrantIsHeld' /\ PublishesWhereAgreed' /\ RemovesWhatIsNamed'
  BY <1>1 DEF GrantIsHeld, PublishesWhereAgreed, RemovesWhatIsNamed
<1>9. StatusIsOfItsRepo'
  BY <1>1 DEF StatusIsOfItsRepo
<1> QED
  BY <1>4, <1>5, <1>6, <1>7, <1>8, <1>9 DEF SignInv

LEMMA OpensSigns ==
  ASSUME SignInv, at \in {"start", "pick", "worked"}, NEW of \in Pickers, NEW choices \in SUBSET (Orgs \cup PickerChoices),
         Opens(of, choices), UNCHANGED <<setting, saved, work, ctx, issued, past, told>>,
         target' \in Orgs \cup {NoOrg}, Offering(of, choices, target'),
         issued.live => of \in {"confirm", "change"} /\ issued.org \in saved,
         command # "status"
  PROVE  SignInv'
<1>1. /\ at' = "pick" /\ ask' = [of |-> of, choices |-> choices, editing |-> choices = {"url"}]
      /\ SignShape /\ GoesOn /\ GrantIsKnown
      /\ UNCHANGED <<command, linked, given, terminal, folders, stale, saved, work, ctx, issued, past, told>>
  BY DEF Opens, setting, SignInv
<1>2. ask' \in Asked /\ ask'.of = of /\ ask'.choices = choices /\ ask'.editing = (choices = {"url"})
  BY <1>1 DEF Asked
<1>3. SettingKnown' /\ SavedKnown'
  BY <1>1 DEF SignShape, SettingKnown, SavedKnown
<1>4. SignShape'
  BY <1>1, <1>2, <1>3 DEF SignShape
<1>5. PickersOffer'
  <2>1. choices = {"url"} => of = "address"
    BY <1>1, SignInConstants DEF Offering, SignShape, SettingKnown, SavedKnown
  <2>2. Offering(of, choices, target)'
    BY <1>1 DEF Offering
  <2> QED
    BY <1>2, <2>1, <2>2 DEF PickersOffer
<1>6. GoesOn'
  BY <1>1 DEF GoesOn
<1>7. GrantIsKnown'
  BY <1>1, <1>2 DEF GrantIsKnown
<1>8. told' = "nothing"
  BY <1>1 DEF GoesOn
<1>9. StatusIsOfItsRepo' /\ GrantIsHeld' /\ PublishesWhereAgreed' /\ RemovesWhatIsNamed'
  BY <1>1, <1>8 DEF StatusIsOfItsRepo, GrantIsHeld, PublishesWhereAgreed, RemovesWhatIsNamed, SignInv
<1> QED
  BY <1>4, <1>5, <1>6, <1>7, <1>9 DEF SignInv

LEMMA LogsInSigns ==
  ASSUME SignInv, at \in {"start", "pick"}, NEW hint \in Orgs \cup {NoOrg}, LogsIn(hint), command \in Logins, ~issued.live,
         UNCHANGED <<setting, saved, work, ctx, told, issued, past>>
  PROVE  SignInv'
<1>1. /\ at' = "connect" /\ target' = hint /\ ask' = Closed /\ SignShape /\ GoesOn /\ GrantIsKnown
      /\ UNCHANGED <<command, linked, given, terminal, folders, stale, saved, work, ctx, issued, past, told>>
  BY DEF LogsIn, setting, SignInv
<1>2. Closed \in Asked
  BY DEF Closed, Asked, Pickers
<1>3. SettingKnown' /\ SavedKnown'
  BY <1>1 DEF SignShape, SettingKnown, SavedKnown
<1>4. SignShape'
  BY <1>1, <1>2, <1>3 DEF SignShape
<1>5. PickersOffer' /\ GrantIsKnown'
  BY <1>1 DEF PickersOffer, GrantIsKnown
<1>6. GoesOn'
  BY <1>1 DEF GoesOn, Logins
<1>7. told' = "nothing"
  BY <1>1 DEF GoesOn
<1>8. StatusIsOfItsRepo' /\ GrantIsHeld' /\ PublishesWhereAgreed' /\ RemovesWhatIsNamed'
  BY <1>1, <1>7 DEF StatusIsOfItsRepo, GrantIsHeld, PublishesWhereAgreed, RemovesWhatIsNamed, SignInv
<1> QED
  BY <1>4, <1>5, <1>6, <1>8 DEF SignInv

\* The saved logins are what a picker has to offer.
LEMMA StoredAre ==
  ASSUME SignInv
  PROVE  StoredOrgs = saved /\ saved \subseteq Orgs
<1>1. saved \subseteq Orgs /\ stale \subseteq saved
  BY DEF SignInv, SignShape, SavedKnown
<1>2. \A o \in saved \ stale : [org |-> o, login |-> "valid"] \in Stored
  BY DEF Stored
<1>3. \A o \in stale : [org |-> o, login |-> "invalid"] \in Stored
  BY DEF Stored
<1>4. \A l \in Stored : l.org \in saved
  BY <1>1 DEF Stored
<1>5. \A o \in saved : \E l \in Stored : l.org = o
  <2> TAKE o \in saved
  <2>1. CASE o \in stale
    <3>1. [org |-> o, login |-> "invalid"].org = o
      OBVIOUS
    <3> QED
      BY <1>3, <2>1, <3>1
  <2>2. CASE o \notin stale
    <3>1. [org |-> o, login |-> "valid"].org = o
      OBVIOUS
    <3> QED
      BY <1>2, <2>2, <3>1
  <2> QED
    BY <2>1, <2>2
<1> QED
  BY <1>1, <1>4, <1>5 DEF StoredOrgs

LEMMA AgreesIs ==
  ASSUME past \in Pasts, NEW o \in Orgs, Agrees(o)
  PROVE  /\ past' \in Pasts /\ past'.agreed = past.agreed \cup {o}
         /\ past'.lost = past.lost /\ past'.canceled = past.canceled /\ past'.removed = past.removed
BY DEF Pasts, Agrees

\* A picker opens with what it offers.
LEMMA AsksSigns ==
  ASSUME SignInv, at \in {"start", "pick"}, ~issued.live, NEW of \in {"address", "stored", "target", "linked", "alternative"}, Asks(of),
         UNCHANGED <<setting, saved, work, ctx, issued, past, told, target>>,
         of = "address" => command \in Logins, of = "stored" => command = "logout", of = "target" => command = "select",
         of \in {"linked", "alternative"} => command = "recover"
  PROVE  SignInv'
<1>1. StoredOrgs = saved /\ saved \subseteq Orgs /\ linked \in Orgs \cup {NoOrg} /\ target' \in Orgs \cup {NoOrg} /\ (command = "recover" => linked \in Orgs)
  BY StoredAre DEF SignInv, SignShape, SettingKnown, GoesOn
<1>2. Opens(of, Offers(of)) /\ command # "status"
  BY DEF Asks, Logins
<1>3. Offering(of, Offers(of), target')
  BY <1>1 DEF Offering, Offers
<1>4. Offers(of) \subseteq Orgs \cup PickerChoices
  BY <1>1 DEF Offers, PickerChoices
<1>5. of \in Pickers
  BY DEF Pickers
<1> HIDE DEF Asks
<1> QED
  BY <1>1, <1>2, <1>3, <1>4, <1>5, OpensSigns

\* recoverPublishOrg has an org: another than the repo's is asked about.
LEMMA RecoveredSigns ==
  ASSUME SignInv, at \in {"pick", "worked"}, NEW o \in saved, Recovered(o), command = "recover",
         UNCHANGED <<setting, saved, work, ctx, issued, past>>,
         issued.live => issued.org \in saved
  PROVE  SignInv'
<1>1. /\ saved \subseteq Orgs /\ target' = o /\ at # "end" /\ past \in Pasts /\ RemovesWhatIsNamed
  BY DEF SignInv, SignShape, SavedKnown, Recovered
<1>2. CASE o # linked
  <2>1. Opens("change", {"cancel", "change"}) /\ UNCHANGED told
    BY <1>2 DEF Recovered, Offers
  <2>2. "change" \in Pickers /\ {"cancel", "change"} \subseteq Orgs \cup PickerChoices
    BY DEF Pickers, PickerChoices
  <2>3. Offering("change", {"cancel", "change"}, target')
    BY <1>1 DEF Offering
  <2> QED
    BY <1>1, <2>1, <2>2, <2>3, OpensSigns
<1>3. CASE o = linked
  <2>1. Ends("chosen")
    BY <1>3 DEF Recovered
  <2>2. past' = past
    OBVIOUS
  <2> QED
    BY <1>1, <1>3, <2>1, <2>2, EndsSigns DEF RemovesWhatIsNamed
<1> QED
  BY <1>2, <1>3

-----------------------------------------------------------------------------
LEMMA EnterUrlSigns ==
  ASSUME SignInv, NEW o \in Orgs, EnterUrl(o)
  PROVE  SignInv'
<1>1. command \in Logins /\ ~issued.live
  BY DEF SignInv, EnterUrl, PickersOffer, Offering, GrantIsKnown
<1> QED
  BY <1>1, LogsInSigns DEF EnterUrl

LEMMA CancelPickSigns ==
  ASSUME SignInv, CancelPick
  PROVE  SignInv'
<1>1. /\ past \in Pasts /\ target \in Orgs \cup {NoOrg} /\ RemovesWhatIsNamed /\ (issued.live => issued.org \in saved)
  BY DEF SignInv, SignShape, CancelPick, GrantIsKnown
<1> QED
  BY <1>1, EndsSigns DEF CancelPick, RemovesWhatIsNamed

LEMMA LoggedOutSigns ==
  ASSUME SignInv, LoggedOut
  PROVE  SignInv'
<1>1. /\ past \in Pasts /\ target \in Orgs \cup {NoOrg} /\ RemovesWhatIsNamed /\ ~issued.live /\ work \in Works1
  BY DEF SignInv, SignShape, LoggedOut, GrantIsKnown, Logins
<1> DEFINE what == IF past.canceled /\ work.result \in {"none saved", "removed"} THEN "removed" ELSE Result
<1>2. what \notin {"chosen", "status"}
  BY <1>1 DEF Result, Works1
<1>3. Ends(what) /\ at # "end" /\ UNCHANGED <<setting, saved, target, work, ctx, issued, past>>
  BY DEF LoggedOut
<1> HIDE DEF what
<1> QED
  BY <1>1, <1>2, <1>3, EndsSigns DEF RemovesWhatIsNamed

LEMMA SelectSigns ==
  ASSUME SignInv, NEW c, Select(c)
  PROVE  SignInv'
<1>1. /\ at = "pick" /\ ~ask.editing /\ c \in ask.choices /\ UNCHANGED <<setting, saved, work, ctx, issued>>
      /\ past \in Pasts /\ target \in Orgs \cup {NoOrg} /\ linked \in Orgs \cup {NoOrg} /\ saved \subseteq Orgs
      /\ Offering(ask.of, ask.choices, target)
      /\ RemovesWhatIsNamed /\ GrantIsKnown
  BY DEF Select, SignInv, SignShape, SettingKnown, SavedKnown, PickersOffer
<1>2. (issued.live => ask.of \in {"confirm", "change"} /\ issued.org \in saved) /\ "url" \notin saved
  BY <1>1, SignInConstants DEF GrantIsKnown
<1>3. CASE c = "url"
  <2>1. ask' = [ask EXCEPT !.editing = TRUE] /\ UNCHANGED <<at, target, told, past>>
    BY <1>3 DEF Select
  <2>2. ask \in Asked /\ ask.of = "address"
    BY <1>1, <1>2, <1>3, SignInConstants DEF Offering, SignInv, SignShape
  <2>3. ask' \in Asked /\ ask'.of = ask.of /\ ask'.choices = ask.choices
    BY <2>1, <2>2 DEF Asked
  <2>4. SignShape'
    BY <1>1, <2>1, <2>3 DEF SignInv, SignShape, SettingKnown, SavedKnown, setting
  <2>5. PickersOffer'
    BY <1>1, <2>1, <2>2, <2>3 DEF PickersOffer, Offering, setting
  <2>6. GoesOn' /\ GrantIsKnown' /\ StatusIsOfItsRepo' /\ GrantIsHeld' /\ PublishesWhereAgreed' /\ RemovesWhatIsNamed'
    BY <1>1, <2>1, <2>3 DEF SignInv, GoesOn, GrantIsKnown, StatusIsOfItsRepo, GrantIsHeld, PublishesWhereAgreed, RemovesWhatIsNamed, setting
  <2> QED
    BY <2>4, <2>5, <2>6 DEF SignInv
<1>4. CASE c # "url"
  <2>0. Picked(c)
    BY <1>4 DEF Select
  <2>1. CASE ask.of = "address"
    <3>1. LogsIn(NoOrg) /\ UNCHANGED <<told, past>>
      BY <2>0, <2>1 DEF Picked
    <3> QED
      BY <1>1, <1>2, <2>1, <3>1, LogsInSigns DEF Offering
  <2>2. CASE ask.of = "stored"
    <3>1. at' = "signout" /\ target' = c /\ ask' = Closed /\ Agrees(c) /\ UNCHANGED told
      BY <2>0, <2>2 DEF Picked
    <3>2. c \in Orgs /\ command = "logout"
      BY <1>1, <2>2 DEF Offering
    <3>3. /\ past' \in Pasts /\ past'.agreed = past.agreed \cup {c}
          /\ past'.lost = past.lost /\ past'.canceled = past.canceled /\ past'.removed = past.removed
      BY <1>1, <3>1, <3>2, AgreesIs
    <3>4. Closed \in Asked
      BY DEF Closed, Asked, Pickers
    <3>5. SignShape'
      BY <1>1, <3>1, <3>2, <3>3, <3>4 DEF SignInv, SignShape, SettingKnown, SavedKnown, setting
    <3>6. PickersOffer' /\ GrantIsKnown' /\ GoesOn'
      BY <1>1, <1>2, <2>2, <3>1, <3>2, <3>3 DEF SignInv, PickersOffer, GrantIsKnown, GoesOn, setting
    <3>7. told' = "nothing" /\ given' = given
      BY <1>1, <3>1 DEF SignInv, GoesOn, setting
    <3>8. StatusIsOfItsRepo' /\ GrantIsHeld' /\ PublishesWhereAgreed' /\ RemovesWhatIsNamed'
      BY <1>1, <3>1, <3>3, <3>7 DEF StatusIsOfItsRepo, GrantIsHeld, PublishesWhereAgreed, RemovesWhatIsNamed
    <3> QED
      BY <3>5, <3>6, <3>8 DEF SignInv
  <2>3. CASE ask.of = "target" /\ c # "another"
    <3>1. Ends("chosen") /\ target' = c /\ Agrees(c) /\ c \in saved
      BY <1>1, <2>0, <2>3 DEF Picked, Offering
    <3>2. /\ past' \in Pasts /\ past'.agreed = past.agreed \cup {c}
          /\ past'.lost = past.lost /\ past'.canceled = past.canceled /\ past'.removed = past.removed
      BY <1>1, <3>1, AgreesIs
    <3> QED
      BY <1>1, <1>2, <2>3, <3>1, <3>2, EndsSigns DEF RemovesWhatIsNamed
  <2>4. CASE ask.of = "confirm" \/ (ask.of = "change" /\ c = "change")
    <3>1. Ends("chosen") /\ UNCHANGED target /\ target \in saved /\ Agrees(target)
      BY <1>1, <2>0, <2>4 DEF Picked, Offering
    <3>2. /\ past' \in Pasts /\ past'.agreed = past.agreed \cup {target}
          /\ past'.lost = past.lost /\ past'.canceled = past.canceled /\ past'.removed = past.removed
      BY <1>1, <3>1, AgreesIs
    <3> QED
      BY <1>1, <1>2, <3>1, <3>2, EndsSigns DEF RemovesWhatIsNamed
  <2>5. CASE ask.of = "change" /\ c = "cancel"
    <3>1. Ends("canceled") /\ UNCHANGED <<target, past>>
      BY <2>0, <2>5 DEF Picked
    <3> QED
      BY <1>1, <1>2, <3>1, EndsSigns DEF RemovesWhatIsNamed
  <2>6. CASE ask.of = "linked" /\ c = linked
    <3>1. linked # "another" /\ command \in Logins
      BY <1>1, <2>6, SignInConstants DEF Offering, Logins
    <3>2. LogsIn(linked) /\ UNCHANGED <<told, past>>
      BY <2>0, <2>6, <3>1 DEF Picked
    <3> QED
      BY <1>1, <1>2, <2>6, <3>1, <3>2, LogsInSigns
  <2>7. CASE ask.of = "alternative" /\ c # "another"
    <3>1. Recovered(c) /\ UNCHANGED past /\ c \in saved /\ command = "recover"
      BY <1>1, <2>0, <2>7 DEF Picked, Offering
    <3> QED
      BY <1>1, <1>2, <3>1, RecoveredSigns
  <2>8. CASE ask.of \in {"target", "linked", "alternative"} /\ c = "another"
    <3>1. linked # "another" /\ command \in Logins /\ (ask.of = "linked" => command = "recover")
      BY <1>1, <2>8, SignInConstants DEF Offering, Logins
    <3>2. CASE ask.of = "linked" /\ StoredOrgs \ {linked} # {}
      <4>1. Asks("alternative") /\ UNCHANGED <<target, told, past>>
        BY <2>0, <2>8, <3>1, <3>2 DEF Picked
      <4> QED
        BY <1>1, <1>2, <2>8, <3>1, <3>2, <4>1, AsksSigns
    <3>3. CASE ~(ask.of = "linked" /\ StoredOrgs \ {linked} # {})
      <4>1. Asks("address") /\ UNCHANGED <<target, told, past>>
        BY <2>0, <2>8, <3>1, <3>3 DEF Picked
      <4> QED
        BY <1>1, <1>2, <2>8, <3>1, <4>1, AsksSigns
    <3> QED
      BY <3>2, <3>3
  <2>9. /\ ask.of \in {"address", "stored", "target", "linked", "alternative", "change", "confirm"}
        /\ ask.of = "linked" => c \in {linked, "another"}
        /\ ask.of = "change" => c \in {"cancel", "change"}
    BY <1>1 DEF Offering
  <2> QED
    BY <2>1, <2>2, <2>3, <2>4, <2>5, <2>6, <2>7, <2>8, <2>9
<1> QED
  BY <1>3, <1>4

LEMMA LoggedInSigns ==
  ASSUME SignInv, LoggedIn
  PROVE  SignInv'
<1>1. /\ at = "worked" /\ command # "logout" /\ UNCHANGED <<setting, saved, work, ctx, issued, past>>
      /\ past \in Pasts /\ target \in Orgs \cup {NoOrg} /\ saved \subseteq Orgs /\ work \in Works1
      /\ RemovesWhatIsNamed /\ command \in Logins
      /\ (work.result = "signed in" => target \in saved)
      /\ (issued.live => IF work.result = "signed in" THEN issued.org \in saved ELSE past.lost \/ work.result = "may stay")
  BY DEF LoggedIn, SignInv, SignShape, SettingKnown, SavedKnown, GoesOn, GrantIsKnown
<1>2. Result \notin {"chosen", "status"} /\ (Result = "signed in" => work.result = "signed in")
      /\ (Result # "canceled" \/ past.canceled \/ work.result = "canceled") /\ (Result = work.result \/ past.canceled)
  BY <1>1 DEF Result, Works1
<1>3. CASE Result # "signed in"
  <2>1. Ends(Result) /\ UNCHANGED target
    BY <1>3 DEF LoggedIn
  <2> QED
    BY <1>1, <1>2, <1>3, <2>1, EndsSigns DEF RemovesWhatIsNamed
<1>4. CASE Result = "signed in" /\ command = "login"
  <2>1. Ends("signed in") /\ UNCHANGED target
    BY <1>4 DEF LoggedIn
  <2> QED
    BY <1>1, <1>2, <1>4, <2>1, EndsSigns DEF RemovesWhatIsNamed
<1>5. CASE Result = "signed in" /\ command = "select"
  <2>1. Opens("confirm", {target}) /\ UNCHANGED <<target, told>>
    BY <1>5 DEF LoggedIn
  <2>2. Offering("confirm", {target}, target') /\ {target} \subseteq Orgs \cup PickerChoices /\ "confirm" \in Pickers
    BY <1>1, <1>2, <1>5, <2>1 DEF Offering, Pickers
  <2> QED
    BY <1>1, <1>2, <1>5, <2>1, <2>2, OpensSigns
<1>6. CASE Result = "signed in" /\ command = "recover"
  <2>1. Recovered(target)
    BY <1>6 DEF LoggedIn
  <2> QED
    BY <1>1, <1>2, <1>6, <2>1, RecoveredSigns
<1> QED
  BY <1>1, <1>3, <1>4, <1>5, <1>6 DEF Logins

-----------------------------------------------------------------------------
(* The folders auth status looks in. *)

LEMMA LeastIs ==
  ASSUME NEW S \in SUBSET Nat, S # {}
  PROVE  \E m \in S : \A n \in S : m <= n
<1> DEFINE R == {ss \in Nat \X Nat : ss[1] < ss[2]}
<1>1. OpToRel(<, Nat) = R
  BY Zenon DEF OpToRel
<1>2. IsWellFoundedOn(R, Nat)
  BY <1>1, NatLessThanWellFounded, Zenon
<1>3. PICK m \in S : \A n \in S : ~ (<<n, m>> \in R)
  BY <1>2, WFMin
<1>4. \A n \in S : m <= n
  <2> TAKE n \in S
  <2>1. m \in Nat /\ n \in Nat /\ ~ (<<n, m>> \in R)
    BY <1>3
  <2>2. ~ (n < m)
    BY <2>1
  <2> QED
    BY <2>1, <2>2
<1> QED
  BY <1>4

\* Where the search ends that starts in folder n.
StopsAt(n) == folders[n].config # "none" \/ folders[n].boundary \/ n = Depth
EndsAt(n, m) == m \in n .. Depth /\ StopsAt(m) /\ \A k \in n .. m - 1 : ~StopsAt(k)
Nearest(n) == CHOOSE m : EndsAt(n, m)
Holds(n) == IF folders[n].config # "none" THEN folders[n].config ELSE NoOrg

LEMMA NearestIs ==
  ASSUME NEW n \in 1 .. Depth
  PROVE  EndsAt(n, Nearest(n))
<1>1. Depth \in Nat /\ n \in Nat /\ n <= Depth /\ n >= 1
  BY SignInConstants
<1> DEFINE S == {m \in n .. Depth : StopsAt(m)}
<1>2. S \in SUBSET Nat /\ Depth \in S
  BY <1>1 DEF StopsAt
<1>3. PICK m \in S : \A k \in S : m <= k
  BY <1>2, LeastIs
<1>4. EndsAt(n, m)
  <2>1. m \in Nat /\ m \in n .. Depth /\ StopsAt(m)
    BY <1>2, <1>3
  <2>2. ASSUME NEW k \in n .. m - 1, StopsAt(k) PROVE FALSE
    <3>1. k \in S /\ k < m
      BY <1>1, <2>1, <2>2
    <3> QED
      BY <1>3, <2>1, <3>1
  <2> QED
    BY <2>1, <2>2 DEF EndsAt
<1> QED
  BY <1>4 DEF Nearest

LEMMA EndsAtOne ==
  ASSUME NEW n \in 1 .. Depth, NEW m, NEW k, EndsAt(n, m), EndsAt(n, k)
  PROVE  m = k
<1>1. Depth \in Nat /\ n \in Nat /\ m \in Nat /\ k \in Nat
  BY SignInConstants DEF EndsAt
<1>2. ~(m < k)
  <2> SUFFICES ASSUME m < k PROVE FALSE
    OBVIOUS
  <2>1. m \in n .. k - 1
    BY <1>1 DEF EndsAt
  <2> QED
    BY <2>1 DEF EndsAt
<1>3. ~(k < m)
  <2> SUFFICES ASSUME k < m PROVE FALSE
    OBVIOUS
  <2>1. k \in n .. m - 1
    BY <1>1 DEF EndsAt
  <2> QED
    BY <2>1 DEF EndsAt
<1> QED
  BY <1>1, <1>2, <1>3

\* A search that does not end in a folder goes on as the next one's does.
LEMMA NearestSteps ==
  ASSUME NEW n \in 1 .. Depth
  PROVE  IF StopsAt(n) THEN Nearest(n) = n ELSE n + 1 \in 1 .. Depth /\ Nearest(n) = Nearest(n + 1)
<1>1. Depth \in Nat /\ n \in Nat
  BY SignInConstants
<1>2. CASE StopsAt(n)
  <2>1. EndsAt(n, n)
    BY <1>1, <1>2 DEF EndsAt
  <2> QED
    BY <1>2, <2>1, NearestIs, EndsAtOne
<1>3. CASE ~StopsAt(n)
  <2>1. n + 1 \in 1 .. Depth
    BY <1>1, <1>3 DEF StopsAt
  <2>2. EndsAt(n + 1, Nearest(n + 1))
    BY <2>1, NearestIs
  <2>3. EndsAt(n, Nearest(n + 1))
    <3> DEFINE m == Nearest(n + 1)
    <3>1. m \in Nat /\ m \in n .. Depth /\ StopsAt(m)
      BY <1>1, <2>2 DEF EndsAt
    <3>2. ASSUME NEW k \in n .. m - 1 PROVE ~StopsAt(k)
      <4>1. k = n \/ k \in n + 1 .. m - 1
        BY <1>1, <3>1
      <4> QED
        BY <1>3, <2>2, <4>1 DEF EndsAt
    <3> QED
      BY <3>1, <3>2 DEF EndsAt
  <2> QED
    BY <1>3, <2>1, <2>3, NearestIs, EndsAtOne
<1> QED
  BY <1>2, <1>3

\* Mutually: the search as it is written, and what is found where it ends.
Up(g) == [n \in 1 .. Depth |->
           IF folders[n].config # "none" THEN folders[n].config
           ELSE IF folders[n].boundary \/ n = Depth THEN NoOrg ELSE g[n + 1]]

LEMMA HeldIsUp ==
  LET G == [n \in 1 .. Depth |-> Holds(Nearest(n))] IN G = Up(G)
<1> DEFINE G == [n \in 1 .. Depth |-> Holds(Nearest(n))]
<1>1. ASSUME NEW n \in 1 .. Depth PROVE G[n] = Up(G)[n]
  <2>1. CASE StopsAt(n)
    BY <2>1, NearestSteps DEF Up, StopsAt, Holds
  <2>2. CASE ~StopsAt(n)
    <3>1. n + 1 \in 1 .. Depth /\ Nearest(n) = Nearest(n + 1)
      BY <2>2, NearestSteps
    <3>2. G[n] = G[n + 1]
      BY <3>1
    <3> HIDE DEF G
    <3> QED
      BY <2>2, <3>2 DEF Up, StopsAt
  <2> QED
    BY <2>1, <2>2
<1>2. G = Up(G)
  BY <1>1 DEF Up
<1> QED
  BY <1>2

LEMMA UpFromIsUp ==
  UpFrom = Up(UpFrom)
<1> DEFINE G == [n \in 1 .. Depth |-> Holds(Nearest(n))]
<1>1. \E g : g = Up(g)
  <2>1. G = Up(G)
    BY HeldIsUp
  <2> QED
    BY <2>1
<1>2. UpFrom = CHOOSE g : g = Up(g)
  BY DEF UpFrom, Up
<1> QED
  BY <1>1, <1>2

LEMMA UpFromHolds ==
  ASSUME NEW n \in 1 .. Depth
  PROVE  UpFrom[n] = Holds(Nearest(n))
<1>0. Depth \in Nat
  BY SignInConstants
<1> DEFINE S == {d \in Nat : d < Depth /\ UpFrom[Depth - d] # Holds(Nearest(Depth - d))}
<1>1. S = {}
  <2> SUFFICES ASSUME S # {} PROVE FALSE
    OBVIOUS
  <2>1. PICK d \in S : \A e \in S : d <= e
    BY LeastIs
  <2> DEFINE k == Depth - d
  <2>2. k \in 1 .. Depth /\ d \in Nat
    BY <1>0, <2>1
  <2>3. UpFrom[k] = Up(UpFrom)[k]
    BY UpFromIsUp
  <2>4. CASE StopsAt(k)
    <3>1. UpFrom[k] = Holds(k)
      BY <2>2, <2>3, <2>4 DEF Up, StopsAt, Holds
    <3> QED
      BY <2>1, <2>2, <2>4, <3>1, NearestSteps
  <2>5. CASE ~StopsAt(k)
    <3>1. k + 1 \in 1 .. Depth /\ Nearest(k) = Nearest(k + 1)
      BY <2>2, <2>5, NearestSteps
    <3>2. UpFrom[k] = UpFrom[k + 1]
      BY <2>2, <2>3, <2>5 DEF Up, StopsAt
    <3>3. d - 1 \in Nat /\ d - 1 < Depth /\ Depth - (d - 1) = k + 1 /\ ~(d <= d - 1)
      BY <1>0, <2>2, <3>1
    <3>4. UpFrom[k + 1] = Holds(Nearest(k + 1))
      BY <2>1, <3>3
    <3> QED
      BY <2>1, <3>1, <3>2, <3>4
  <2> QED
    BY <2>4, <2>5
<1>2. Depth - n \in Nat /\ Depth - n < Depth /\ Depth - (Depth - n) = n
  BY <1>0
<1> QED
  BY <1>1, <1>2

LEMMA ConfiguredIs ==
  ASSUME folders \in Folders1
  PROVE  /\ Configured \in Orgs \cup {NoOrg, "bad"}
         /\ Configured # NoOrg =>
              \E n \in 1 .. Depth :
                /\ folders[n].config = Configured
                /\ \A k \in 1 .. n - 1 : folders[k].config = "none" /\ ~folders[k].boundary
<1>0. Depth \in Nat /\ 1 \in 1 .. Depth
  BY SignInConstants
<1> DEFINE m == Nearest(1)
<1>1. EndsAt(1, m) /\ Configured = Holds(m)
  BY <1>0, NearestIs, UpFromHolds DEF Configured
<1>2. m \in 1 .. Depth
  BY <1>1 DEF EndsAt
<1>3. folders[m].config \in Orgs \cup {NoOrg, "none", "bad"}
  BY <1>2 DEF Folders1
<1>4. \A k \in 1 .. m - 1 : folders[k].config = "none" /\ ~folders[k].boundary
  BY <1>1 DEF EndsAt, StopsAt
<1> HIDE DEF m
<1> QED
  BY <1>1, <1>2, <1>3, <1>4 DEF Holds

\* A login, or the org that has none, is listed once.
LEMMA ListedOnce ==
  ASSUME SignInv, Configured \in Orgs \cup {NoOrg}, NEW o \in saved \cup ({Configured} \ {NoOrg})
  PROVE  Cardinality({e \in StatusSays : e.org = o}) = 1
<1>1. StoredOrgs = saved /\ saved \subseteq Orgs /\ stale \subseteq saved
  BY StoredAre DEF SignInv, SignShape, SavedKnown
<1> DEFINE one == [org |-> o, login |-> IF o \in stale THEN "invalid" ELSE IF o \in saved THEN "valid" ELSE "missing"]
<1>2. ASSUME NEW e \in StatusSays, e.org = o PROVE e = one
  BY <1>1, <1>2 DEF StatusSays, Stored
<1>3. one \in StatusSays /\ one.org = o
  BY <1>1 DEF StatusSays, Stored
<1> HIDE DEF one
<1>4. {e \in StatusSays : e.org = o} = {one}
  BY <1>2, <1>3
<1> QED
  BY <1>4, FS_Singleton

-----------------------------------------------------------------------------
LEMMA StatusSigns ==
  ASSUME SignInv, Start, command = "status"
  PROVE  SignInv'
<1>1. /\ at = "start" /\ Status /\ past' = [past EXCEPT !.listed = StatusSays] /\ UNCHANGED <<setting, saved, work, ctx, issued>>
      /\ past \in Pasts /\ target \in Orgs \cup {NoOrg} /\ saved \subseteq Orgs /\ stale \subseteq saved /\ folders \in Folders1
      /\ RemovesWhatIsNamed /\ ~issued.live /\ StoredOrgs = saved
  BY StoredAre DEF Start, StartLogin, StartLogout, StartSelect, StartRecover, SignInv, SignShape, SettingKnown, SavedKnown, GrantIsKnown
<1>2. StatusSays \subseteq Entries1
  BY <1>1 DEF StatusSays, Stored, Entries1
<1>3. /\ past' \in Pasts /\ past'.agreed = past.agreed /\ past'.lost = past.lost /\ past'.canceled = past.canceled
      /\ past'.removed = past.removed /\ past'.listed = StatusSays
  BY <1>1, <1>2 DEF Pasts
<1>4. past'.removed \subseteq {given} \cup past'.agreed
  BY <1>1, <1>3 DEF RemovesWhatIsNamed
<1>5. CASE Configured = "bad"
  <2>1. Ends("failed") /\ UNCHANGED target
    BY <1>1, <1>5 DEF Status
  <2> QED
    BY <1>1, <1>3, <1>4, <2>1, EndsSigns
<1>6. CASE Configured # "bad"
  <2>1. Ends("status") /\ target' = Configured
    BY <1>1, <1>6 DEF Status
  <2>2. Configured \in Orgs \cup {NoOrg}
    BY <1>1, <1>6, ConfiguredIs
  <2>3. Configured # NoOrg =>
          \E n \in 1 .. Depth :
            /\ folders[n].config = Configured
            /\ \A k \in 1 .. n - 1 : folders[k].config = "none" /\ ~folders[k].boundary
    BY <1>1, ConfiguredIs
  <2>4. \A o \in saved \cup ({Configured} \ {NoOrg}) : Cardinality({e \in StatusSays : e.org = o}) = 1
    BY <2>2, ListedOnce
  <2>5. saved' = saved /\ folders' = folders
    BY <1>1 DEF setting
  <2>6. StatusIsOfItsRepo'
    BY <1>3, <2>1, <2>3, <2>4, <2>5 DEF StatusIsOfItsRepo
  <2> QED
    BY <1>1, <1>3, <1>4, <2>1, <2>2, <2>6, EndsSigns
<1> QED
  BY <1>5, <1>6

LEMMA StartSigns ==
  ASSUME SignInv, Start, command # "status"
  PROVE  SignInv'
<1>1. /\ at = "start" /\ UNCHANGED <<setting, saved, work, ctx, issued, past>>
      /\ past \in Pasts /\ target \in Orgs \cup {NoOrg} /\ linked \in Orgs \cup {NoOrg} /\ saved \subseteq Orgs
      /\ RemovesWhatIsNamed /\ ~issued.live /\ told = "nothing"
      /\ StartLogin \/ StartLogout \/ StartSelect \/ StartRecover
  BY DEF Start, Status, SignInv, SignShape, SettingKnown, SavedKnown, GrantIsKnown, GoesOn
<1>2. ASSUME NEW what \in {"refused", "none saved"}, Ends(what), UNCHANGED target
      PROVE  SignInv'
  BY <1>1, <1>2, EndsSigns DEF RemovesWhatIsNamed
<1>3. CASE StartLogin
  <2>1. command \in Logins
    BY <1>3 DEF StartLogin, Logins
  <2>2. CASE given \in Orgs
    BY <1>1, <1>3, <2>1, <2>2, LogsInSigns DEF StartLogin
  <2>3. CASE given \notin Orgs /\ Asks("address") /\ UNCHANGED <<target, told>>
    BY <1>1, <2>1, <2>3, AsksSigns
  <2> QED
    BY <1>2, <1>3, <2>2, <2>3 DEF StartLogin
<1>4. CASE StartLogout
  <2>1. command = "logout"
    BY <1>4 DEF StartLogout
  <2>2. CASE given \in Orgs
    <3>1. at' = "signout" /\ target' = given /\ UNCHANGED <<ask, told>>
      BY <1>4, <2>2 DEF StartLogout
    <3>2. /\ SettingKnown' /\ SavedKnown' /\ ask' \in Asked /\ work' \in Works1 /\ ctx' \in {"live", "canceled", "expired"}
          /\ issued' \in Grants /\ past' \in Pasts
      BY <1>1, <3>1 DEF SignInv, SignShape, SettingKnown, SavedKnown, setting
    <3>3. SignShape'
      BY <2>2, <3>1, <3>2 DEF SignShape
    <3>4. PickersOffer' /\ GrantIsKnown' /\ GoesOn'
      BY <1>1, <2>1, <2>2, <3>1 DEF SignInv, PickersOffer, GrantIsKnown, GoesOn, setting
    <3>5. StatusIsOfItsRepo' /\ GrantIsHeld' /\ PublishesWhereAgreed' /\ RemovesWhatIsNamed'
      BY <1>1, <3>1 DEF StatusIsOfItsRepo, GrantIsHeld, PublishesWhereAgreed, RemovesWhatIsNamed, setting
    <3> QED
      BY <3>3, <3>4, <3>5 DEF SignInv
  <2>3. CASE given \notin Orgs /\ Asks("stored") /\ UNCHANGED <<target, told>>
    BY <1>1, <2>1, <2>3, AsksSigns
  <2> QED
    BY <1>2, <1>4, <2>2, <2>3 DEF StartLogout
<1>5. CASE StartSelect
  <2>1. command = "select" /\ command \in Logins /\ UNCHANGED <<target, told>> /\ (Asks("address") \/ Asks("target"))
    BY <1>5 DEF StartSelect, Logins
  <2> QED
    BY <1>1, <2>1, AsksSigns
<1>6. CASE StartRecover
  <2>1. command = "recover" /\ UNCHANGED <<target, told>> /\ Asks("linked")
    BY <1>6 DEF StartRecover
  <2> QED
    BY <1>1, <2>1, AsksSigns
<1> QED
  BY <1>1, <1>3, <1>4, <1>5, <1>6

LEMMA SignInBegins ==
  SignInInit => SignInv
<1> SUFFICES ASSUME SignInInit PROVE SignInv
  OBVIOUS
<1>1. SettingKnown
  <2>1. command \in Logins \cup {"logout", "status"} /\ linked \in Orgs \cup {NoOrg} /\ given \in Orgs \cup {NoOrg, "bad"}
    BY DEF SignInInit, Logins
  <2>2. terminal \in [interactive : BOOLEAN, machine : BOOLEAN, cloud : BOOLEAN]
    BY DEF SignInInit
  <2>3. command = "status" => folders \in Folders1
    BY DEF SignInInit, Folders1
  <2> QED
    BY <2>1, <2>2, <2>3 DEF SettingKnown
<1>2. SavedKnown
  BY DEF SignInInit, SavedKnown
<1>3. ask \in Asked /\ work \in Works1 /\ issued \in Grants /\ past \in Pasts
  BY DEF SignInInit, Asked, Pickers, Closed, NoWork, Works1, NoGrant, Grants, Pasts
<1>4. SignShape
  BY <1>1, <1>2, <1>3 DEF SignInInit, SignShape
<1>5. PickersOffer /\ GoesOn /\ GrantIsKnown
  BY DEF SignInInit, PickersOffer, GoesOn, GrantIsKnown, NoGrant
<1>6. StatusIsOfItsRepo /\ GrantIsHeld /\ PublishesWhereAgreed /\ RemovesWhatIsNamed
  BY DEF SignInInit, StatusIsOfItsRepo, GrantIsHeld, PublishesWhereAgreed, RemovesWhatIsNamed
<1> QED
  BY <1>4, <1>5, <1>6 DEF SignInv

LEMMA SignInGoesOn ==
  ASSUME SignInv, SignInNext
  PROVE  SignInv'
<1>1. CASE Person
  BY <1>1, SelectSigns, EnterUrlSigns, BackSigns, CancelPickSigns, CancelSigns DEF Person
<1>2. CASE Program
  BY <1>2, StatusSigns, StartSigns, ConnectSigns, LaunchSigns, TakeCallbackSigns, StopWaitingSigns, RefusedSigns, ReplyLostSigns,
     ReplyUsedSigns, ReplyUnusableSigns, SaveSigns, SaveFailsSigns, RevokeSigns, SignOutSigns, LoggedInSigns, LoggedOutSigns DEF Program
<1>3. CASE Others
  BY <1>3, CallbackSigns, IssueSigns, ExpireSigns DEF Others
<1> QED
  BY <1>1, <1>2, <1>3 DEF SignInNext

LEMMA SignInStays ==
  ASSUME SignInv, UNCHANGED signIn
  PROVE  SignInv'
<1>1. UNCHANGED <<command, linked, given, terminal, saved, stale, at, ask, target, work, ctx, told, folders, issued, past>>
  BY DEF signIn
<1>2. SignShape'
  BY <1>1 DEF SignInv, SignShape, SettingKnown, SavedKnown
<1>3. PickersOffer'
  BY <1>1 DEF SignInv, PickersOffer, Offering
<1>4. GoesOn' /\ GrantIsKnown'
  BY <1>1 DEF SignInv, GoesOn, GrantIsKnown
<1>5. StatusIsOfItsRepo' /\ GrantIsHeld' /\ PublishesWhereAgreed' /\ RemovesWhatIsNamed'
  BY <1>1 DEF SignInv, StatusIsOfItsRepo, GrantIsHeld, PublishesWhereAgreed, RemovesWhatIsNamed
<1> QED
  BY <1>2, <1>3, <1>4, <1>5 DEF SignInv

\* Whatever the person, the browser, the server and the clock do: a login's grant
\* is kept, revoked, or said to be left there; a publish goes to the repo's org or
\* one agreed to here; a logout removes the login that was named; and the org that
\* auth status says is the repo's is that of the nearest config of its own repo.
THEOREM SignInIsSound ==
  SignInInit /\ [][SignInNext]_signIn => []SignInIsTrue
<1>1. SignInv => SignInIsTrue
  BY DEF SignInv, SignInIsTrue
<1>2. SignInv /\ [SignInNext]_signIn => SignInv'
  BY SignInGoesOn, SignInStays
<1> QED
  BY <1>1, <1>2, SignInBegins, PTL

-----------------------------------------------------------------------------
(* An agents' setup, its check, and the hint.                               *)

ClaudeSteps == {<<"add", "refresh", "install", "update">>, <<"refresh", "install", "update">>, <<"install", "update">>, <<"update">>}
CodexSteps == {<<"add", "refresh", "put">>, <<"refresh", "put">>, <<"put">>}
Fetched == {<<"install", "update">>, <<"update">>, <<"put">>}
AllAgents == Known \cup {Other}
Outcomes1 == [agent : AllAgents, is : {"installed", "failed", "cli_missing", "instructions_only"}]
Runs1 == [at : {"idle", "install", "record", "report"}, check : BOOLEAN, named : BOOLEAN, chosen : SUBSET AllAgents,
          left : SUBSET AllAgents, doing : AllAgents, steps : {<<>>} \cup ClaudeSteps \cup CodexSteps,
          outcome : SUBSET Outcomes1, failed : BOOLEAN, began : Nat]

SetupShape ==
  /\ machine \in [clis : SUBSET Installing, found : SUBSET Known, repo : BOOLEAN]
  /\ plugin \in [Installing -> [user : Nat, project : Nat]] /\ market \in [Installing -> Nat]
  /\ release \in Nat \ {0} /\ cached \in Nat /\ cached <= release
  /\ record = Unrecorded \/ record \in [Installing -> SUBSET Nat]
  /\ since \in [edited : BOOLEAN, unlisted : BOOLEAN, misrecorded : BOOLEAN]
  /\ run \in Runs1

\* The steps left of an agent's: past the one that fetches its marketplace, that
\* has what was the latest.
StepsKnown ==
  run.steps # <<>> =>
    /\ run.at = "install" /\ run.doing \in run.left \cap machine.clis
    /\ run.steps \in (IF run.doing = ClaudeCode THEN ClaudeSteps ELSE CodexSteps)
    /\ run.steps \in Fetched => market[run.doing] >= run.began

\* A run: one that ends is the last, and begins with what is the latest, which
\* nothing that is known while it lasts is later than.
RunIs ==
  /\ run.at # "idle" => report.of = "none"
  /\ run.at # "idle" => 0 < run.began /\ run.began <= release /\ cached <= run.began
  /\ run.at \in {"record", "report"} /\ ~run.check => run.left = {}
  /\ run.at = "install" => ~run.check

\* What it has done for the agents that are no longer left.
DoneFor ==
  run.at # "idle" =>
    /\ ~run.check /\ ~run.failed /\ ~since.edited => \A a \in (run.chosen \cap machine.clis) \ run.left : plugin[a].user >= run.began
    /\ \A o \in run.outcome : o.agent \notin run.left /\
         (o.is = "installed" => o.agent \in Installing /\ (~since.edited => plugin[o.agent].user >= run.began))

\* A setup that wrote AGENTS.md: so it is from there on.
Written(failed) == machine.repo /\ ~failed => notes.block = "up-to-date" /\ notes.claude \notin {"unreadable", "not-imported"}
NotesAre ==
  /\ run.at \in {"record", "report"} /\ ~run.check => Written(run.failed)
  /\ report.of = "setup" => Written(report.failed)

\* The record, of a setup or what came after it, and of any.
RecordIs ==
  /\ ((run.at = "report" /\ ~run.check) \/ report.of = "setup") /\ ~since.edited =>
       \A a \in Installing : record[a] \subseteq (IF a \in machine.clis THEN Scopes(a) ELSE {})
  /\ record # Unrecorded => \A a \in Installing : record[a] = {} => since.misrecorded \/ Scopes(a) = {}

\* What setup reported, and what its check did.
SetupReported ==
  report.of = "setup" /\ ~since.edited =>
    /\ report.began \in Nat
    /\ \A o \in report.outcome : o.is = "installed" => plugin[o.agent].user >= report.began
    /\ ~report.failed => \A a \in report.agents \cap machine.clis : plugin[a].user >= report.began
    /\ ~report.failed /\ ~since.unlisted /\ "setup" \in report.hints =>
         \E a \in report.agents : a \in Installing /\ (plugin[a].project # NoVersion \/ a \notin machine.clis)
CheckReported ==
  report.of = "check" /\ report.issues = {} /\ ~since.edited /\ ~since.unlisted =>
    \A a \in report.agents :
      /\ (a \in Installing /\ Scopes(a) # {}) \/ ReadsCopies(a) # {}
      /\ a \in machine.clis /\ report.latest # 0 => \A v \in Scopes(a) : v >= report.latest

SetupInv == SetupShape /\ StepsKnown /\ RunIs /\ DoneFor /\ NotesAre /\ RecordIs /\ SetupReported /\ CheckReported

\* Where no two commands failed beside one another, the streak that is kept is
\* what happened.
StreakIs ==
  /\ seen = [s \in Shells |-> seen[s]]
  /\ ~truth.raced =>
       /\ \A s \in Shells : seen[s] # <<>> => seen[s][1] = fails
       /\ fails.times = truth.times /\ ~truth.early
       /\ (fails.hinted /\ truth.hints = 1) \/ (~fails.hinted /\ truth.hints = 0)

-----------------------------------------------------------------------------
\* One version alone is behind when it is before the latest known.
LEMMA BehindIs ==
  ASSUME NEW v
  PROVE  StatusOf({v}) = "behind" <=> cached # 0 /\ v < cached
<1>1. Cardinality({v}) = 1
  BY FS_Singleton
<1> QED
  BY <1>1 DEF StatusOf

LEMMA ScopesAre ==
  ASSUME SetupShape, NEW a \in Installing
  PROVE  /\ Scopes(a) \subseteq Nat /\ plugin[a].user \in Nat /\ plugin[a].project \in Nat
         /\ \A v \in Scopes(a) : v = plugin[a].user \/ (v = plugin[a].project /\ v # 0)
         /\ plugin[a].user # 0 => plugin[a].user \in Scopes(a)
BY DEF SetupShape, Scopes, NoVersion

\* What a setup that succeeded would do again, it does not do to the project's
\* plugins, or without a CLI.
LEMMA HintedAre ==
  ASSUME SetupInv, run.at = "report", ~run.check, ~run.failed, ~since.edited, SetupWould({})
  PROVE  \E a \in run.chosen : a \in Installing /\ (plugin[a].project # NoVersion \/ a \notin machine.clis)
<1>1. /\ SetupShape /\ run.left = {} /\ run.began \in Nat \ {0} /\ cached \in Nat /\ cached <= run.began
      /\ \A a \in run.chosen \cap machine.clis : plugin[a].user >= run.began
      /\ Written(FALSE)
  <2>1. SetupShape /\ run.left = {} /\ run.began \in Nat \ {0} /\ cached \in Nat /\ cached <= run.began
    BY DEF SetupInv, SetupShape, RunIs, Runs1
  <2>2. \A a \in (run.chosen \cap machine.clis) \ run.left : plugin[a].user >= run.began
    BY DEF SetupInv, DoneFor
  <2>3. Written(FALSE)
    BY DEF SetupInv, NotesAre, Written
  <2> QED
    BY <2>1, <2>2, <2>3
<1>2. ~(machine.repo /\ (BlockIs \in {"missing", "outdated"} \/ (BlockIs = "up-to-date" /\ ~Imports)))
  BY <1>1 DEF Written, BlockIs, Imports
<1>3. PICK a \in run.chosen : (a \in Installing /\ Lacks(a, {})) \/ PluginBehind(a, {})
  BY <1>2 DEF SetupWould
<1>4. a \in Installing
  BY <1>3 DEF PluginBehind
<1>5. CASE a \in machine.clis
  <2>1. Listed(a, {}) = Scopes(a)
    BY <1>5 DEF Listed
  <2>2. plugin[a].user >= run.began /\ run.began > 0 /\ plugin[a].user \in Nat
    BY <1>1, <1>4, <1>5, ScopesAre
  <2>3. Scopes(a) # {}
    BY <1>1, <1>4, <2>2, ScopesAre
  <2>4. PluginBehind(a, {})
    BY <1>3, <1>4, <2>1, <2>3 DEF Lacks
  <2>5. PICK v \in Scopes(a) : StatusOf({v}) = "behind"
    BY <2>1, <2>4 DEF PluginBehind
  <2>6. v < cached /\ v \in Nat
    BY <1>1, <1>4, <2>5, BehindIs, ScopesAre
  <2>7. v # plugin[a].user
    BY <1>1, <2>2, <2>6
  <2> QED
    BY <1>1, <1>3, <1>4, <2>5, <2>7, ScopesAre DEF NoVersion
<1>6. CASE a \notin machine.clis
  BY <1>3, <1>4, <1>6
<1> QED
  BY <1>5, <1>6

LEMMA CheckedAre ==
  ASSUME SetupShape, Issues({}) = {}, NEW a \in run.chosen
  PROVE  /\ (a \in Installing /\ Scopes(a) # {}) \/ ReadsCopies(a) # {}
         /\ a \in machine.clis /\ cached # 0 => \A v \in Scopes(a) : v >= cached
<1>1. ~Lacks(a, {})
  <2> SUFFICES ASSUME Lacks(a, {}) PROVE FALSE
    OBVIOUS
  <2>1. <<"no skills", a>> \in Issues({})
    BY DEF Issues
  <2> QED
    BY <2>1
<1>2. ~PluginBehind(a, {})
  <2> SUFFICES ASSUME PluginBehind(a, {}) PROVE FALSE
    OBVIOUS
  <2>1. <<"behind", a>> \in Issues({})
    BY DEF Issues
  <2> QED
    BY <2>1
<1>3. (a \in Installing /\ Scopes(a) # {}) \/ ReadsCopies(a) # {}
  BY <1>1 DEF Lacks, Listed
<1>4. ASSUME a \in machine.clis, cached # 0, NEW v \in Scopes(a) PROVE v >= cached
  <2>1. a \in Installing /\ cached \in Nat
    BY <1>4 DEF SetupShape
  <2>2. v \in Listed(a, {})
    BY <1>4 DEF Listed
  <2>3. StatusOf({v}) # "behind"
    BY <1>2, <2>1, <2>2 DEF PluginBehind
  <2>4. v \in Nat /\ ~(v < cached)
    BY <1>4, <2>1, <2>3, ScopesAre, BehindIs
  <2> QED
    BY <2>1, <2>4
<1> QED
  BY <1>3, <1>4

\* What the notice may say after a setup that succeeded.
LEMMA SetupSettles ==
  ASSUME SetupInv
  PROVE  SetupSettlesAll
<1> SUFFICES ASSUME Succeeded, Undisturbed
             PROVE  /\ "setup" \in report.hints => \E a \in report.agents : a \in Installing /\ (plugin[a].project # NoVersion \/ a \notin machine.clis)
                    /\ cached <= report.began => \A x \in Attention \ Folders :
                         x = "none" \/ (x \in Installing /\ (x \notin report.agents \/ plugin[x].project # NoVersion))
  BY DEF SetupSettlesAll
<1>1. /\ report.of = "setup" /\ ~report.failed /\ ~since.edited /\ ~since.unlisted /\ SetupShape
      /\ cached \in Nat /\ release \in Nat /\ cached <= release /\ machine.clis \subseteq Installing
  BY DEF Succeeded, Undisturbed, SetupInv, SetupShape
<1>2. "setup" \in report.hints => \E a \in report.agents : a \in Installing /\ (plugin[a].project # NoVersion \/ a \notin machine.clis)
  BY <1>1 DEF SetupInv, SetupReported
<1>3. ASSUME cached <= report.began, NEW x \in Attention \ Folders, x # "none"
      PROVE  x \in Installing /\ (x \notin report.agents \/ plugin[x].project # NoVersion)
  <2>1. x \in RecordedBehind \cup CopiesBehind \cup OtherIssues
    BY <1>3 DEF Attention
  <2>2. x \notin CopiesBehind
    BY <1>3 DEF CopiesBehind, AllCopies
  <2>3. Written(FALSE)
    BY <1>1 DEF SetupInv, NotesAre, Written
  <2>4. x \notin OtherIssues
    BY <1>3, <2>3 DEF OtherIssues, AllCopies, Written, BlockIs, Imports
  <2>5. x \in Installing /\ \E v \in record[x] : v < cached
    BY <2>1, <2>2, <2>4 DEF RecordedBehind
  <2>6. PICK v \in record[x] : v < cached
    BY <2>5
  <2>7. record[x] \subseteq (IF x \in machine.clis THEN Scopes(x) ELSE {})
    BY <1>1, <2>5 DEF SetupInv, RecordIs
  <2>8. x \in machine.clis /\ v \in Scopes(x)
    BY <2>6, <2>7
  <2>9. ASSUME x \in report.agents PROVE plugin[x].project # NoVersion
    <3>1. plugin[x].user >= report.began /\ report.began \in Nat
      BY <1>1, <2>8, <2>9 DEF SetupInv, SetupReported
    <3>2. v \in Nat /\ plugin[x].user \in Nat
      BY <1>1, <2>5, <2>8, ScopesAre
    <3>3. v # plugin[x].user
      BY <1>1, <1>3, <2>6, <3>1, <3>2
    <3> QED
      BY <1>1, <2>5, <2>8, <3>3, ScopesAre DEF NoVersion
  <2> QED
    BY <2>5, <2>9
<1> QED
  BY <1>2, <1>3

LEMMA NoticeIs ==
  ASSUME SetupInv
  PROVE  NoneIsSo
<1> SUFFICES ASSUME Attention = {"none"}, ~since.misrecorded, NEW a \in Installing PROVE Scopes(a) = {}
  BY DEF NoneIsSo
<1>1. "none" \notin RecordedBehind \cup CopiesBehind \cup OtherIssues
  BY AgentConstants DEF RecordedBehind, CopiesBehind, OtherIssues, AllCopies, Known
<1>2. NoSkills
  BY <1>1 DEF Attention
<1>3. record # Unrecorded /\ record[a] = {}
  BY <1>2 DEF NoSkills, NoneRecorded
<1> QED
  BY <1>3 DEF SetupInv, RecordIs

LEMMA StreakHints ==
  ASSUME StreakIs
  PROVE  HintedOnce
BY DEF StreakIs, HintedOnce

LEMMA SetupIsSaid ==
  ASSUME SetupInv, StreakIs
  PROVE  SkillsAreSaid
<1>1. InstalledIsLatest
  BY DEF SetupInv, SetupReported, InstalledIsLatest
<1>2. UpToDateIsSo
  BY DEF SetupInv, CheckReported, UpToDateIsSo, Undisturbed
<1> QED
  BY <1>1, <1>2, SetupSettles, NoticeIs, StreakHints DEF SkillsAreSaid

-----------------------------------------------------------------------------
(* Its steps. *)

\* A step of a setup that is installing: what it does to an agent that is left.
LEMMA InstallKeeps ==
  ASSUME SetupInv, run.at = "install", UNCHANGED <<machine, release, copies, cached, record, notes, report>>,
         plugin' \in [Installing -> [user : Nat, project : Nat]], market' \in [Installing -> Nat],
         since' \in [edited : BOOLEAN, unlisted : BOOLEAN, misrecorded : BOOLEAN], since'.edited = since.edited,
         since.misrecorded => since'.misrecorded, plugin' = plugin \/ since'.misrecorded,
         run' \in Runs1, run'.at = "install", run'.check = run.check, run'.began = run.began, StepsKnown', DoneFor'
  PROVE  SetupInv'
<1>1. report.of = "none" /\ report'.of = "none"
  BY DEF SetupInv, RunIs
<1>2. SetupShape'
  BY DEF SetupInv, SetupShape
<1>3. RunIs'
  BY DEF SetupInv, RunIs
<1>4. NotesAre' /\ SetupReported' /\ CheckReported'
  BY <1>1 DEF NotesAre, SetupReported, CheckReported
<1>5. RecordIs'
  <2>1. ASSUME record' # Unrecorded, NEW a \in Installing, record'[a] = {} PROVE since'.misrecorded \/ Scopes(a)' = {}
    <3>1. since.misrecorded \/ Scopes(a) = {}
      BY <2>1 DEF SetupInv, RecordIs
    <3> QED
      BY <3>1 DEF Scopes
  <2> QED
    BY <1>1, <2>1 DEF RecordIs
<1> QED
  BY <1>2, <1>3, <1>4, <1>5 DEF SetupInv

\* An agent's outcome: of one that is installed, that it has what was the latest.
LEMMA OutcomeIs ==
  ASSUME SetupInv, run.at = "install", NEW a \in run.left, NEW what \in {"installed", "failed", "cli_missing", "instructions_only"}, Outcome(a, what),
         machine' = machine, since'.edited = since.edited, \A b \in Installing \ {a} : plugin'[b] = plugin[b],
         what = "installed" => a \in Installing /\ (~since.edited => plugin'[a].user >= run.began),
         what # "installed" => what = "failed" \/ a \notin machine.clis
  PROVE  run' \in Runs1 /\ run'.at = "install" /\ run'.check = run.check /\ run'.began = run.began /\ StepsKnown' /\ DoneFor'
<1>1. /\ run \in Runs1 /\ a \in AllAgents /\ Other \in AllAgents /\ machine.clis \subseteq Installing /\ ~run.check
  BY DEF SetupInv, SetupShape, Runs1, AllAgents, RunIs
<1> DEFINE out == [agent |-> a, is |-> what]
           fails1 == run.failed \/ what = "failed" \/ (run.named /\ what # "installed")
<1>2. run' = [run EXCEPT !.left = @ \ {a}, !.doing = Other, !.steps = <<>>, !.outcome = @ \cup {out}, !.failed = fails1]
  BY DEF Outcome
<1>3. out \in Outcomes1 /\ out.agent = a /\ out.is = what
  BY <1>1 DEF Outcomes1
<1>4. fails1 \in BOOLEAN /\ (run.failed => fails1) /\ (what = "failed" => fails1)
  BY <1>1 DEF Runs1
<1> HIDE DEF out, fails1
<1>5. /\ run'.at = "install" /\ run'.check = run.check /\ run'.began = run.began /\ run'.chosen = run.chosen /\ run'.steps = <<>>
      /\ run'.left = run.left \ {a} /\ run'.outcome = run.outcome \cup {out} /\ run'.failed = fails1
  BY <1>1, <1>2 DEF Runs1
<1>6. run' \in Runs1
  BY <1>1, <1>2, <1>3, <1>4 DEF Runs1
<1>7. StepsKnown'
  BY <1>5 DEF StepsKnown
<1>8. ASSUME ~run'.failed, ~since.edited, NEW b \in (run.chosen \cap machine.clis) \ (run.left \ {a}) PROVE plugin'[b].user >= run.began
  <2>1. CASE b = a
    BY <1>4, <1>5, <1>8, <2>1
  <2>2. CASE b # a
    <3>1. plugin[b].user >= run.began
      BY <1>1, <1>4, <1>5, <1>8, <2>2 DEF SetupInv, DoneFor
    <3> QED
      BY <1>1, <1>8, <2>2, <3>1
  <2> QED
    BY <2>1, <2>2
<1>9. ASSUME NEW o \in run.outcome \cup {out}
      PROVE  o.agent \notin run.left \ {a} /\ (o.is = "installed" => o.agent \in Installing /\ (~since.edited => plugin'[o.agent].user >= run.began))
  <2>1. CASE o = out
    BY <1>3, <2>1
  <2>2. CASE o \in run.outcome
    <3>1. o.agent \notin run.left /\ (o.is = "installed" => o.agent \in Installing /\ (~since.edited => plugin[o.agent].user >= run.began))
      BY <2>2 DEF SetupInv, DoneFor
    <3>2. o.agent # a
      BY <3>1
    <3> QED
      BY <3>1, <3>2
  <2> QED
    BY <1>9, <2>1, <2>2
<1>10. DoneFor'
  BY <1>1, <1>5, <1>8, <1>9 DEF DoneFor
<1> QED
  BY <1>5, <1>6, <1>7, <1>10

LEMMA InstallIs ==
  ASSUME SetupInv, NEW a \in AllAgents, Install(a)
  PROVE  SetupInv'
<1>1. /\ run.at = "install" /\ a \in run.left /\ run.steps = <<>> /\ UNCHANGED <<machines, cached, record, notes, report, since, streaks>>
      /\ run \in Runs1 /\ machine.clis \subseteq Installing /\ ~run.check
  BY DEF Install, SetupInv, SetupShape, RunIs
<1>2. UNCHANGED <<machine, plugin, market, release, copies, cached, record, notes, report, since>>
  BY <1>1 DEF machines
<1>3. /\ plugin' \in [Installing -> [user : Nat, project : Nat]] /\ market' \in [Installing -> Nat]
      /\ since' \in [edited : BOOLEAN, unlisted : BOOLEAN, misrecorded : BOOLEAN]
  BY <1>2 DEF SetupInv, SetupShape
<1>4. CASE a \notin Installing \/ a \in Installing \ machine.clis
  <2>1. PICK what \in {"cli_missing", "instructions_only"} : Outcome(a, what)
    BY <1>4 DEF Install
  <2>2. run' \in Runs1 /\ run'.at = "install" /\ run'.check = run.check /\ run'.began = run.began /\ StepsKnown' /\ DoneFor'
    BY <1>1, <1>2, <1>4, <2>1, OutcomeIs
  <2> QED
    BY <1>1, <1>2, <1>3, <2>2, InstallKeeps
<1>5. CASE a \in Installing /\ a \in machine.clis
  <2>1. run' = [run EXCEPT !.doing = a, !.steps = InstallSteps(a)]
    BY <1>5 DEF Install
  <2>2. InstallSteps(a) \in (IF a = ClaudeCode THEN ClaudeSteps ELSE CodexSteps) /\ InstallSteps(a) \notin Fetched
    BY DEF InstallSteps, ClaudeSteps, CodexSteps, Fetched
  <2>3. /\ run'.at = "install" /\ run'.check = run.check /\ run'.began = run.began /\ run'.chosen = run.chosen /\ run'.doing = a
        /\ run'.left = run.left /\ run'.outcome = run.outcome /\ run'.failed = run.failed /\ run'.steps = InstallSteps(a)
    BY <1>1, <2>1 DEF Runs1
  <2>4. run' \in Runs1
    BY <1>1, <2>1, <2>2 DEF Runs1
  <2>5. StepsKnown'
    BY <1>1, <1>2, <1>5, <2>2, <2>3 DEF StepsKnown
  <2>6. DoneFor'
    BY <1>1, <1>2, <2>3 DEF SetupInv, DoneFor
  <2> QED
    BY <1>1, <1>2, <1>3, <2>3, <2>4, <2>5, <2>6, InstallKeeps
<1> QED
  BY <1>4, <1>5

\* The steps of an agent's install, one by one.
LEMMA StepsGoOn ==
  ASSUME NEW s \in ClaudeSteps \cup CodexSteps
  PROVE  /\ Head(s) \in {"add", "refresh", "install", "update", "put"}
         /\ IF Len(s) = 1 THEN s \in {<<"update">>, <<"put">>} /\ Head(s) \in {"update", "put"}
            ELSE /\ s \in ClaudeSteps => Tail(s) \in ClaudeSteps
                 /\ s \in CodexSteps => Tail(s) \in CodexSteps
                 /\ Tail(s) \in Fetched => s \in Fetched \/ Head(s) = "refresh"
<1>1. CASE s = <<"add", "refresh", "install", "update">>
  <2>1. Len(s) = 4 /\ Head(s) = "add" /\ Tail(s) = <<"refresh", "install", "update">>
    BY <1>1
  <2> QED
    BY <1>1, <2>1 DEF ClaudeSteps, CodexSteps, Fetched
<1>2. CASE s = <<"refresh", "install", "update">>
  <2>1. Len(s) = 3 /\ Head(s) = "refresh" /\ Tail(s) = <<"install", "update">>
    BY <1>2
  <2> QED
    BY <1>2, <2>1 DEF ClaudeSteps, CodexSteps, Fetched
<1>3. CASE s = <<"install", "update">>
  <2>1. Len(s) = 2 /\ Head(s) = "install" /\ Tail(s) = <<"update">>
    BY <1>3
  <2> QED
    BY <1>3, <2>1 DEF ClaudeSteps, CodexSteps, Fetched
<1>4. CASE s = <<"update">>
  BY <1>4
<1>5. CASE s = <<"add", "refresh", "put">>
  <2>1. Len(s) = 3 /\ Head(s) = "add" /\ Tail(s) = <<"refresh", "put">>
    BY <1>5
  <2> QED
    BY <1>5, <2>1 DEF ClaudeSteps, CodexSteps, Fetched
<1>6. CASE s = <<"refresh", "put">>
  <2>1. Len(s) = 2 /\ Head(s) = "refresh" /\ Tail(s) = <<"put">>
    BY <1>6
  <2> QED
    BY <1>6, <2>1 DEF ClaudeSteps, CodexSteps, Fetched
<1>7. CASE s = <<"put">>
  BY <1>7
<1> QED
  BY <1>1, <1>2, <1>3, <1>4, <1>5, <1>6, <1>7 DEF ClaudeSteps, CodexSteps

LEMMA StepIs ==
  ASSUME SetupInv, Step
  PROVE  SetupInv'
<1> DEFINE a == run.doing
           does == Head(run.steps)
<1>1. /\ run.at = "install" /\ run.steps # <<>> /\ UNCHANGED <<machine, release, copies, cached, record, notes, report, streaks>>
      /\ since' = [since EXCEPT !.misrecorded = @ \/ plugin' # plugin]
      /\ run \in Runs1 /\ machine.clis \subseteq Installing /\ ~run.check
      /\ plugin \in [Installing -> [user : Nat, project : Nat]] /\ market \in [Installing -> Nat]
      /\ since \in [edited : BOOLEAN, unlisted : BOOLEAN, misrecorded : BOOLEAN]
      /\ release \in Nat /\ run.began <= release /\ run.began \in Nat
  BY DEF Step, SetupInv, SetupShape, RunIs, Runs1
<1>2. /\ a \in run.left /\ a \in machine.clis /\ a \in Installing
      /\ run.steps \in (IF a = ClaudeCode THEN ClaudeSteps ELSE CodexSteps) /\ run.steps \in ClaudeSteps \cup CodexSteps
      /\ run.steps \in Fetched => market[a] >= run.began
  BY <1>1 DEF SetupInv, StepsKnown
<1>3. /\ since' \in [edited : BOOLEAN, unlisted : BOOLEAN, misrecorded : BOOLEAN] /\ since'.edited = since.edited
      /\ since.misrecorded => since'.misrecorded
      /\ plugin' = plugin \/ since'.misrecorded
  BY <1>1
<1>4. CASE Outcome(a, "failed") /\ UNCHANGED <<market, plugin>>
  <2>1. run' \in Runs1 /\ run'.at = "install" /\ run'.check = run.check /\ run'.began = run.began /\ StepsKnown' /\ DoneFor'
    BY <1>1, <1>2, <1>3, <1>4, OutcomeIs
  <2> QED
    BY <1>1, <1>3, <1>4, <2>1, InstallKeeps
<1>5. CASE /\ market' = IF does = "refresh" \/ (does = "add" /\ market[a] = 0)
                        THEN [market EXCEPT ![a] = release] ELSE market
           /\ plugin' = IF does \in {"update", "put"} \/ (does = "install" /\ plugin[a].user = NoVersion)
                        THEN [plugin EXCEPT ![a].user = market[a]] ELSE plugin
           /\ IF Len(run.steps) = 1 THEN Outcome(a, "installed") ELSE run' = [run EXCEPT !.steps = Tail(@)]
  <2>1. market' \in [Installing -> Nat] /\ (does = "refresh" => market'[a] = release) /\ (does \notin {"refresh", "add"} => market' = market)
    BY <1>1, <1>2, <1>5
  <2>2. plugin' \in [Installing -> [user : Nat, project : Nat]] /\ \A b \in Installing \ {a} : plugin'[b] = plugin[b]
    BY <1>1, <1>2, <1>5
  <2>3. does \in {"update", "put"} => plugin'[a].user = market[a]
    BY <1>1, <1>2, <1>5
  <2>4. CASE Len(run.steps) = 1
    <3>1. run.steps \in {<<"update">>, <<"put">>} /\ does \in {"update", "put"} /\ run.steps \in Fetched
      BY <1>2, <2>4, StepsGoOn DEF Fetched
    <3>2. plugin'[a].user >= run.began
      BY <1>2, <2>3, <3>1
    <3>3. Outcome(a, "installed")
      BY <1>5, <2>4
    <3>4. run' \in Runs1 /\ run'.at = "install" /\ run'.check = run.check /\ run'.began = run.began /\ StepsKnown' /\ DoneFor'
      BY <1>1, <1>2, <1>3, <2>2, <3>2, <3>3, OutcomeIs
    <3> QED
      BY <1>1, <1>3, <2>1, <2>2, <3>4, InstallKeeps
  <2>5. CASE Len(run.steps) # 1
    <3> DEFINE rest == Tail(run.steps)
    <3>1. run' = [run EXCEPT !.steps = rest]
      BY <1>5, <2>5
    <3>2. /\ does \in {"add", "refresh", "install", "update", "put"}
          /\ rest \in (IF a = ClaudeCode THEN ClaudeSteps ELSE CodexSteps)
          /\ rest \in Fetched => run.steps \in Fetched \/ does = "refresh"
      BY <1>2, <2>5, StepsGoOn
    <3> HIDE DEF rest
    <3>3. /\ run'.at = "install" /\ run'.check = run.check /\ run'.began = run.began /\ run'.chosen = run.chosen /\ run'.doing = a
          /\ run'.left = run.left /\ run'.outcome = run.outcome /\ run'.failed = run.failed /\ run'.steps = rest
      BY <1>1, <3>1 DEF Runs1
    <3>4. run' \in Runs1
      BY <1>1, <3>1, <3>2 DEF Runs1
    <3>5. rest \in Fetched => market'[a] >= run.began
      <4> SUFFICES ASSUME rest \in Fetched PROVE market'[a] >= run.began
        OBVIOUS
      <4>2. CASE does = "refresh"
        BY <1>1, <2>1, <4>2
      <4>3. CASE does # "refresh"
        <5>1. run.steps \in Fetched /\ market[a] >= run.began
          BY <1>2, <3>2, <4>3
        <5>2. does # "add"
          BY <1>2, <5>1 DEF Fetched
        <5> QED
          BY <2>1, <4>3, <5>1, <5>2
      <4> QED
        BY <4>2, <4>3
    <3>6. StepsKnown'
      BY <1>1, <1>2, <1>3, <3>2, <3>3, <3>5 DEF StepsKnown
    <3>7. ASSUME NEW b \in Installing, b \notin run.left PROVE plugin'[b] = plugin[b]
      BY <1>2, <2>2, <3>7
    <3>8. DoneFor'
      <4>1. ASSUME ~run.failed, ~since.edited, NEW b \in (run.chosen \cap machine.clis) \ run.left PROVE plugin'[b].user >= run.began
        <5>1. plugin[b].user >= run.began
          BY <1>1, <4>1 DEF SetupInv, DoneFor
        <5> QED
          BY <1>1, <3>7, <4>1, <5>1
      <4>2. ASSUME NEW o \in run.outcome
            PROVE  o.agent \notin run.left /\ (o.is = "installed" => o.agent \in Installing /\ (~since.edited => plugin'[o.agent].user >= run.began))
        <5>1. o.agent \notin run.left /\ (o.is = "installed" => o.agent \in Installing /\ (~since.edited => plugin[o.agent].user >= run.began))
          BY <1>1, <4>2 DEF SetupInv, DoneFor
        <5> QED
          BY <3>7, <5>1
      <4> QED
        BY <1>1, <1>3, <3>3, <4>1, <4>2 DEF DoneFor
    <3> QED
      BY <1>1, <1>3, <2>1, <2>2, <3>3, <3>4, <3>6, <3>8, InstallKeeps
  <2> QED
    BY <2>4, <2>5
<1> QED
  BY <1>4, <1>5 DEF Step

LEMMA BeginsIs ==
  ASSUME SetupInv, NEW check \in BOOLEAN, NEW named \in BOOLEAN, NEW chosen \in SUBSET AllAgents, Begins(check, named, chosen)
  PROVE  SetupInv'
<1>1. /\ run' = [at |-> IF check THEN "report" ELSE "install", check |-> check, named |-> named, chosen |-> chosen, left |-> chosen,
                 doing |-> Other, steps |-> <<>>, outcome |-> {}, failed |-> FALSE, began |-> release]
      /\ report.of = "none" /\ UNCHANGED <<machines, cached, record, notes, report, streaks>>
      /\ since' = [since EXCEPT !.edited = FALSE, !.unlisted = FALSE]
  BY DEF Begins, NoRun
<1>2. UNCHANGED <<machine, plugin, market, release, copies, cached, record, notes, report>>
  BY <1>1 DEF machines
<1>3. since' \in [edited : BOOLEAN, unlisted : BOOLEAN, misrecorded : BOOLEAN] /\ since'.misrecorded = since.misrecorded /\ release \in Nat
  BY <1>1 DEF SetupInv, SetupShape
<1>4. run' \in Runs1
  BY <1>1, <1>3 DEF Runs1, AllAgents
<1>5. /\ run'.at = IF check THEN "report" ELSE "install"
      /\ run'.check = check /\ run'.left = chosen /\ run'.chosen = chosen /\ run'.steps = <<>> /\ run'.outcome = {} /\ run'.began = release
  BY <1>1
<1>6. SetupShape'
  BY <1>2, <1>3, <1>4 DEF SetupInv, SetupShape
<1>7. StepsKnown' /\ DoneFor'
  BY <1>1, <1>2, <1>5 DEF StepsKnown, DoneFor
<1>10. RunIs'
  <2>1. release \in Nat \ {0} /\ cached <= release
    BY DEF SetupInv, SetupShape
  <2> QED
    BY <1>1, <1>2, <1>5, <2>1 DEF RunIs
<1>8. NotesAre' /\ SetupReported' /\ CheckReported'
  BY <1>1, <1>2, <1>5 DEF NotesAre, SetupReported, CheckReported
<1>9. RecordIs'
  BY <1>1, <1>2, <1>3, <1>5 DEF SetupInv, RecordIs, Scopes
<1> QED
  BY <1>6, <1>7, <1>8, <1>9, <1>10 DEF SetupInv

LEMMA WriteNotesIs ==
  ASSUME SetupInv, WriteNotes
  PROVE  SetupInv'
<1>1. /\ run.at = "install" /\ run.left = {} /\ UNCHANGED <<machine, plugin, market, release, copies, cached, record, report, since>>
      /\ run \in Runs1 /\ ~run.check /\ report.of = "none" /\ run.steps = <<>> /\ machine.repo \in BOOLEAN
  BY DEF WriteNotes, machines, SetupInv, SetupShape, RunIs, StepsKnown
<1>2. run' = [run EXCEPT !.at = "record"] \/ run' = [run EXCEPT !.at = "record", !.failed = TRUE]
  BY DEF WriteNotes
<1>3. /\ run' \in Runs1 /\ run'.at = "record" /\ run'.check = run.check /\ run'.began = run.began /\ run'.chosen = run.chosen
      /\ run'.left = {} /\ run'.outcome = run.outcome /\ run'.steps = <<>> /\ (run.failed => run'.failed)
  BY <1>1, <1>2 DEF Runs1
<1>4. SetupShape'
  BY <1>1, <1>3 DEF SetupInv, SetupShape
<1>5. StepsKnown' /\ RunIs' /\ SetupReported' /\ CheckReported'
  BY <1>1, <1>3 DEF SetupInv, StepsKnown, RunIs, SetupReported, CheckReported
<1>6. DoneFor'
  BY <1>1, <1>3 DEF SetupInv, DoneFor
<1>7. RecordIs'
  BY <1>1, <1>3 DEF SetupInv, RecordIs, Scopes
<1>8. ASSUME machine.repo, ~run'.failed PROVE notes'.block = "up-to-date" /\ notes'.claude \notin {"unreadable", "not-imported"}
  <2> DEFINE imports == IF notes.claude = "not-imported" THEN {"imported"} ELSE {notes.claude} \ {"unreadable"}
  <2>1. run'.failed # TRUE
    BY <1>8
  <2>2. imports # {} /\ notes' = [block |-> "up-to-date", claude |-> CHOOSE c \in imports : TRUE]
    <3>1. run' # [run EXCEPT !.at = "record", !.failed = TRUE]
      BY <1>1, <2>1 DEF Runs1
    <3> QED
      BY <1>8, <3>1 DEF WriteNotes
  <2>3. \A c \in imports : c \notin {"unreadable", "not-imported"}
    OBVIOUS
  <2>4. (CHOOSE c \in imports : TRUE) \in imports
    BY <2>2
  <2> HIDE DEF imports
  <2> QED
    BY <2>2, <2>3, <2>4
<1>9. NotesAre'
  BY <1>1, <1>8 DEF NotesAre, Written
<1> QED
  BY <1>4, <1>5, <1>6, <1>7, <1>9 DEF SetupInv

\* The plugins are recorded as they are listed.
LEMMA RecordsIs ==
  ASSUME SetupShape, NEW unlisted \in SUBSET machine.clis, Records(unlisted), UNCHANGED <<machine, plugin>>
  PROVE  /\ record' \in [Installing -> SUBSET Nat]
         /\ \A a \in Installing : record'[a] \subseteq (IF a \in machine.clis THEN Scopes(a) ELSE {})
         /\ \A a \in Installing : record'[a] = {} => since'.misrecorded \/ Scopes(a) = {}
         /\ since' \in [edited : BOOLEAN, unlisted : BOOLEAN, misrecorded : BOOLEAN]
         /\ since'.edited = since.edited /\ (since.unlisted => since'.unlisted) /\ (unlisted # {} => since'.unlisted)
<1>1. record' = [a \in Installing |-> Listed(a, unlisted)]
  BY DEF Records
<1>2. \A a \in Installing : Listed(a, unlisted) \subseteq (IF a \in machine.clis THEN Scopes(a) ELSE {}) /\ Scopes(a) \subseteq Nat
  BY ScopesAre DEF Listed
<1> DEFINE missed == \E a \in Installing : Scopes(a) # {} /\ Listed(a, unlisted) = {}
<1>3. since' = [since EXCEPT !.unlisted = @ \/ unlisted # {}, !.misrecorded = missed]
  BY DEF Records
<1>4. \A a \in Installing : Listed(a, unlisted) = {} => missed \/ Scopes(a) = {}
  OBVIOUS
<1>5. missed \in BOOLEAN
  OBVIOUS
<1> HIDE DEF missed
<1>6. /\ since' \in [edited : BOOLEAN, unlisted : BOOLEAN, misrecorded : BOOLEAN] /\ since'.misrecorded = missed
      /\ since'.edited = since.edited /\ (since.unlisted => since'.unlisted) /\ (unlisted # {} => since'.unlisted)
  BY <1>3, <1>5 DEF SetupShape
<1>7. ASSUME NEW a \in Installing PROVE record'[a] = Listed(a, unlisted) /\ record'[a] \subseteq Nat
  BY <1>1, <1>2
<1> QED
  BY <1>1, <1>2, <1>4, <1>6, <1>7

LEMMA RecordAfterIs ==
  ASSUME SetupInv, NEW unlisted \in SUBSET machine.clis, RecordAfter(unlisted)
  PROVE  SetupInv'
<1>1. /\ run.at = "record" /\ UNCHANGED <<machine, plugin, market, release, copies, cached, notes, report>> /\ Records(unlisted)
      /\ run \in Runs1 /\ report.of = "none" /\ run.steps = <<>> /\ run' = [run EXCEPT !.at = "report"] /\ SetupShape
  BY DEF RecordAfter, machines, SetupInv, SetupShape, RunIs, StepsKnown
<1>2. /\ run' \in Runs1 /\ run'.at = "report" /\ run'.check = run.check /\ run'.began = run.began /\ run'.chosen = run.chosen
      /\ run'.left = run.left /\ run'.outcome = run.outcome /\ run'.steps = <<>> /\ run'.failed = run.failed
  BY <1>1 DEF Runs1
<1>3. /\ record' \in [Installing -> SUBSET Nat]
      /\ \A a \in Installing : record'[a] \subseteq (IF a \in machine.clis THEN Scopes(a) ELSE {})
      /\ \A a \in Installing : record'[a] = {} => since'.misrecorded \/ Scopes(a) = {}
      /\ since' \in [edited : BOOLEAN, unlisted : BOOLEAN, misrecorded : BOOLEAN] /\ since'.edited = since.edited
  BY <1>1, RecordsIs
<1>4. SetupShape'
  BY <1>1, <1>2, <1>3 DEF SetupShape
<1>5. StepsKnown' /\ RunIs' /\ SetupReported' /\ CheckReported'
  BY <1>1, <1>2, <1>3 DEF SetupInv, StepsKnown, RunIs, SetupReported, CheckReported
<1>6. DoneFor'
  BY <1>1, <1>2, <1>3 DEF SetupInv, DoneFor
<1>7. NotesAre'
  BY <1>1, <1>2 DEF SetupInv, NotesAre, Written
<1>8. RecordIs'
  <2>1. \A a \in Installing : Scopes(a)' = Scopes(a) /\ machine' = machine
    BY <1>1 DEF Scopes
  <2> QED
    BY <1>3, <2>1 DEF RecordIs
<1> QED
  BY <1>4, <1>5, <1>6, <1>7, <1>8 DEF SetupInv

LEMMA BackgroundIs ==
  ASSUME SetupInv, Background
  PROVE  SetupInv'
<1>1. /\ run.at = "idle" /\ UNCHANGED <<machine, plugin, market, release, copies, notes, run, report>> /\ cached' = release
      /\ run \in Runs1 /\ SetupShape /\ release \in Nat /\ run.steps = <<>>
      /\ \E unlisted \in SUBSET machine.clis : Records(unlisted)
  BY DEF Background, machines, SetupInv, SetupShape, StepsKnown
<1>2. /\ record' \in [Installing -> SUBSET Nat]
      /\ \A a \in Installing : record'[a] \subseteq (IF a \in machine.clis THEN Scopes(a) ELSE {})
      /\ \A a \in Installing : record'[a] = {} => since'.misrecorded \/ Scopes(a) = {}
      /\ since' \in [edited : BOOLEAN, unlisted : BOOLEAN, misrecorded : BOOLEAN]
      /\ since'.edited = since.edited /\ (since.unlisted => since'.unlisted)
  <2>1. PICK unlisted \in SUBSET machine.clis : Records(unlisted)
    BY <1>1
  <2> QED
    BY <1>1, <2>1, RecordsIs
<1>3. SetupShape'
  BY <1>1, <1>2 DEF SetupShape
<1>4. StepsKnown' /\ RunIs' /\ DoneFor'
  BY <1>1, <1>2 DEF SetupInv, StepsKnown, RunIs, DoneFor
<1>5. NotesAre'
  BY <1>1 DEF SetupInv, NotesAre, Written
<1>6. SetupReported'
  BY <1>1, <1>2 DEF SetupInv, SetupReported
<1>7. CheckReported'
  <2>1. ASSUME NEW a PROVE Scopes(a)' = Scopes(a) /\ ReadsCopies(a)' = ReadsCopies(a)
    BY <1>1 DEF Scopes, ReadsCopies, AllCopies
  <2>2. CheckReported /\ report' = report /\ machine' = machine
    BY <1>1 DEF SetupInv
  <2> QED
    BY <1>2, <2>1, <2>2 DEF CheckReported
<1>8. RecordIs'
  <2>1. \A a \in Installing : Scopes(a)' = Scopes(a) /\ machine' = machine
    BY <1>1 DEF Scopes
  <2> QED
    BY <1>2, <2>1 DEF RecordIs
<1> QED
  BY <1>3, <1>4, <1>5, <1>6, <1>7, <1>8 DEF SetupInv

LEMMA ReportIs ==
  ASSUME SetupInv, NEW unlisted \in SUBSET machine.clis, Report(unlisted)
  PROVE  SetupInv'
<1>1. /\ run.at = "report" /\ UNCHANGED <<machine, plugin, market, release, copies, cached, notes, record>> /\ run' = NoRun
      /\ since' = [since EXCEPT !.unlisted = @ \/ unlisted # {}]
      /\ run \in Runs1 /\ SetupShape
  BY DEF Report, machines, SetupInv, SetupShape
<1>2. /\ report'.of = IF run.check THEN "check" ELSE "setup"
      /\ report'.issues = Issues(unlisted) /\ report'.hints = Hints(unlisted) /\ report'.failed = run.failed
      /\ report'.outcome = run.outcome /\ report'.agents = run.chosen /\ report'.began = run.began /\ report'.latest = cached
  BY DEF Report
<1>3. /\ since' \in [edited : BOOLEAN, unlisted : BOOLEAN, misrecorded : BOOLEAN] /\ since'.misrecorded = since.misrecorded
      /\ since'.edited = since.edited /\ (since.unlisted => since'.unlisted) /\ (unlisted # {} => since'.unlisted)
  BY <1>1 DEF SetupShape
<1>4. NoRun \in Runs1 /\ run'.at = "idle" /\ run'.steps = <<>>
  BY <1>1 DEF NoRun, Runs1, AllAgents
<1>5. SetupShape'
  BY <1>1, <1>3, <1>4 DEF SetupShape
<1>6. StepsKnown' /\ RunIs' /\ DoneFor'
  BY <1>4 DEF StepsKnown, RunIs, DoneFor
<1>7. NotesAre'
  BY <1>1, <1>2, <1>4 DEF SetupInv, NotesAre, Written
<1>8. RecordIs'
  <2>1. \A a \in Installing : Scopes(a)' = Scopes(a) /\ machine' = machine /\ record' = record
    BY <1>1 DEF Scopes
  <2>2. report'.of = "setup" => ~run.check
    BY <1>2
  <2> QED
    BY <1>1, <1>3, <1>4, <2>1, <2>2 DEF SetupInv, RecordIs
<1>9. SetupReported'
  <2> SUFFICES ASSUME ~run.check, ~since.edited
               PROVE  /\ run.began \in Nat
                      /\ \A o \in run.outcome : o.is = "installed" => plugin[o.agent].user >= run.began
                      /\ ~run.failed => \A a \in run.chosen \cap machine.clis : plugin[a].user >= run.began
                      /\ ~run.failed /\ unlisted = {} /\ "setup" \in Hints(unlisted) =>
                           \E a \in run.chosen : a \in Installing /\ (plugin[a].project # NoVersion \/ a \notin machine.clis)
    BY <1>1, <1>2, <1>3 DEF SetupReported
  <2>1. run.began \in Nat /\ run.left = {}
    BY <1>1 DEF SetupInv, RunIs, Runs1
  <2>2. \A o \in run.outcome : o.is = "installed" => plugin[o.agent].user >= run.began
    BY <1>1 DEF SetupInv, DoneFor
  <2>3. ~run.failed => \A a \in run.chosen \cap machine.clis : plugin[a].user >= run.began
    BY <1>1, <2>1 DEF SetupInv, DoneFor
  <2>4. ASSUME ~run.failed, unlisted = {}, "setup" \in Hints(unlisted)
        PROVE  \E a \in run.chosen : a \in Installing /\ (plugin[a].project # NoVersion \/ a \notin machine.clis)
    <3>1. SetupWould({})
      BY <2>4 DEF Hints
    <3> QED
      BY <1>1, <2>4, <3>1, HintedAre
  <2> QED
    BY <2>1, <2>2, <2>3, <2>4
<1>10. CheckReported'
  <2> SUFFICES ASSUME Issues(unlisted) = {}, unlisted = {}, NEW a \in run.chosen
               PROVE  /\ (a \in Installing /\ Scopes(a) # {}) \/ ReadsCopies(a) # {}
                      /\ a \in machine.clis /\ cached # 0 => \A v \in Scopes(a) : v >= cached
    BY <1>1, <1>2, <1>3 DEF CheckReported, Scopes, ReadsCopies, AllCopies
  <2> QED
    BY <1>1, CheckedAre
<1> QED
  BY <1>5, <1>6, <1>7, <1>8, <1>9, <1>10 DEF SetupInv

LEMMA InterruptIs ==
  ASSUME SetupInv, Interrupt
  PROVE  SetupInv'
<1>1. run.at # "idle" /\ run' = NoRun /\ UNCHANGED <<machine, plugin, market, release, copies, cached, record, notes, report, since>>
  BY DEF Interrupt, machines
<1>2. NoRun \in Runs1 /\ run'.at = "idle" /\ run'.steps = <<>> /\ report.of = "none"
  BY <1>1 DEF NoRun, Runs1, AllAgents, SetupInv, RunIs
<1>3. SetupShape'
  BY <1>1, <1>2 DEF SetupInv, SetupShape
<1>4. StepsKnown' /\ RunIs' /\ DoneFor' /\ NotesAre' /\ SetupReported' /\ CheckReported'
  BY <1>1, <1>2 DEF StepsKnown, RunIs, DoneFor, NotesAre, SetupReported, CheckReported
<1>5. RecordIs'
  BY <1>1, <1>2 DEF SetupInv, RecordIs, Scopes
<1> QED
  BY <1>3, <1>4, <1>5 DEF SetupInv

LEMMA PublishIs ==
  ASSUME SetupInv, Publish
  PROVE  SetupInv'
<1>1. UNCHANGED <<machine, plugin, market, copies, cached, record, notes, run, report, since>> /\ release' = release + 1
  BY DEF Publish
<1>2. release' \in Nat \ {0} /\ cached <= release' /\ release <= release' /\ run.began \in Nat /\ release \in Nat
  BY <1>1 DEF SetupInv, SetupShape, Runs1
<1>3. SetupShape'
  BY <1>1, <1>2 DEF SetupInv, SetupShape
<1>4. StepsKnown' /\ SetupReported' /\ NotesAre'
  BY <1>1 DEF SetupInv, StepsKnown, SetupReported, NotesAre, Written
<1>5. RunIs'
  BY <1>1, <1>2 DEF SetupInv, RunIs
<1>6. DoneFor'
  BY <1>1 DEF SetupInv, DoneFor
<1>7. RecordIs' /\ CheckReported'
  BY <1>1 DEF SetupInv, RecordIs, CheckReported, Scopes, ReadsCopies, AllCopies
<1> QED
  BY <1>3, <1>4, <1>5, <1>6, <1>7 DEF SetupInv

LEMMA ChangePluginIs ==
  ASSUME SetupInv, NEW a \in Installing, ChangePlugin(a)
  PROVE  SetupInv'
<1>1. /\ UNCHANGED <<machine, market, release, copies, cached, record, notes, run, report>>
      /\ since' = [since EXCEPT !.edited = TRUE, !.misrecorded = TRUE]
      /\ \E v \in {NoVersion, market[a]} : plugin' = [plugin EXCEPT ![a].user = v]
  BY DEF ChangePlugin
<1>2. since' \in [edited : BOOLEAN, unlisted : BOOLEAN, misrecorded : BOOLEAN] /\ since'.edited /\ since'.misrecorded
  BY <1>1 DEF SetupInv, SetupShape
<1>3. plugin' \in [Installing -> [user : Nat, project : Nat]]
  <2>1. PICK v \in {NoVersion, market[a]} : plugin' = [plugin EXCEPT ![a].user = v]
    BY <1>1
  <2>2. v \in Nat /\ plugin \in [Installing -> [user : Nat, project : Nat]]
    BY DEF SetupInv, SetupShape, NoVersion
  <2> QED
    BY <2>1, <2>2
<1>4. SetupShape'
  BY <1>1, <1>2, <1>3 DEF SetupInv, SetupShape
<1>5. StepsKnown' /\ RunIs' /\ SetupReported' /\ CheckReported'
  BY <1>1, <1>2 DEF SetupInv, StepsKnown, RunIs, SetupReported, CheckReported
<1>6. DoneFor'
  BY <1>1, <1>2 DEF SetupInv, DoneFor
<1>7. NotesAre'
  BY <1>1 DEF SetupInv, NotesAre, Written
<1>8. RecordIs'
  BY <1>2 DEF RecordIs
<1> QED
  BY <1>4, <1>5, <1>6, <1>7, <1>8 DEF SetupInv

LEMMA SetupStays ==
  ASSUME SetupInv, UNCHANGED <<machines, cached, record, notes, run, report, since>>
  PROVE  SetupInv'
<1>1. UNCHANGED <<machine, plugin, market, release, copies, cached, record, notes, run, report, since>>
  BY DEF machines
<1>2. SetupShape' /\ StepsKnown' /\ RunIs' /\ DoneFor'
  BY <1>1 DEF SetupInv, SetupShape, StepsKnown, RunIs, DoneFor
<1>3. NotesAre'
  BY <1>1 DEF SetupInv, NotesAre, Written
<1>4. RecordIs'
  BY <1>1 DEF SetupInv, RecordIs, Scopes
<1>5. SetupReported' /\ CheckReported'
  BY <1>1 DEF SetupInv, SetupReported, CheckReported, Scopes, ReadsCopies, AllCopies
<1> QED
  BY <1>2, <1>3, <1>4, <1>5 DEF SetupInv

-----------------------------------------------------------------------------
(* The hint.                                                                *)

LEMMA ReadStreakIs ==
  ASSUME StreakIs, NEW s \in Shells, ReadStreak(s)
  PROVE  StreakIs'
<1>1. seen' = [seen EXCEPT ![s] = <<fails>>] /\ UNCHANGED <<fails, truth>> /\ seen = [o \in Shells |-> seen[o]]
  BY DEF ReadStreak, StreakIs
<1>2. seen' = [o \in Shells |-> seen'[o]] /\ \A o \in Shells : seen'[o] = IF o = s THEN <<fails>> ELSE seen[o]
  BY <1>1
<1> QED
  BY <1>1, <1>2 DEF StreakIs

\* A failure that no other command's came beside adds to what happened.
LEMMA WriteStreakIs ==
  ASSUME StreakIs, NEW s \in Shells, WriteStreak(s)
  PROVE  StreakIs'
<1> DEFINE times == Append(RecentOf(seen[s][1].times), clock)
           now == Append(RecentOf(truth.times), clock)
           enough == Len(times) >= HintAfter
           hints == enough /\ ~seen[s][1].hinted /\ HintsSetup
           over == truth.raced \/ \E o \in Shells \ {s} : seen[o] # <<>>
<1>1. /\ seen[s] # <<>> /\ seen' = [seen EXCEPT ![s] = <<>>] /\ seen = [o \in Shells |-> seen[o]]
      /\ fails' = [times |-> times, hinted |-> IF enough /\ ~seen[s][1].hinted THEN hints ELSE seen[s][1].hinted]
      /\ truth' = [times |-> now, hints |-> IF hints /\ truth.hints < 2 THEN truth.hints + 1 ELSE truth.hints,
                   raced |-> over, early |-> truth.early \/ (hints /\ ~(Len(now) >= HintAfter))]
  BY DEF WriteStreak, StreakIs
<1>2. seen' = [o \in Shells |-> seen'[o]] /\ \A o \in Shells : seen'[o] = IF o = s THEN <<>> ELSE seen[o]
  BY <1>1
<1>3. ASSUME ~truth'.raced
      PROVE  /\ \A o \in Shells : seen'[o] = <<>>
             /\ fails'.times = truth'.times /\ ~truth'.early
             /\ (fails'.hinted /\ truth'.hints = 1) \/ (~fails'.hinted /\ truth'.hints = 0)
  <2>1. ~truth.raced /\ \A o \in Shells \ {s} : seen[o] = <<>>
    BY <1>1, <1>3
  <2>2. /\ seen[s][1] = fails /\ fails.times = truth.times /\ ~truth.early
        /\ (fails.hinted /\ truth.hints = 1) \/ (~fails.hinted /\ truth.hints = 0)
    BY <1>1, <2>1 DEF StreakIs
  <2>3. times = now
    BY <2>2
  <2>4. hints => Len(now) >= HintAfter
    BY <2>3
  <2>9. /\ fails'.hinted = IF enough /\ ~seen[s][1].hinted THEN hints ELSE seen[s][1].hinted
        /\ truth'.hints = IF hints /\ truth.hints < 2 THEN truth.hints + 1 ELSE truth.hints
    BY <1>1
  <2>10. hints <=> enough /\ ~fails.hinted /\ HintsSetup
    BY <2>2
  <2> HIDE DEF times, now, enough, hints
  <2>5. fails'.times = times /\ truth'.times = now
    BY <1>1
  <2>6. ~truth'.early
    BY <1>1, <2>2, <2>4
  <2>7. ASSUME fails.hinted, truth.hints = 1 PROVE fails'.hinted /\ truth'.hints = 1
    <3>1. ~hints /\ truth'.hints = 1
      BY <2>7, <2>9, <2>10
    <3>2. fails'.hinted = fails.hinted
      BY <2>2, <2>7, <2>9
    <3> QED
      BY <2>7, <3>1, <3>2
  <2>8. ASSUME ~fails.hinted, truth.hints = 0
        PROVE  (fails'.hinted /\ truth'.hints = 1) \/ (~fails'.hinted /\ truth'.hints = 0)
    <3>1. CASE hints
      <4>1. enough /\ fails'.hinted = hints
        BY <2>2, <2>8, <2>9, <2>10, <3>1
      <4>2. truth'.hints = 1
        BY <2>8, <2>9, <3>1
      <4> QED
        BY <3>1, <4>1, <4>2
    <3>2. CASE ~hints
      <4>1. ~fails'.hinted
        BY <2>2, <2>8, <2>9, <3>2
      <4>2. truth'.hints = 0
        BY <2>8, <2>9, <3>2
      <4> QED
        BY <4>1, <4>2
    <3> QED
      BY <3>1, <3>2
  <2> QED
    BY <1>2, <2>1, <2>2, <2>3, <2>5, <2>6, <2>7, <2>8
<1> QED
  BY <1>2, <1>3 DEF StreakIs

LEMMA EndStreakIs ==
  ASSUME StreakIs, EndStreak
  PROVE  StreakIs'
<1>1. /\ fails' = [times |-> <<>>, hinted |-> FALSE] /\ seen' = seen
      /\ truth' = [times |-> <<>>, hints |-> 0, raced |-> \E s \in Shells : seen[s] # <<>>, early |-> FALSE]
  BY DEF EndStreak, NoStreak
<1> QED
  BY <1>1 DEF StreakIs

-----------------------------------------------------------------------------
LEMMA SetupBegins ==
  AgentSetupInit => SetupInv /\ StreakIs
<1> SUFFICES ASSUME AgentSetupInit PROVE SetupInv /\ StreakIs
  OBVIOUS
<1>1. /\ machine \in [clis : SUBSET Installing, found : SUBSET Known, repo : BOOLEAN]
      /\ plugin \in [Installing -> [user : 0 .. 1, project : 0 .. 1]] /\ market \in [Installing -> 0 .. 1]
      /\ release = 1 /\ cached = 0 /\ record = Unrecorded /\ run = NoRun /\ report = NoReport
      /\ since = [edited |-> FALSE, unlisted |-> FALSE, misrecorded |-> FALSE]
      /\ fails = NoStreak /\ seen = [s \in Shells |-> <<>>] /\ truth = [times |-> <<>>, hints |-> 0, raced |-> FALSE, early |-> FALSE]
  BY DEF AgentSetupInit
<1>2. NoRun \in Runs1 /\ run.at = "idle" /\ run.steps = <<>> /\ report.of = "none"
  BY <1>1 DEF NoRun, Runs1, AllAgents, NoReport
<1>3. plugin \in [Installing -> [user : Nat, project : Nat]] /\ market \in [Installing -> Nat]
  BY <1>1
<1>4. SetupShape
  BY <1>1, <1>2, <1>3 DEF SetupShape
<1>5. StepsKnown /\ RunIs /\ DoneFor /\ NotesAre /\ SetupReported /\ CheckReported
  BY <1>2 DEF StepsKnown, RunIs, DoneFor, NotesAre, SetupReported, CheckReported
<1>6. RecordIs
  BY <1>1, <1>2 DEF RecordIs
<1>7. StreakIs
  BY <1>1 DEF StreakIs, NoStreak
<1> QED
  BY <1>4, <1>5, <1>6, <1>7 DEF SetupInv

LEMMA SetupGoesOn ==
  ASSUME SetupInv, StreakIs, SetupNext
  PROVE  SetupInv' /\ StreakIs'
<1>1. SetupInv'
  BY BeginsIs, InstallIs, StepIs, WriteNotesIs, InterruptIs, RecordAfterIs, ReportIs, BackgroundIs, PublishIs, ChangePluginIs DEF SetupNext, AllAgents
<1>2. UNCHANGED streaks
  BY DEF SetupNext, Begins, Install, Step, WriteNotes, Interrupt, RecordAfter, Report, Background, Publish, ChangePlugin
<1>3. StreakIs'
  BY <1>2 DEF StreakIs, streaks
<1> QED
  BY <1>1, <1>3

LEMMA StreakGoesOn ==
  ASSUME SetupInv, StreakIs, StreakNext
  PROVE  SetupInv' /\ StreakIs'
<1>1. UNCHANGED <<machines, cached, record, notes, run, report, since>>
  BY DEF StreakNext, ReadStreak, WriteStreak, EndStreak, Tick
<1>2. ASSUME Tick PROVE StreakIs'
  <2>1. UNCHANGED <<fails, seen, truth>>
    BY <1>2 DEF Tick
  <2> QED
    BY <2>1 DEF StreakIs
<1>3. StreakIs'
  BY <1>2, ReadStreakIs, WriteStreakIs, EndStreakIs DEF StreakNext
<1> QED
  BY <1>1, <1>3, SetupStays

\* Whatever agents, plugins, copies and notes there are, whichever steps of an
\* agent's CLI fail, and whatever is released beside it: but for what someone
\* changes by hand meanwhile, an agent that setup says it installed the skills for
\* has what was the latest as it began, or later; a setup that succeeds leaves
\* nothing it would do again, or the notice would say of it; "up to date" is so;
\* and a streak of failures gets one hint (setup.go, notice.go, hint.go).
THEOREM SkillsAreSaidSoundly ==
  AgentSetupInit /\ [][SetupNext \/ StreakNext]_agentSetup => []SkillsAreSaid
<1>1. SetupInv /\ StreakIs /\ [SetupNext \/ StreakNext]_agentSetup => SetupInv' /\ StreakIs'
  <2> SUFFICES ASSUME SetupInv, StreakIs, [SetupNext \/ StreakNext]_agentSetup PROVE SetupInv' /\ StreakIs'
    OBVIOUS
  <2>1. CASE UNCHANGED agentSetup
    <3>1. UNCHANGED <<machines, cached, record, notes, run, report, since>> /\ UNCHANGED <<fails, seen, clock, truth>>
      BY <2>1 DEF agentSetup, streaks
    <3>2. StreakIs'
      BY <3>1 DEF StreakIs
    <3> QED
      BY <3>1, <3>2, SetupStays
  <2> QED
    BY <2>1, SetupGoesOn, StreakGoesOn
<1> QED
  BY <1>1, SetupBegins, SetupIsSaid, PTL
=============================================================================
