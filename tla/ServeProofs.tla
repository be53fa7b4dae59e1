---------------------------- MODULE ServeProofs ----------------------------
(***************************************************************************)
(* What serve.json tells of any number of servers, however they start,     *)
(* stop and crash, and however many CLI calls look for them.               *)
(***************************************************************************)
EXTENDS Serve, TLAPS

\* The states after the record is written, and those after serving.
Over == {"stopping", "removing", "deleting", "closing", "closed"} \cup Ended
Past == {"renaming", "recorded", "serving"} \cup Over

Typed ==
  /\ pc \in [Servers -> {"off", "asking"} \cup Started \cup Ended]
  /\ content \in [Servers -> Servers \cup {Torn}]
  /\ fd \in [Servers -> Servers \cup {NoFile}]
  /\ \A s \in Servers : pc[s] = "writing" => fd[s] # NoFile
  /\ {tmp, rt} \subseteq Servers \cup {NoFile}
  /\ seen \in [Readers -> Known]
  /\ beside \in [Servers -> SUBSET Servers]
  /\ budget \in [crashes : 0 .. MaxCrashes, slow : 0 .. MaxSlow]

\* Only a server that has written its record is named, in a file or in what
\* was read of one.
NamesThePast ==
  /\ \A i \in Servers : content[i] # Torn => pc[content[i]] \in Past
  /\ \A r \in Readers : seen[r] # Nobody => pc[seen[r]] \in Past

\* A server alone has both files to itself.
Alone ==
  \A s \in Running :
    /\ \A t \in Running \ {s} : t \in beside[s]
    /\ beside[s] = {} =>
         /\ pc[s] = "writing" => tmp # NoFile /\ fd[s] = tmp /\ content[tmp] = Torn
         /\ pc[s] = "renaming" => tmp # NoFile /\ content[tmp] = s
         /\ pc[s] \in {"recorded", "serving"} => rt # NoFile /\ content[rt] = s

\* Once a server is recorded serve.json.tmp never holds its record again, and
\* once it has looked for the last time neither does serve.json.
Gone ==
  \A s \in Servers :
    /\ pc[s] \in {"recorded", "serving", "stopping", "removing", "deleting",
                  "closing", "closed", "exited"}
         => tmp = NoFile \/ content[tmp] # s
    /\ pc[s] \in {"closing", "closed", "exited"} => rt = NoFile \/ content[rt] # s

\* A server that started did so after the end of the one it read of, unless
\* an answer came late.
Succeeds ==
  \A t \in Servers :
    pc[t] \in Started /\ seen[t] # Nobody /\ budget.slow = MaxSlow
      => pc[seen[t]] \in Over

Inv == Typed /\ NamesThePast /\ Alone /\ Gone /\ Succeeds

LEMMA InitInv == Init => Inv
<1> SUFFICES ASSUME Init PROVE Inv
  OBVIOUS
<1> USE ServeAssumption
<1>1. Typed
  BY DEF Init, Typed, Ended, Readers, Known
<1>2. NamesThePast
  BY DEF Init, NamesThePast
<1>3. Running = {}
  BY DEF Init, Running, Started
<1>4. Alone
  BY <1>3 DEF Alone
<1>5. Gone
  BY DEF Init, Gone
<1>6. Succeeds
  BY DEF Init, Succeeds, Readers
<1> QED
  BY <1>1, <1>2, <1>4, <1>5, <1>6 DEF Inv

\* A step that moves one server on, past neither a write, a rename nor the
\* start of its service, and leaves the files to themselves.
LEMMA MoveInv ==
  ASSUME Inv, NEW s \in Servers, NEW to,
         pc' = [pc EXCEPT ![s] = to],
         \/ pc[s] = "starting" /\ to \in {"creating", "failed"}
         \/ pc[s] = "renaming" /\ to = "failed"
         \/ pc[s] = "recorded" /\ to \in {"serving", "stopping"}
         \/ pc[s] = "serving" /\ to = "stopping"
         \/ pc[s] = "stopping" /\ to = "removing"
         \/ pc[s] = "removing" /\ to = "deleting"
         \/ pc[s] = "removing" /\ to = "closing" /\ Recorded # s
         \/ pc[s] = "closing" /\ to = "closed"
         \/ pc[s] = "closed" /\ to = "exited"
         \/ pc[s] = "asking" /\ to = "refused",
         UNCHANGED <<files, seen, beside, budget>>
  PROVE  Inv'
<1> USE DEF Inv, files
<1>1. Typed'
  BY DEF Typed, Started, Ended
<1>2. NamesThePast'
  BY DEF Typed, NamesThePast, Past, Over, Ended, Known, Readers
<1>3. Alone'
  BY DEF Typed, Alone, Running, Started, Ended
<1>4. Gone'
  BY ServeAssumption DEF Typed, Gone, Recorded, Started, Ended, NamesThePast, Past, Over
<1>5. Succeeds'
  BY DEF Typed, Succeeds, NamesThePast, Started, Over, Past, Ended, Readers
<1> QED
  BY <1>1, <1>2, <1>3, <1>4, <1>5

\* A step of neither the servers nor their files, nor a late answer.
LEMMA RestInv ==
  ASSUME Inv, UNCHANGED <<pc, files, seen, beside>>,
         \/ UNCHANGED budget
         \/ Late
  PROVE  Inv'
<1> USE ServeAssumption DEF Inv, files
<1>1. Typed'
  BY DEF Typed, Late
<1>2. budget'.slow = MaxSlow => budget.slow = MaxSlow
  BY DEF Typed, Late
<1>3. (NamesThePast /\ Alone /\ Gone)'
  BY DEF NamesThePast, Alone, Gone, Running
<1>4. Succeeds'
  BY <1>2 DEF Succeeds
<1> QED
  BY <1>1, <1>3, <1>4, SMTT(30)

\* Reading serve.json, as a server or for a call.
LEMMA ReadInv ==
  ASSUME Inv, NEW r \in Readers, Read(r),
         \/ r \in Servers /\ Moves(r, "off", "asking")
         \/ r \in Calls /\ UNCHANGED pc,
         UNCHANGED <<files, beside, budget>>
  PROVE  Inv'
<1> USE ServeAssumption DEF Inv, files, Moves
<1>1. Recorded \in Known /\ (Recorded # Nobody => pc[Recorded] \in Past)
  BY DEF Typed, NamesThePast, Recorded, Known
<1>2. Typed'
  BY <1>1 DEF Typed, Read, Readers
<1>3. NamesThePast'
  BY <1>1 DEF Typed, NamesThePast, Read, Readers, Known, Past, Over, Ended
<1>4. Running' = Running
  BY DEF Typed, Running, Started
<1>5. Alone'
  BY <1>4 DEF Typed, Alone, Running, Started
<1>6. Gone'
  BY DEF Typed, Gone
<1>7. Succeeds'
  BY DEF Typed, Succeeds, Read, Readers, Known, Started, Over, Ended, NamesThePast, Past
<1> QED
  BY <1>2, <1>3, <1>5, <1>6, <1>7

LEMMA BeginInv == ASSUME Inv, NEW s \in Servers, Begin(s) PROVE Inv'
<1> USE ServeAssumption DEF Inv, files, Moves, Begin
<1>1. budget' = budget \/ Late
  BY DEF NotFound
<1>2. Typed'
  BY <1>1 DEF Typed, Late, Running, Started
<1>3. NamesThePast'
  BY DEF Typed, NamesThePast, Past, Over, Ended, Known, Readers
<1>4. Running' = Running \cup {s}
  BY DEF Typed, Running, Started
<1>5. Alone'
  <2> SUFFICES ASSUME NEW t \in Running' PROVE
        /\ \A u \in Running' \ {t} : u \in beside'[t]
        /\ beside'[t] = {} => pc'[t] = "starting"
    BY DEF Alone
  <2>1. CASE t = s
    BY <2>1, <1>4 DEF Typed
  <2>2. CASE t # s
    BY <2>2, <1>4 DEF Typed, Alone, Running
  <2> QED
    BY <2>1, <2>2
<1>6. Gone'
  BY DEF Typed, Gone
<1>7. Succeeds'
  <2>1. budget'.slow = MaxSlow => budget.slow = MaxSlow /\ ~Late
    BY <1>1 DEF Typed, Late
  <2>2. budget'.slow = MaxSlow /\ seen[s] # Nobody => pc[seen[s]] \in Over
    BY <2>1 DEF NotFound, Answering, Opening, Typed, Readers, Known, NamesThePast, Past
  <2> QED
    BY <2>1, <2>2 DEF Typed, Succeeds, Over, Ended, Readers, NamesThePast, Past, Known
<1> QED
  BY <1>2, <1>3, <1>5, <1>6, <1>7

LEMMA CreateInv == ASSUME Inv, NEW s \in Servers, CreateTmp(s) PROVE Inv'
<1> USE ServeAssumption DEF Inv, Moves, CreateTmp
<1>1. Typed'
  BY DEF Typed, Started
<1>2. NamesThePast'
  BY DEF Typed, NamesThePast, Past, Over, Ended, Known, Readers
<1>3. Running' = Running
  BY DEF Typed, Running, Started
<1>4. Alone'
  BY <1>3 DEF Typed, Alone, Running, Started
<1>5. Gone'
  BY DEF Typed, Gone
<1>6. Succeeds'
  BY DEF Typed, Succeeds, Started, Over, Ended, Readers, Known
<1> QED
  BY <1>1, <1>2, <1>4, <1>5, <1>6

LEMMA FailInv == ASSUME Inv, NEW s \in Servers, WriteFails(s) PROVE Inv'
<1> USE ServeAssumption DEF Inv, WriteFails
<1>1. Typed'
  BY DEF Typed, Started, Ended
<1>2. NamesThePast'
  BY DEF Typed, NamesThePast, Past, Over, Ended, Known, Readers
<1>3. Running' = Running \ {s}
  BY DEF Typed, Running, Started
<1>4. Alone'
  BY <1>3 DEF Typed, Alone, Running, Started
<1>5. Gone'
  BY DEF Typed, Gone
<1>6. Succeeds'
  BY DEF Typed, Succeeds, Started, Over, Ended, Readers, Known
<1> QED
  BY <1>1, <1>2, <1>4, <1>5, <1>6

LEMMA WriteInv == ASSUME Inv, NEW s \in Servers, WriteTmp(s) PROVE Inv'
<1> USE ServeAssumption DEF Inv, Moves
<1>1. /\ fd[s] \in Servers
      /\ pc' = [pc EXCEPT ![s] = "renaming"] /\ pc[s] = "writing"
      /\ fd' = [fd EXCEPT ![s] = NoFile]
      /\ UNCHANGED <<tmp, rt, seen, beside, budget>>
  BY DEF WriteTmp, Typed
<1>2. PICK i \in Servers, w \in Servers \cup {Torn} :
        /\ i = fd[s]
        /\ w = s \/ (w = Torn /\ content[i] # Torn)
        /\ content' = [content EXCEPT ![i] = w]
  BY <1>1 DEF WriteTmp
<1>3. Typed'
  BY <1>1, <1>2 DEF Typed, Started
<1>4. NamesThePast'
  BY <1>1, <1>2 DEF Typed, NamesThePast, Past, Over, Ended, Known, Readers
<1>5. Running' = Running
  BY <1>1 DEF Typed, Running, Started
<1>6. Alone'
  BY <1>1, <1>2, <1>5 DEF Typed, Alone, Running, Started
<1>7. Gone'
  BY <1>1, <1>2 DEF Typed, Gone
<1>8. Succeeds'
  BY <1>1 DEF Typed, Succeeds, Started, Over, Ended, Readers, Known
<1> QED
  BY <1>3, <1>4, <1>6, <1>7, <1>8

LEMMA RenameInv == ASSUME Inv, NEW s \in Servers, Rename(s) PROVE Inv'
<1> USE ServeAssumption DEF Inv, Moves, Rename
<1>1. Typed'
  BY DEF Typed, Started
<1>2. NamesThePast'
  BY DEF Typed, NamesThePast, Past, Over, Ended, Known, Readers
<1>3. Running' = Running
  BY DEF Typed, Running, Started
<1>4. Alone'
  BY <1>3 DEF Typed, Alone, Running, Started
<1>5. Gone'
  BY DEF Typed, Gone
<1>6. Succeeds'
  BY DEF Typed, Succeeds, Started, Over, Ended, Readers, Known
<1> QED
  BY <1>1, <1>2, <1>4, <1>5, <1>6, SMTT(30)

LEMMA RemoveInv == ASSUME Inv, NEW s \in Servers, Remove(s) PROVE Inv'
<1> USE ServeAssumption DEF Inv, Moves, Remove
<1>1. Typed'
  BY DEF Typed, Started
<1>2. NamesThePast'
  BY DEF Typed, NamesThePast, Past, Over, Ended, Known, Readers
<1>3. Running' = Running
  BY DEF Typed, Running, Started
<1>4. Alone'
  BY <1>3 DEF Typed, Alone, Running, Started
<1>5. Gone'
  BY DEF Typed, Gone
<1>6. Succeeds'
  BY DEF Typed, Succeeds, Started, Over, Ended, Readers, Known
<1> QED
  BY <1>1, <1>2, <1>4, <1>5, <1>6

LEMMA CrashInv == ASSUME Inv, NEW s \in Servers, Crash(s) PROVE Inv'
<1> USE ServeAssumption DEF Inv, Crash
<1>1. Typed'
  BY DEF Typed, Started, Ended
<1>2. NamesThePast'
  BY DEF Typed, NamesThePast, Past, Over, Ended, Known, Readers
<1>3. Running' = Running \ {s}
  BY DEF Typed, Running, Started
<1>4. Alone'
  BY <1>3 DEF Typed, Alone, Running, Started
<1>5. Gone'
  BY DEF Typed, Gone
<1>6. Succeeds'
  BY DEF Typed, Succeeds, Started, Over, Ended, Readers, Known
<1> QED
  BY <1>1, <1>2, <1>4, <1>5, <1>6

\* Every step keeps the invariant.
LEMMA NextInv == Inv /\ [Next]_vars => Inv'
<1> SUFFICES ASSUME Inv, [Next]_vars PROVE Inv'
  OBVIOUS
<1>1. ASSUME NEW s \in Servers, LaunchRead(s) PROVE Inv'
  BY <1>1, ReadInv DEF LaunchRead, Readers
<1>2. ASSUME NEW s \in Servers, Launching(s) PROVE Inv'
  <2>1. CASE Refuse(s)
    BY <2>1, MoveInv DEF Refuse, Moves, Found
  <2>2. CASE SidecarsUp(s) \/ StartFails(s) \/ RenameFails(s) \/ Serves(s)
    BY <2>2, MoveInv DEF SidecarsUp, StartFails, RenameFails, Serves, Moves
  <2> QED
    BY <1>2, <2>1, <2>2, BeginInv, CreateInv, WriteInv, RenameInv, FailInv DEF Launching
<1>3. ASSUME NEW s \in Servers, Stopping(s) PROVE Inv'
  <2>1. CASE Shutdown(s)
    BY <2>1, MoveInv DEF Shutdown
  <2>2. CASE RoutinesStop(s) \/ Close(s) \/ Exit(s)
    BY <2>2, MoveInv DEF RoutinesStop, Close, Exit, Moves
  <2>3. CASE RemoveReads(s) /\ Recorded = s
    BY <2>3, MoveInv DEF RemoveReads
  <2>4. CASE RemoveReads(s) /\ Recorded # s
    BY <2>4, MoveInv DEF RemoveReads
  <2> QED
    BY <1>3, <2>1, <2>2, <2>3, <2>4, RemoveInv DEF Stopping
<1>4. ASSUME NEW s \in Servers,
             \/ Signal(s) \/ DrainEnds(s) \/ Elapse(s) \/ CheckLoads(s)
             \/ IdleStop(s) \/ CheckPasses(s)
      PROVE  Inv'
  BY <1>4, RestInv DEF Signal, DrainEnds, Elapse, CheckLoads, IdleStop, CheckPasses
<1>5. ASSUME NEW s \in Servers, Crash(s) PROVE Inv'
  BY <1>5, CrashInv
<1>6. ASSUME NEW c \in Calls, InvokeReads(c) PROVE Inv'
  BY <1>6, ReadInv DEF InvokeReads, Readers
<1>7. ASSUME NEW c \in Calls, InvokeFinds(c) \/ InvokeHere(c) \/ InvokeLocally(c) PROVE Inv'
  BY <1>7, RestInv DEF InvokeFinds, InvokeHere, InvokeLocally, Found, NotFound
<1>8. ASSUME NEW c \in Calls,
             Arrives(c) \/ Misses(c) \/ Returns(c) \/ StoresLast(c) \/ CountsDown(c)
      PROVE  Inv'
  BY <1>8, RestInv DEF Arrives, Misses, Returns, StoresLast, CountsDown
<1>9. CASE UNCHANGED vars
  BY <1>9, RestInv, SMTT(30) DEF vars
<1> QED
  BY <1>1, <1>2, <1>3, <1>4, <1>5, <1>6, <1>7, <1>8, <1>9 DEF Next, Calling

LEMMA AlwaysInv == Spec => []Inv
  BY InitInv, NextInv, PTL DEF Spec

\* However many servers start, refuse, crash, or leave half a record behind
\* (runtime.go:91-101), one that serves and that none was started beside is
\* the one serve.json names.
THEOREM SoleServerIsFound == Spec => []ServingIsFound
<1>1. Inv => ServingIsFound
  BY ServeAssumption DEF Inv, Typed, Alone, Running, Started, ServingIsFound, Recorded
<1> QED
  BY <1>1, AlwaysInv, PTL

\* serve.json never names a server that has stopped, whatever other servers
\* write, rename and remove meanwhile (runtime.go:74-80).
THEOREM StoppedLeavesNoRecord == Spec => []StoppedIsNotRecorded
<1>1. Inv => StoppedIsNotRecorded
  BY ServeAssumption DEF Inv, Typed, Gone, StoppedIsNotRecorded, Recorded
<1> QED
  BY <1>1, AlwaysInv, PTL

\* No server serves beside the one it read of as it started, but for a late
\* answer (serve.go:98-100): the only two to serve at once are those that read
\* serve.json before the other was in it.
THEOREM RefusesBesideTheRecorded == Spec => []RefusesBesideRecorded
<1>1. Inv => RefusesBesideRecorded
  BY ServeAssumption
  DEF Inv, Typed, Succeeds, Started, Over, Ended, RefusesBesideRecorded
<1> QED
  BY <1>1, AlwaysInv, PTL

(***************************************************************************)
(* The idle check.                                                         *)
(***************************************************************************)
\* `last` is an idle timeout old, though the server was not calm for as long,
\* only while a request is on its way to setting it; and a check that began
\* when the server was not calm finds it recent.
CallStates ==
  {"idle", "asking", "posting", "local", "answered", "unreachable",
   "in flight", "returned", "stored"}

IdleInv ==
  /\ old \in [Servers -> BOOLEAN]
  /\ calm \in [Servers -> BOOLEAN]
  /\ check \in [Servers -> {"none", "calm", "busy"}]
  /\ \A s \in Servers :
       /\ old[s] /\ ~calm[s]
            => \E c \in Calls : seen[c] = s /\ call[c] \in {"in flight", "returned"}
       /\ check[s] = "busy" => ~old[s]
  /\ call \in [Calls -> CallStates]
  /\ seen \in [Readers -> Known]

LEMMA IdleInit == Init => IdleInv
  BY ServeAssumption DEF Init, IdleInv, Readers, Known, CallStates

\* The steps of the servers that leave idle alone, or end a process.
LEMMA IdleServer ==
  ASSUME IdleInv, NEW s \in Servers,
         \/ UNCHANGED <<idle, call, seen>>
         \/ check' = [check EXCEPT ![s] = "none"] /\ UNCHANGED <<old, calm, call, seen>>
         \/ CutOff(s) /\ UNCHANGED seen
         \/ Read(s) /\ UNCHANGED <<idle, call>> /\ Recorded \in Known
         \/ Elapse(s) \/ CheckLoads(s) \/ IdleStop(s) \/ CheckPasses(s)
  PROVE  IdleInv'
<1>1. CASE UNCHANGED <<idle, call, seen>>
  BY <1>1 DEF IdleInv, idle
<1>2. CASE check' = [check EXCEPT ![s] = "none"] /\ UNCHANGED <<old, calm, call, seen>>
  BY <1>2 DEF IdleInv
<1>3. CASE CutOff(s) /\ UNCHANGED seen
  BY <1>3 DEF IdleInv, CutOff, InFlight, CallStates
<1>4. CASE Read(s) /\ UNCHANGED <<idle, call>> /\ Recorded \in Known
  <2>1. seen' \in [Readers -> Known] /\ \A c \in Calls : seen'[c] = seen[c]
    BY <1>4, ServeAssumption DEF IdleInv, Read, Readers
  <2> QED
    BY <1>4, <2>1 DEF IdleInv, idle
<1>5. CASE Elapse(s)
  <2>1. /\ old' = [old EXCEPT ![s] = TRUE]
        /\ calm' = [calm EXCEPT ![s] = InFlight(s) = {}]
        /\ check[s] = "none"
        /\ UNCHANGED <<check, call, seen>>
    BY <1>5 DEF Elapse
  <2>2. \/ calm' = [calm EXCEPT ![s] = TRUE]
        \/ /\ calm' = [calm EXCEPT ![s] = FALSE]
           /\ \E c \in Calls : seen[c] = s /\ call[c] = "in flight"
    BY <1>5 DEF Elapse, InFlight
  <2> QED
    BY <2>1, <2>2 DEF IdleInv
<1>6. CASE CheckLoads(s)
  BY <1>6 DEF IdleInv, CheckLoads, InFlight, Counted
<1>7. CASE IdleStop(s) \/ CheckPasses(s)
  <2>1. check' = [check EXCEPT ![s] = "none"] /\ UNCHANGED <<old, calm, call, seen>>
    BY <1>7 DEF IdleStop, CheckPasses
  <2> QED
    BY <2>1, <1>2
<1> QED
  BY <1>1, <1>2, <1>3, <1>4, <1>5, <1>6, <1>7

\* The steps of a reader that asks for /health.
LEMMA IdleAsks ==
  ASSUME IdleInv, NEW r \in Readers, Found(r) \/ NotFound(r),
         \/ UNCHANGED call
         \/ \E to \in {"posting", "local"} : CallMoves(r, "asking", to),
         UNCHANGED seen
  PROVE  IdleInv'
<1>1. \/ UNCHANGED idle
      \/ Noted(seen[r]) /\ seen[r] \in Servers
  BY DEF Found, NotFound, Answering
<1>2. \A c \in Calls : call[c] \in {"in flight", "returned"} => call'[c] = call[c]
  BY DEF IdleInv, CallMoves, CallStates
<1>3. call' \in [Calls -> CallStates]
  <2>1. CASE UNCHANGED call
    BY <2>1 DEF IdleInv
  <2>2. ASSUME NEW to \in {"posting", "local"}, CallMoves(r, "asking", to)
        PROVE  call' \in [Calls -> CallStates]
    BY <2>2 DEF IdleInv, CallMoves, CallStates
  <2> QED
    BY <2>1, <2>2
<1>4. CASE UNCHANGED idle
  BY <1>2, <1>3, <1>4 DEF IdleInv, idle
<1>5. CASE Noted(seen[r]) /\ seen[r] \in Servers
  <2> DEFINE s == seen[r]
  <2>1. /\ old' = [old EXCEPT ![s] = FALSE]
        /\ calm' = [calm EXCEPT ![s] = FALSE]
        /\ UNCHANGED <<check, seen>>
    BY <1>5 DEF Noted
  <2> HIDE DEF s
  <2> QED
    BY <1>2, <1>3, <1>5, <2>1 DEF IdleInv
<1> QED
  BY <1>1, <1>4, <1>5

LEMMA IdleCall ==
  ASSUME Typed, IdleInv, NEW c \in Calls,
         \/ InvokeReads(c) \/ Arrives(c) \/ Misses(c)
         \/ Returns(c) \/ StoresLast(c) \/ CountsDown(c)
  PROVE  IdleInv'
<1> USE ServeAssumption DEF IdleInv, CallMoves, Readers, idle, CallStates
<1>1. CASE InvokeReads(c)
  <2>1. Recorded \in Known
    BY ZenonT(60) DEF Typed, Recorded, Known
  <2> QED
    BY <1>1, <2>1 DEF InvokeReads, Read
<1>2. CASE Arrives(c)
  BY <1>2, ZenonT(60) DEF Arrives, Answering
<1>3. CASE Misses(c)
  BY <1>3 DEF Misses
<1>4. CASE Returns(c)
  BY <1>4 DEF Returns
<1>5. CASE StoresLast(c)
  BY <1>5 DEF StoresLast
<1>6. CASE CountsDown(c)
  BY <1>6 DEF CountsDown
<1> QED
  BY <1>1, <1>2, <1>3, <1>4, <1>5, <1>6

LEMMA IdleNext == Typed /\ IdleInv /\ [Next]_vars => IdleInv'
<1> SUFFICES ASSUME Typed, IdleInv, [Next]_vars PROVE IdleInv'
  OBVIOUS
<1>1. ASSUME NEW s \in Servers, LaunchRead(s) PROVE IdleInv'
  <2>1. Recorded \in Known
    BY DEF Typed, Recorded, Known
  <2> QED
    BY <1>1, <2>1, IdleServer DEF LaunchRead
<1>2. ASSUME NEW s \in Servers, Refuse(s) \/ Begin(s) PROVE IdleInv'
  BY <1>2, IdleAsks DEF Refuse, Begin, Readers
<1>3. ASSUME NEW s \in Servers, Launching(s), ~Refuse(s), ~Begin(s) PROVE IdleInv'
  BY <1>3, IdleServer
  DEF Launching, SidecarsUp, StartFails, CreateTmp, WriteFails, WriteTmp, Rename, RenameFails, Serves
<1>4. ASSUME NEW s \in Servers, Stopping(s) PROVE IdleInv'
  BY <1>4, IdleServer DEF Stopping, Shutdown, RoutinesStop, RemoveReads, Remove, Close, Exit
<1>5. ASSUME NEW s \in Servers, Signal(s) \/ DrainEnds(s) \/ Crash(s) PROVE IdleInv'
  BY <1>5, IdleServer DEF Signal, DrainEnds, Crash
<1>6. ASSUME NEW s \in Servers,
             Elapse(s) \/ CheckLoads(s) \/ IdleStop(s) \/ CheckPasses(s)
      PROVE  IdleInv'
  BY <1>6, IdleServer
<1>7. ASSUME NEW c \in Calls, InvokeFinds(c) \/ InvokeHere(c) \/ InvokeLocally(c) PROVE IdleInv'
  BY <1>7, IdleAsks DEF InvokeFinds, InvokeHere, InvokeLocally, Readers
<1>8. ASSUME NEW c \in Calls, Calling(c), ~InvokeFinds(c), ~InvokeHere(c), ~InvokeLocally(c)
      PROVE  IdleInv'
  BY <1>8, IdleCall DEF Calling
<1>9. CASE UNCHANGED vars
  BY <1>9 DEF vars, idle, IdleInv
<1> QED
  BY <1>1, <1>2, <1>3, <1>4, <1>5, <1>6, <1>7, <1>8, <1>9 DEF Next

\* The idle check (serve.go:455-475) stops no server that was busy when the
\* check began, for any number of requests: `last` is set before inFlight is
\* counted down, and read after it.
THEOREM IdleStopsOnlyTheCalm == Spec => IdleStopIsJustified
<1>1. IdleInv => \A s \in Servers : IdleStop(s) => check[s] = "calm"
  <2> SUFFICES ASSUME IdleInv, NEW s \in Servers, IdleStop(s)
               PROVE  check[s] = "calm"
    OBVIOUS
  <2>1. check[s] # "none" /\ old[s]
    BY DEF IdleStop
  <2> QED
    BY <2>1 DEF IdleInv
<1>2. Inv => Typed
  BY DEF Inv
<1>3. Spec => []IdleInv
  BY IdleInit, IdleNext, AlwaysInv, <1>2, PTL DEF Spec
<1>4. IdleInv => [\A s \in Servers : IdleStop(s) => check[s] = "calm"]_vars
  BY <1>1
<1> QED
  BY <1>3, <1>4, PTL DEF IdleStopIsJustified

(***************************************************************************)
(* The requests cut off.                                                   *)
(***************************************************************************)
\* A server past serving was told to stop.
ToldInv ==
  /\ told \in [Servers -> BOOLEAN]
  /\ \A s \in Servers : pc[s] \in {"stopping", "removing", "deleting", "closing", "closed"} => told[s]

LEMMA ToldNext == Typed /\ ToldInv /\ [Next]_vars => ToldInv'
<1> SUFFICES ASSUME Typed, ToldInv, [Next]_vars PROVE ToldInv'
  OBVIOUS
<1> USE DEF ToldInv, Typed
<1>1. ASSUME NEW s \in Servers, LaunchRead(s) PROVE ToldInv'
  BY <1>1 DEF LaunchRead, Moves
<1>2. ASSUME NEW s \in Servers, Launching(s) PROVE ToldInv'
  BY <1>2 DEF Launching, Refuse, Begin, SidecarsUp, StartFails, CreateTmp, WriteFails, WriteTmp,
              Rename, RenameFails, Serves, Moves
<1>3. ASSUME NEW s \in Servers, Stopping(s) PROVE ToldInv'
  BY <1>3 DEF Stopping, Shutdown, RoutinesStop, RemoveReads, Remove, Close, Exit, Moves
<1>4. ASSUME NEW s \in Servers, Signal(s) \/ IdleStop(s) PROVE ToldInv'
  BY <1>4 DEF Signal, IdleStop
<1>5. ASSUME NEW s \in Servers, Crash(s) PROVE ToldInv'
  BY <1>5 DEF Crash
<1>6. ASSUME NEW s \in Servers, DrainEnds(s) \/ Elapse(s) \/ CheckLoads(s) \/ CheckPasses(s)
      PROVE  ToldInv'
  BY <1>6 DEF DrainEnds, Elapse, CheckLoads, CheckPasses
<1>7. ASSUME NEW c \in Calls, Calling(c) PROVE ToldInv'
  BY <1>7 DEF Calling, InvokeReads, InvokeFinds, InvokeHere, InvokeLocally, Arrives, Misses, Returns,
              StoresLast, CountsDown
<1>8. CASE UNCHANGED vars
  BY <1>8 DEF vars
<1> QED
  BY <1>1, <1>2, <1>3, <1>4, <1>5, <1>6, <1>7, <1>8 DEF Next

\* Only Close cuts requests off, those its own server handles.
LEMMA OnlyCloseCuts ==
  ASSUME [Next]_vars, NEW c \in cut' \ cut
  PROVE  \E s \in Servers : Close(s) /\ c \in InFlight(s)
<1>1. ASSUME NEW s \in Servers, Stopping(s) PROVE cut' = cut \/ Close(s)
  BY <1>1 DEF Stopping, Shutdown, RoutinesStop, RemoveReads, Remove, Exit
<1>2. ASSUME NEW s \in Servers, Launching(s) \/ LaunchRead(s) PROVE cut' = cut
  BY <1>2 DEF Launching, LaunchRead, Refuse, Begin, SidecarsUp, StartFails, CreateTmp, WriteFails,
              WriteTmp, Rename, RenameFails, Serves
<1>3. ASSUME NEW s \in Servers,
             \/ Signal(s) \/ DrainEnds(s) \/ Crash(s) \/ Elapse(s) \/ CheckLoads(s)
             \/ IdleStop(s) \/ CheckPasses(s)
      PROVE  cut' = cut
  BY <1>3 DEF Signal, DrainEnds, Crash, Elapse, CheckLoads, IdleStop, CheckPasses
<1>4. ASSUME NEW d \in Calls, Calling(d) PROVE cut' = cut
  BY <1>4 DEF Calling, InvokeReads, InvokeFinds, InvokeHere, InvokeLocally, Arrives, Misses, Returns,
              StoresLast, CountsDown
<1>5. UNCHANGED vars => cut' = cut
  BY DEF vars
<1>6. PICK s \in Servers : Close(s)
  BY <1>1, <1>2, <1>3, <1>4, <1>5 DEF Next
<1> QED
  BY <1>6 DEF Close

\* A request loses the sidecars (serve.go:180) only at a server that was told
\* to stop and that serve.json names no more, for any servers and calls.
THEOREM OnlyTheStoppedCut == Spec => CutOnlySo
<1>1. Init => ToldInv
  BY DEF Init, ToldInv
<1>2. Inv => Typed
  BY DEF Inv
<1>3. Spec => []ToldInv
  BY <1>1, <1>2, ToldNext, AlwaysInv, PTL DEF Spec
<1>4. ASSUME Inv, ToldInv, [Next]_vars
      PROVE  [\A c \in cut' \ cut : told[seen[c]] /\ Recorded # seen[c]]_vars
  <2>1. ASSUME NEW c \in cut' \ cut PROVE told[seen[c]] /\ Recorded # seen[c]
    <3>1. PICK s \in Servers : Close(s) /\ c \in InFlight(s)
      BY <1>4, <2>1, OnlyCloseCuts
    <3>2. seen[c] = s /\ pc[s] = "closing"
      BY <3>1 DEF Close, Moves, InFlight
    <3>3. Recorded # s
      BY <1>4, <3>2, ServeAssumption DEF Inv, Typed, Gone, Recorded
    <3> QED
      BY <1>4, <3>2, <3>3 DEF ToldInv
  <2> QED
    BY <2>1
<1> QED
  BY <1>3, <1>4, AlwaysInv, PTL DEF Spec, CutOnlySo

\* A server stops of itself only when it was calm (serve.go:455-475), and cuts
\* a request off only once it was told to stop and serve.json names it no more
\* (serve.go:178-206), for any servers, calls and requests.
THEOREM ServerStopsOnlySo == Spec => StopsOnlySo
  BY OnlyTheStoppedCut, IdleStopsOnlyTheCalm, PTL DEF StopsOnlySo
=============================================================================
