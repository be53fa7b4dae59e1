--------------------------- MODULE AppServeProofs ---------------------------
(***************************************************************************)
(* The Data Apps' live reload, their reports and a query in its page, for  *)
(* any streams, paths and values, any limits and any number of steps.  The *)
(* three share no state, and each has an invariant of its own.             *)
(***************************************************************************)
EXTENDS LiveReload, Reports, AppQuery, FiniteSetTheorems, TLAPS

-----------------------------------------------------------------------------
(* Live reload: no event is published to a channel that Close has closed,  *)
(* and the watcher goes with the last stream.  Whether a stream is closed  *)
(* is told from its being subscribed, so the invariant says where a        *)
(* subscribed and where a shut stream can be, and that live.streams counts *)
(* the streams there are.                                                  *)

Listening == {s \in Streams : stream[s] \in {"counted", "open", "leaving"}}

CountedRight == counted = Cardinality(Listening) /\ (watching => counted > 0)
ClosedRight ==
  /\ \A s \in subs : stream[s] = "open" /\ s \notin shut
  /\ \A s \in shut : stream[s] \in {"open", "leaving", "ended"}
Shape ==
  /\ stream \in [Streams -> {"idle", "counted", "open", "leaving", "ended"}]
  /\ subs \subseteq Streams /\ shut \subseteq Streams
LiveInv == Shape /\ CountedRight /\ ClosedRight /\ crashed = FALSE

LEMMA ListeningIsCounted ==
  ASSUME Shape
  PROVE  IsFiniteSet(Listening) /\ Cardinality(Listening) \in Nat
<1>1. Listening \subseteq Streams
  BY DEF Listening
<1> QED
  BY <1>1, LiveConstants, FS_Subset, FS_CardinalityType

\* What leaves the streams and the count alone keeps the count right.
LEMMA CountStays ==
  ASSUME LiveInv, UNCHANGED <<stream, counted, watching>>
  PROVE  CountedRight'
  BY DEF LiveInv, CountedRight, Listening

LEMMA ListenCounts ==
  ASSUME LiveInv, NEW s \in Streams, Listen(s)
  PROVE  CountedRight'
<1>1. Listening' = Listening \cup {s} /\ s \notin Listening
  BY DEF LiveInv, Shape, Listen, Listening
<1>2. Cardinality(Listening') = Cardinality(Listening) + 1
  BY <1>1, ListeningIsCounted, FS_AddElement DEF LiveInv
<1>3. counted' = counted + 1 /\ counted \in Nat
  BY ListeningIsCounted DEF LiveInv, CountedRight, Listen
<1> QED
  BY <1>2, <1>3 DEF LiveInv, CountedRight

\* Any of a stream's steps that neither counts it nor ends it.
LEMMA StreamGoesOn ==
  ASSUME LiveInv, NEW s \in Streams, stream[s] \in {"counted", "open"},
         NEW to \in {"open", "leaving"}, stream' = [stream EXCEPT ![s] = to], UNCHANGED <<counted, watching>>
  PROVE  CountedRight'
<1>1. Listening' = Listening
  BY DEF LiveInv, Shape, Listening
<1> QED
  BY <1>1 DEF LiveInv, CountedRight

\* The last to go finds itself alone, so no watcher is left to no stream.
LEMMA UnlistenCounts ==
  ASSUME LiveInv, NEW s \in Streams, Unlisten(s)
  PROVE  CountedRight'
<1>1. Listening' = Listening \ {s} /\ s \in Listening
  BY DEF LiveInv, Shape, Unlisten, Listening
<1>2. Cardinality(Listening') = Cardinality(Listening) - 1
  BY <1>1, ListeningIsCounted, FS_RemoveElement DEF LiveInv
<1>3. counted' = counted - 1 /\ counted \in Nat /\ counted # 0
  <2>1. Cardinality(Listening) # 0
    BY <1>1, ListeningIsCounted, FS_EmptySet DEF LiveInv
  <2> QED
    BY <2>1, ListeningIsCounted DEF LiveInv, CountedRight, Unlisten
<1>4. CASE counted = 1
  BY <1>2, <1>3, <1>4 DEF LiveInv, CountedRight, Unlisten
<1>5. CASE counted # 1
  BY <1>2, <1>3, <1>5 DEF LiveInv, CountedRight
<1> QED
  BY <1>4, <1>5

LEMMA LiveStarts == LiveInit => LiveInv
<1> SUFFICES ASSUME LiveInit PROVE LiveInv
  OBVIOUS
<1>1. Listening = {}
  BY DEF LiveInit, Listening
<1> QED
  BY <1>1, FS_EmptySet DEF LiveInit, LiveInv, Shape, CountedRight, ClosedRight

LEMMA LiveGoesOn == LiveInv /\ [LiveNext]_liveVars => LiveInv'
<1> SUFFICES ASSUME LiveInv, [LiveNext]_liveVars PROVE LiveInv'
  OBVIOUS
<1> USE DEF LiveInv, Shape, ClosedRight
<1>1. ASSUME NEW s \in Streams, Listen(s) PROVE LiveInv'
  BY <1>1, ListenCounts DEF Listen
<1>2. ASSUME NEW s \in Streams, Subscribe(s) PROVE LiveInv'
  <2>1. CountedRight'
    BY <1>2, StreamGoesOn DEF Subscribe, watcher
  <2> QED
    BY <1>2, <2>1 DEF Subscribe
<1>3. ASSUME NEW s \in Streams, Send(s) PROVE LiveInv'
  <2>1. CountedRight'
    BY <1>3, CountStays DEF Send, watcher
  <2> QED
    BY <1>3, <2>1 DEF Send
<1>4. ASSUME NEW s \in Streams, Leave(s) PROVE LiveInv'
  <2>1. CountedRight'
    BY <1>4, StreamGoesOn DEF Leave, watcher
  <2> QED
    BY <1>4, <2>1 DEF Leave
<1>5. ASSUME NEW s \in Streams, Unlisten(s) PROVE LiveInv'
  <2>1. CountedRight'
    BY <1>5, UnlistenCounts
  <2>2. s \notin subs
    BY <1>5 DEF Unlisten
  <2> QED
    BY <1>5, <2>1, <2>2 DEF Unlisten
<1>6. ASSUME NEW s \in Streams, Turn(s) PROVE LiveInv'
  <2>1. CountedRight'
    BY <1>6, CountStays DEF Turn, watcher
  <2> QED
    BY <1>6, <2>1 DEF Turn
<1>7. ASSUME NEW d \in {"root", "models"}, NEW t \in Types, Change(d, t) PROVE LiveInv'
  <2>1. CountedRight'
    BY <1>7, CountStays DEF Change, clients
  <2> QED
    BY <1>7, <2>1 DEF Change, clients
<1>8. CASE Mkdir
  <2>1. CountedRight'
    BY <1>8, CountStays DEF Mkdir, clients
  <2> QED
    BY <1>8, <2>1 DEF Mkdir, clients
<1>9. CASE Watch
  <2>1. CountedRight'
    BY <1>9, CountStays DEF Watch, clients
  <2> QED
    BY <1>9, <2>1 DEF Watch, clients
<1>10. CASE Flush
  <2>1. CountedRight'
    BY <1>10, CountStays DEF Flush, clients, watcher
  <2> QED
    BY <1>10, <2>1 DEF Flush, clients
<1>11. CASE Publish
  <2>1. CountedRight'
    BY <1>11, CountStays DEF Publish, watcher
  <2>2. subs \cap shut = {}
    OBVIOUS
  <2>3. crashed' = FALSE
    BY <1>11, <2>2 DEF Publish
  <2> QED
    BY <1>11, <2>1, <2>3 DEF Publish
<1>12. CASE Close
  <2>1. CountedRight'
    BY <1>12, CountStays DEF Close, watcher
  <2>2. subs' = {} /\ shut' = shut \cup subs
    BY <1>12 DEF Close, Forgets, Shuts
  <2> QED
    BY <1>12, <2>1, <2>2 DEF Close
<1>13. CASE UNCHANGED liveVars
  <2>1. CountedRight'
    BY <1>13, CountStays DEF liveVars, clients, watcher
  <2> QED
    BY <1>13, <2>1 DEF liveVars, clients
<1> QED
  BY <1>1, <1>2, <1>3, <1>4, <1>5, <1>6, <1>7, <1>8, <1>9, <1>10, <1>11, <1>12, <1>13 DEF LiveNext

-----------------------------------------------------------------------------
\* No event is published to a stream whose channel Close has closed, and no
\* watcher outlives the last stream (events.go, watch.go).
THEOREM LiveReloadIsSafe == LiveSpec => []NeverSendsOnClosed
<1>1. LiveInv => NeverSendsOnClosed
  BY DEF LiveInv, CountedRight, NeverSendsOnClosed
<1> QED
  BY <1>1, LiveStarts, LiveGoesOn, PTL DEF LiveSpec

-----------------------------------------------------------------------------
(* Reports: a path's windows are a minute apart or more, so that those     *)
(* logged in a minute are of at most two; the nth of a window is logged    *)
(* once, and the first at its start, so that two full windows never fit.   *)
(* A window that dropped is its path's own, and has its timer to run.      *)

Windows == [path : Paths, start : Nat, count : 1 .. PerMinute, dropped : Nat, timed : BOOLEAN]
\* A window before its first report is counted.
Loose == [path : Paths, start : Nat, count : 0 .. PerMinute, dropped : Nat, timed : BOOLEAN]
Entries == [window : Nat, nth : 1 .. PerMinute, at : Nat]

ReportsShape ==
  /\ clock \in Nat /\ lastSweep \in Nat
  /\ wins \in Seq(Windows) /\ current \in [Paths -> Nat] /\ timers \subseteq DOMAIN wins
  /\ logged \in [Paths -> SUBSET Entries]
  /\ over \in [Paths -> Nat] /\ told \in [Paths -> Nat]

CurrentIsOwn ==
  \A p \in Paths : current[p] # 0 => current[p] \in DOMAIN wins /\ wins[current[p]].path = p

\* A window that is no path's any more is over, and what it dropped was told.
OthersAreOver ==
  \A w \in DOMAIN wins : current[wins[w].path] = w \/ (Expired(w) /\ wins[w].dropped = 0)

WindowsApart ==
  /\ \A w \in DOMAIN wins : wins[w].start <= clock
  /\ \A v, w \in DOMAIN wins : v < w /\ wins[v].path = wins[w].path => wins[w].start >= wins[v].start + Minute

\* A path's own window that dropped a report has its timer to run.
DropsAreTimed ==
  \A w \in DOMAIN wins :
    /\ wins[w].dropped > 0 => wins[w].timed
    /\ current[wins[w].path] = w /\ wins[w].timed => w \in timers

Untold(p) == IF current[p] = 0 THEN 0 ELSE wins[current[p]].dropped
DropsAreCounted == \A p \in Paths : over[p] = told[p] + Untold(p)

\* A report logged is in its window's minute, its first one at the window's start.
InItsWindow(p, r) ==
  /\ r.window \in DOMAIN wins /\ wins[r.window].path = p /\ r.nth <= wins[r.window].count
  /\ wins[r.window].start <= r.at /\ r.at < wins[r.window].start + Minute
  /\ r.at <= clock /\ clock - r.at < Minute
  /\ r.nth = 1 => r.at = wins[r.window].start
LoggedInWindows ==
  \A p \in Paths :
    /\ \A r \in logged[p] : InItsWindow(p, r)
    /\ \A r, q \in logged[p] : r.window = q.window /\ r.nth = q.nth => r = q

ReportsInv ==
  /\ ReportsShape /\ CurrentIsOwn /\ OthersAreOver /\ WindowsApart
  /\ DropsAreTimed /\ DropsAreCounted /\ LoggedInWindows

-----------------------------------------------------------------------------
LEMMA WindowCounts ==
  ASSUME NEW x \in Loose, NEW n \in 1 .. PerMinute
  PROVE  [x EXCEPT !.count = n] \in Windows
BY DEF Loose, Windows

LEMMA WindowDrops ==
  ASSUME NEW x \in Windows, NEW n \in Nat
  PROVE  [x EXCEPT !.dropped = n, !.timed = TRUE] \in Windows
BY DEF Windows

LEMMA FunctionIsSeq ==
  ASSUME NEW S, NEW n \in Nat, NEW f \in [1 .. n -> S]
  PROVE  f \in Seq(S) /\ Len(f) = n
OBVIOUS

\* What a report or the sweep forgets is over.
LEMMA SettledAreOver ==
  ASSUME ReportsInv, NEW p \in Paths
  PROVE  /\ Settled(p) \subseteq {current[q] : q \in Paths} \ {0}
         /\ \A w \in Settled(p) : Expired(w) /\ w \in DOMAIN wins
         /\ current[p] # 0 /\ current[p] \notin Settled(p) => ~Expired(current[p])
<1>1. current[p] # 0 /\ current[p] \notin Settled(p) => ~Expired(current[p])
  BY DEF Settled
<1>2. \A w \in Settled(p) : w \in {current[q] : q \in Paths} \ {0} /\ Expired(w)
  BY DEF Settled
<1>3. \A w \in Settled(p) : w \in DOMAIN wins
  BY <1>2 DEF ReportsInv, CurrentIsOwn
<1> QED
  BY <1>1, <1>2, <1>3

\* What is told of a set of the paths' own windows.
LEMMA OwnDrops ==
  ASSUME ReportsInv, NEW gone, gone \subseteq {current[q] : q \in Paths} \ {0}, NEW p \in Paths
  PROVE  DropsOf(gone, p) = IF current[p] \in gone THEN wins[current[p]].dropped ELSE 0
<1>1. \A w \in gone : wins[w].path = p => w = current[p]
  BY DEF ReportsInv, CurrentIsOwn
<1>2. CASE current[p] \in gone
  <2>1. wins[current[p]].path = p
    BY <1>2 DEF ReportsInv, CurrentIsOwn
  <2>2. {w \in gone : wins[w].path = p} = {current[p]}
    BY <1>1, <1>2, <2>1
  <2> QED
    BY <1>2, <2>2 DEF DropsOf
<1>3. CASE current[p] \notin gone
  <2>1. {w \in gone : wins[w].path = p} = {}
    BY <1>1, <1>3
  <2> QED
    BY <1>3, <2>1 DEF DropsOf
<1> QED
  BY <1>2, <1>3

\* The windows after gone are told of.
LEMMA AfterIs ==
  ASSUME ReportsInv, NEW gone
  PROVE  /\ After(gone) \in Seq(Windows) /\ Len(After(gone)) = Len(wins) /\ DOMAIN After(gone) = DOMAIN wins
         /\ \A v \in DOMAIN wins :
              After(gone)[v] = [wins[v] EXCEPT !.dropped = IF v \in gone THEN 0 ELSE @]
<1>1. wins \in Seq(Windows) /\ DOMAIN wins = 1 .. Len(wins) /\ Len(wins) \in Nat
  BY DEF ReportsInv, ReportsShape
<1>2. \A v \in DOMAIN wins : wins[v] \in Windows
  BY <1>1
<1>3. \A v \in DOMAIN wins : After(gone)[v] = IF v \in gone THEN [wins[v] EXCEPT !.dropped = 0] ELSE wins[v]
  BY DEF After, Reset
<1>4. \A v \in DOMAIN wins : After(gone)[v] \in Windows
  <2> SUFFICES ASSUME NEW v \in DOMAIN wins PROVE After(gone)[v] \in Windows
    OBVIOUS
  <2>1. wins[v] \in Windows /\ 0 \in Nat
    BY <1>2
  <2>2. [wins[v] EXCEPT !.dropped = 0] \in Windows
    BY <2>1 DEF Windows
  <2> QED
    BY <2>1, <2>2, <1>3
<1>5. After(gone) \in [1 .. Len(wins) -> Windows]
  BY <1>1, <1>4 DEF After
<1>6. \A v \in DOMAIN wins : After(gone)[v] = [wins[v] EXCEPT !.dropped = IF v \in gone THEN 0 ELSE @]
  BY <1>2, <1>3 DEF Windows
<1> QED
  BY <1>1, <1>5, <1>6, FunctionIsSeq

-----------------------------------------------------------------------------
\* The window a report of p goes to, and what it is before the report.
Fresh(p) == current[p] = 0 \/ current[p] \in Settled(p)
Its(p) == IF Fresh(p) THEN Len(wins) + 1 ELSE current[p]
NewWindow(p) == [path |-> p, start |-> clock, count |-> 0, dropped |-> 0, timed |-> FALSE]
Before(p) == IF Fresh(p) THEN NewWindow(p) ELSE wins[current[p]]
IsFull(p) == Before(p).count >= PerMinute

\* Which windows there are after it, and what of each window changed.
WhichWindows(p) ==
  /\ wins' \in Seq(Windows) /\ DOMAIN wins' = DOMAIN wins \cup {Its(p)} /\ Its(p) \in Nat \ {0}
  /\ Fresh(p) => Its(p) \notin DOMAIN wins /\ Before(p) = NewWindow(p) /\ ~IsFull(p) /\ \A v \in DOMAIN wins : v < Its(p)
  /\ ~Fresh(p) => /\ Its(p) \in DOMAIN wins /\ wins[Its(p)].path = p /\ Its(p) = current[p] /\ Before(p) = wins[Its(p)]
                  /\ ~Expired(Its(p)) /\ Its(p) \notin Settled(p)
OtherWindows(p) ==
  \A v \in DOMAIN wins : v # Its(p) =>
    /\ wins'[v].path = wins[v].path /\ wins'[v].start = wins[v].start
    /\ wins'[v].count = wins[v].count /\ wins'[v].timed = wins[v].timed
    /\ wins'[v].dropped = IF v \in Settled(p) THEN 0 ELSE wins[v].dropped
ItsWindow(p) ==
  /\ wins'[Its(p)].path = p /\ wins'[Its(p)].start = Before(p).start
  /\ wins'[Its(p)].dropped = (IF IsFull(p) THEN Before(p).dropped + 1 ELSE Before(p).dropped)
  /\ wins'[Its(p)].count = (IF IsFull(p) THEN Before(p).count ELSE Before(p).count + 1)
  /\ wins'[Its(p)].timed = (IF IsFull(p) THEN TRUE ELSE Before(p).timed)
  /\ Before(p).count \in Nat
Aside(p) ==
  /\ current' = [q \in Paths |-> IF q = p THEN Its(p) ELSE IF current[q] \in Settled(p) THEN 0 ELSE current[q]]
  /\ timers' = (IF IsFull(p) /\ ~Before(p).timed THEN timers \cup {Its(p)} ELSE timers)
  /\ over' = (IF IsFull(p) THEN [over EXCEPT ![p] = @ + 1] ELSE over)
  /\ logged' = (IF IsFull(p) THEN logged
                ELSE [logged EXCEPT ![p] = @ \cup {[window |-> Its(p), nth |-> Before(p).count + 1, at |-> clock]}])
  /\ told' = [q \in Paths |-> told[q] + DropsOf(Settled(p), q)]
  /\ clock' = clock /\ lastSweep' \in Nat

LEMMA AllowIs ==
  ASSUME ReportsInv, NEW p \in Paths, Allow(p)
  PROVE  WhichWindows(p) /\ OtherWindows(p) /\ ItsWindow(p) /\ Aside(p)
<1> DEFINE gone == Settled(p)
<1> DEFINE w == Its(p)
<1> DEFINE then == IF Fresh(p) THEN Append(After(gone), NewWindow(p)) ELSE After(gone)
<1> DEFINE full == then[w].count >= PerMinute
<1>1. /\ current' = [q \in Paths |-> IF q = p THEN w ELSE IF current[q] \in gone THEN 0 ELSE current[q]]
      /\ wins' = IF full THEN [then EXCEPT ![w].dropped = @ + 1, ![w].timed = TRUE] ELSE [then EXCEPT ![w].count = @ + 1]
      /\ timers' = IF full /\ ~then[w].timed THEN timers \cup {w} ELSE timers
      /\ over' = IF full THEN [over EXCEPT ![p] = @ + 1] ELSE over
      /\ logged' = IF full THEN logged ELSE [logged EXCEPT ![p] = @ \cup {[window |-> w, nth |-> then[w].count + 1, at |-> clock]}]
      /\ told' = [q \in Paths |-> told[q] + DropsOf(gone, q)] /\ clock' = clock
      /\ lastSweep' = IF clock - lastSweep >= Minute THEN clock ELSE lastSweep
  BY DEF Allow, Fresh, Its, NewWindow, Full, Timer, Tell
<1>2. /\ wins \in Seq(Windows) /\ Len(wins) \in Nat /\ DOMAIN wins = 1 .. Len(wins) /\ clock \in Nat /\ lastSweep \in Nat
      /\ PerMinute \in Nat \ {0}
  BY ReportsConstants DEF ReportsInv, ReportsShape
<1>3. ~Fresh(p) => /\ w = current[p] /\ w \in DOMAIN wins /\ wins[w].path = p /\ ~Expired(w) /\ w \notin gone /\ w # 0
  BY SettledAreOver DEF ReportsInv, CurrentIsOwn, Fresh, Its
<1>4. Fresh(p) => w = Len(wins) + 1 /\ w # 0 /\ w \notin DOMAIN wins
  BY <1>2 DEF Its
<1>5. /\ After(gone) \in Seq(Windows) /\ Len(After(gone)) = Len(wins) /\ DOMAIN After(gone) = DOMAIN wins
      /\ \A v \in DOMAIN wins : After(gone)[v] = [wins[v] EXCEPT !.dropped = IF v \in gone THEN 0 ELSE @]
  BY AfterIs
<1>6. NewWindow(p) \in Loose
  BY <1>2 DEF NewWindow, Loose
<1>7. Windows \subseteq Loose
  BY <1>2 DEF Windows, Loose
<1>8. After(gone) \in Seq(Loose)
  <2>1. \A v \in DOMAIN wins : After(gone)[v] \in Windows
    BY <1>5
  <2>2. After(gone) \in [1 .. Len(wins) -> Loose]
    <3> QED
      BY <2>1, <1>2, <1>5, <1>7
  <2> QED
    BY <2>2, <1>2, FunctionIsSeq
<1>9. /\ then \in Seq(Loose) /\ DOMAIN then = DOMAIN wins \cup {w} /\ DOMAIN then = 1 .. Len(then) /\ Len(then) \in Nat
      /\ then[w] = Before(p) /\ \A v \in DOMAIN wins : v # w => then[v] = After(gone)[v]
  <2>1. CASE Fresh(p)
    <3>1. then = Append(After(gone), NewWindow(p))
      BY <2>1
    <3>2. Before(p) = NewWindow(p)
      BY <2>1 DEF Before
    <3> QED
      BY <2>1, <3>1, <3>2, <1>2, <1>4, <1>5, <1>6, <1>8
  <2>2. CASE ~Fresh(p)
    <3>1. then = After(gone)
      BY <2>2
    <3>2. Before(p) = wins[w] /\ w \in DOMAIN wins /\ w \notin gone
      BY <2>2, <1>3 DEF Before
    <3>3. After(gone)[w] = wins[w]
      <4>1. wins[w] \in Windows
        BY <3>2, <1>2
      <4> QED
        BY <4>1, <3>2, <1>5 DEF Windows
    <3> QED
      BY <3>1, <3>2, <3>3, <1>2, <1>5, <1>8
  <2> QED
    BY <2>1, <2>2
<1>10. full <=> IsFull(p)
  BY <1>9 DEF IsFull
<1>11. \A v \in DOMAIN then : then[v] \in Loose
  <2> HIDE DEF then
  <2> QED BY <1>9
<1>12. IsFull(p) => ~Fresh(p)
  BY <1>2 DEF IsFull, Before, NewWindow
<1>13. \A v \in DOMAIN wins : v # w => then[v] \in Windows
  <2>1. \A v \in DOMAIN wins : After(gone)[v] \in Windows
    BY <1>5
  <2> QED
    BY <2>1, <1>9
<1>14. wins' = [v \in 1 .. Len(then) |-> IF v = w THEN IF full THEN [then[w] EXCEPT !.dropped = @ + 1, !.timed = TRUE] ELSE [then[w] EXCEPT !.count = @ + 1] ELSE then[v]]
  <2> HIDE DEF then
  <2> QED
    BY <1>1, <1>9
<1>15. \A v \in 1 .. Len(then) : wins'[v] \in Windows
  <2> SUFFICES ASSUME NEW v \in 1 .. Len(then) PROVE wins'[v] \in Windows
    OBVIOUS
  <2>1. CASE v # w
    <3> HIDE DEF then
    <3> QED
      BY <2>1, <1>14, <1>9, <1>13
  <2>2. CASE v = w
    <3>1. then[w] \in Loose /\ (full => then[w] \in Windows)
      <4>1. full => wins[w] \in Windows /\ then[w] = wins[w]
        <5>1. IsFull(p) => Before(p) = wins[w] /\ w \in DOMAIN wins
          BY <1>3, <1>12 DEF Before
        <5>2. w \in DOMAIN wins => wins[w] \in Windows
          BY <1>2
        <5> HIDE DEF then, full
        <5> QED
          BY <5>1, <5>2, <1>9, <1>10
      <4> HIDE DEF then
      <4> QED
        BY <4>1, <1>9, <1>11
    <3>2. wins'[v] = IF full THEN [then[w] EXCEPT !.dropped = @ + 1, !.timed = TRUE] ELSE [then[w] EXCEPT !.count = @ + 1]
      <4> HIDE DEF then
      <4> QED
        BY <2>2, <1>14
    <3>3. ASSUME full PROVE wins'[v] \in Windows
      <4>1. then[w] \in Windows /\ wins'[v] = [then[w] EXCEPT !.dropped = then[w].dropped + 1, !.timed = TRUE]
        <5> HIDE DEF then
        <5> QED
          BY <3>1, <3>2, <3>3
      <4> HIDE DEF then
      <4> QED
        <5>1. then[w].dropped + 1 \in Nat
          BY <4>1 DEF Windows
        <5> QED
          BY <4>1, <5>1, WindowDrops
    <3>4. ASSUME ~full PROVE wins'[v] \in Windows
      <4>1. then[w] \in Loose /\ wins'[v] = [then[w] EXCEPT !.count = then[w].count + 1] /\ then[w].count < PerMinute /\ then[w].count \in Nat
        <5>1. then[w].count \in Nat
          <6> HIDE DEF then
          <6> QED
            BY <3>1, <1>2 DEF Loose
        <5> HIDE DEF then
        <5> QED
          BY <5>1, <3>1, <3>2, <3>4, <1>2
      <4>2. then[w].count + 1 \in 1 .. PerMinute
        <5> HIDE DEF then
        <5> QED
          BY <4>1, <1>2
      <4> HIDE DEF then
      <4> QED
        BY <4>1, <4>2, WindowCounts
    <3> HIDE DEF then, full
    <3> QED
      BY <3>3, <3>4
  <2> QED
    BY <2>1, <2>2
<1>16. wins' \in Seq(Windows) /\ DOMAIN wins' = DOMAIN wins \cup {w}
  <2>1. wins' \in [1 .. Len(then) -> Windows]
    <3> HIDE DEF then, full
    <3> QED
      BY <1>14, <1>15
  <2> HIDE DEF then
  <2> QED
    BY <2>1, <1>9, FunctionIsSeq
<1>17. wins'[w] = IF IsFull(p) THEN [Before(p) EXCEPT !.dropped = @ + 1, !.timed = TRUE]
                            ELSE [Before(p) EXCEPT !.count = @ + 1]
  <2> HIDE DEF then
  <2> QED
    BY <1>14, <1>9, <1>10
<1>18. \A v \in DOMAIN wins : v # w => wins'[v] = [wins[v] EXCEPT !.dropped = IF v \in gone THEN 0 ELSE @]
  <2> HIDE DEF then
  <2> QED
    BY <1>14, <1>9, <1>5
<1>19. lastSweep' \in Nat
  BY <1>1, <1>2
<1>20. Fresh(p) => \A v \in DOMAIN wins : v < w
  BY <1>2, <1>4
<1> HIDE DEF then, full
<1>21. /\ timers' = IF IsFull(p) /\ ~Before(p).timed THEN timers \cup {w} ELSE timers
       /\ over' = IF IsFull(p) THEN [over EXCEPT ![p] = @ + 1] ELSE over
       /\ logged' = IF IsFull(p) THEN logged
                      ELSE [logged EXCEPT ![p] = @ \cup {[window |-> w, nth |-> Before(p).count + 1, at |-> clock]}]
  BY <1>1, <1>9, <1>10
<1>22. WhichWindows(p)
  <2>1. ~Fresh(p) => Before(p) = wins[w]
    BY <1>3 DEF Before
  <2>2. Fresh(p) => Before(p) = NewWindow(p)
    BY DEF Before
  <2>3. w \in Nat \ {0}
    BY <1>2, <1>3, <1>4
  <2> QED
    BY <2>1, <2>2, <2>3, <1>3, <1>4, <1>12, <1>16, <1>20 DEF WhichWindows
<1>23. OtherWindows(p)
  <2> SUFFICES ASSUME NEW v \in DOMAIN wins, v # w
               PROVE  /\ wins'[v].path = wins[v].path /\ wins'[v].start = wins[v].start
                      /\ wins'[v].count = wins[v].count /\ wins'[v].timed = wins[v].timed
                      /\ wins'[v].dropped = IF v \in gone THEN 0 ELSE wins[v].dropped
    BY DEF OtherWindows
  <2>1. wins[v] \in Windows /\ wins'[v] = [wins[v] EXCEPT !.dropped = IF v \in gone THEN 0 ELSE @]
    <3>1. wins[v] \in Windows
      BY <1>2
    <3> QED
      BY <3>1, <1>18
  <2> QED
    BY <2>1 DEF Windows
<1>24. ItsWindow(p)
  <2>1. Before(p) \in Loose
    <3> QED
      BY <1>9, <1>11
  <2>2. Before(p).path = p
    BY <1>3 DEF Before, NewWindow
  <2>3. wins'[w] = IF IsFull(p) THEN [Before(p) EXCEPT !.dropped = Before(p).dropped + 1, !.timed = TRUE]
                            ELSE [Before(p) EXCEPT !.count = Before(p).count + 1]
    BY <1>17
  <2>4. CASE IsFull(p)
    <3>1. wins'[w] = [Before(p) EXCEPT !.dropped = Before(p).dropped + 1, !.timed = TRUE]
      BY <2>3, <2>4
    <3>2. /\ wins'[w].path = p /\ wins'[w].start = Before(p).start /\ wins'[w].dropped = Before(p).dropped + 1
          /\ wins'[w].count = Before(p).count /\ wins'[w].timed = TRUE /\ Before(p).count \in Nat
      BY <3>1, <2>1, <2>2, <1>2 DEF Loose
    <3> QED
      BY <2>4, <3>2 DEF ItsWindow
  <2>5. CASE ~IsFull(p)
    <3>1. wins'[w] = [Before(p) EXCEPT !.count = Before(p).count + 1]
      BY <2>3, <2>5
    <3>2. /\ wins'[w].path = p /\ wins'[w].start = Before(p).start /\ wins'[w].dropped = Before(p).dropped
          /\ wins'[w].count = Before(p).count + 1 /\ wins'[w].timed = Before(p).timed /\ Before(p).count \in Nat
          /\ Before(p).timed \in BOOLEAN
      BY <3>1, <2>1, <2>2, <1>2 DEF Loose
    <3> QED
      BY <2>5, <3>2 DEF ItsWindow
  <2> QED
    BY <2>4, <2>5
<1> QED
  BY <1>1, <1>19, <1>21, <1>22, <1>23, <1>24 DEF Aside

-----------------------------------------------------------------------------
\* Of a path's own window and the others, after a report of p.
LEMMA AllowKeepsShape ==
  ASSUME ReportsInv, NEW p \in Paths, Allow(p)
  PROVE  ReportsShape' /\ CurrentIsOwn'
<1>0. WhichWindows(p) /\ OtherWindows(p) /\ ItsWindow(p) /\ Aside(p)
  BY AllowIs
<1> DEFINE w == Its(p)
<1>1. /\ wins' \in Seq(Windows) /\ DOMAIN wins' = DOMAIN wins \cup {w} /\ w # 0
      /\ current' = [q \in Paths |-> IF q = p THEN w ELSE IF current[q] \in Settled(p) THEN 0 ELSE current[q]]
      /\ timers' \subseteq timers \cup {w} /\ clock' = clock /\ lastSweep' \in Nat
      /\ over' \in {over, [over EXCEPT ![p] = @ + 1]}
      /\ told' = [q \in Paths |-> told[q] + DropsOf(Settled(p), q)]
  BY <1>0 DEF WhichWindows, OtherWindows, ItsWindow, Aside
<1>2. /\ clock \in Nat /\ current \in [Paths -> Nat] /\ timers \subseteq DOMAIN wins /\ wins \in Seq(Windows)
      /\ over \in [Paths -> Nat] /\ told \in [Paths -> Nat] /\ logged \in [Paths -> SUBSET Entries]
  BY DEF ReportsInv, ReportsShape
<1>3. w \in Nat
  BY <1>0 DEF WhichWindows
<1>4. over' \in [Paths -> Nat]
  <2>1. over[p] + 1 \in Nat
    BY <1>2
  <2> QED
    BY <2>1, <1>1, <1>2
<1>5. told' \in [Paths -> Nat]
  <2>1. \A q \in Paths : DropsOf(Settled(p), q) \in Nat
    <3> SUFFICES ASSUME NEW q \in Paths PROVE DropsOf(Settled(p), q) \in Nat
      OBVIOUS
    <3>1. DropsOf(Settled(p), q) = IF current[q] \in Settled(p) THEN wins[current[q]].dropped ELSE 0
      BY OwnDrops, SettledAreOver
    <3>2. current[q] \in Settled(p) => wins[current[q]] \in Windows
      BY SettledAreOver, <1>2
    <3> QED
      BY <3>1, <3>2 DEF Windows
  <2> QED
    BY <2>1, <1>1, <1>2
<1>6. logged' \in [Paths -> SUBSET Entries]
  <2>1. CASE IsFull(p)
    BY <2>1, <1>2, <1>0 DEF WhichWindows, OtherWindows, ItsWindow, Aside
  <2>2. CASE ~IsFull(p)
    <3>2. Before(p).count + 1 \in 1 .. PerMinute
      BY <2>2, <1>0, ReportsConstants DEF IsFull, ItsWindow
    <3>3. [window |-> w, nth |-> Before(p).count + 1, at |-> clock] \in Entries
      BY <3>2, <1>2, <1>3 DEF Entries
    <3>4. logged' = [logged EXCEPT ![p] = @ \cup {[window |-> w, nth |-> Before(p).count + 1, at |-> clock]}]
      BY <2>2, <1>0 DEF WhichWindows, OtherWindows, ItsWindow, Aside
    <3> QED
      BY <3>3, <3>4, <1>2
  <2> QED
    BY <2>1, <2>2
<1>7. ReportsShape'
  BY <1>1, <1>2, <1>3, <1>4, <1>5, <1>6 DEF ReportsShape
<1>8. \A v \in DOMAIN wins : wins'[v].path = wins[v].path
  <2>1. \A v \in DOMAIN wins : v # w => wins'[v].path = wins[v].path
    BY <1>0 DEF OtherWindows
  <2>2. w \in DOMAIN wins => wins'[w].path = wins[w].path
    BY <1>0 DEF WhichWindows, ItsWindow
  <2> QED
    BY <2>1, <2>2
<1>9. wins'[w].path = p
  BY <1>0 DEF ItsWindow
<1>10. CurrentIsOwn'
  BY <1>1, <1>2, <1>8, <1>9 DEF ReportsInv, CurrentIsOwn
<1> QED
  BY <1>7, <1>10

LEMMA AllowKeepsWindows ==
  ASSUME ReportsInv, NEW p \in Paths, Allow(p)
  PROVE  OthersAreOver' /\ WindowsApart' /\ DropsAreTimed' /\ DropsAreCounted'
<1>0. WhichWindows(p) /\ OtherWindows(p) /\ ItsWindow(p) /\ Aside(p)
  BY AllowIs
<1> DEFINE w == Its(p)
<1> DEFINE gone == Settled(p)
<1>1. /\ wins \in Seq(Windows) /\ clock \in Nat /\ current \in [Paths -> Nat] /\ Minute \in Nat \ {0}
      /\ over \in [Paths -> Nat] /\ told \in [Paths -> Nat] /\ \A v \in DOMAIN wins : wins[v] \in Windows /\ v \in Nat
  BY ReportsConstants DEF ReportsInv, ReportsShape
<1>2. /\ DOMAIN wins' = DOMAIN wins \cup {w} /\ w # 0 /\ clock' = clock
      /\ current' = [q \in Paths |-> IF q = p THEN w ELSE IF current[q] \in gone THEN 0 ELSE current[q]]
  BY <1>0 DEF WhichWindows, OtherWindows, ItsWindow, Aside
<1>3. /\ gone \subseteq {current[q] : q \in Paths} \ {0}
      /\ \A v \in gone : Expired(v) /\ v \in DOMAIN wins
  BY SettledAreOver
<1>4. \A v \in DOMAIN wins : v # w =>
        /\ wins'[v].path = wins[v].path /\ wins'[v].start = wins[v].start /\ wins'[v].timed = wins[v].timed
        /\ wins'[v].dropped = IF v \in gone THEN 0 ELSE wins[v].dropped
  BY <1>1, <1>0 DEF OtherWindows
<1>5. /\ wins'[w].path = p /\ wins'[w].start = Before(p).start
      /\ wins'[w].dropped = IF IsFull(p) THEN Before(p).dropped + 1 ELSE Before(p).dropped
      /\ wins'[w].timed = (IF IsFull(p) THEN TRUE ELSE Before(p).timed)
  BY <1>0 DEF ItsWindow
<1>6. ~Fresh(p) => w \in DOMAIN wins /\ w = current[p] /\ wins[w].path = p /\ Before(p) = wins[w] /\ ~Expired(w) /\ w \notin gone
  BY <1>0 DEF WhichWindows
<1>7. Fresh(p) => w \notin DOMAIN wins /\ Before(p) = NewWindow(p) /\ ~IsFull(p) /\ \A v \in DOMAIN wins : v < w
  BY <1>0 DEF WhichWindows
\* A window of p that is not the one its report goes to is over.
<1>8. \A v \in DOMAIN wins : v # w /\ wins[v].path = p => Expired(v) /\ (v \in gone \/ wins[v].dropped = 0) /\ (v \in gone => v = current[p])
  <2> SUFFICES ASSUME NEW v \in DOMAIN wins, v # w, wins[v].path = p
               PROVE  Expired(v) /\ (v \in gone \/ wins[v].dropped = 0) /\ (v \in gone => v = current[p])
    OBVIOUS
  <2>1. current[p] = v \/ (Expired(v) /\ wins[v].dropped = 0)
    BY DEF ReportsInv, OthersAreOver
  <2>2. current[p] = v => v \in gone
    BY <1>1, <1>6 DEF Fresh
  <2>3. v \in gone => v = current[p]
    BY <1>3 DEF ReportsInv, CurrentIsOwn
  <2> QED
    BY <2>1, <2>2, <2>3, <1>3
<1>9. OthersAreOver'
  <2> SUFFICES ASSUME NEW v \in DOMAIN wins'
               PROVE  current'[wins'[v].path] = v \/ (Expired(v)' /\ wins'[v].dropped = 0)
    BY DEF OthersAreOver
  <2>1. CASE v = w
    BY <2>1, <1>2, <1>5
  <2>2. CASE v # w /\ wins[v].path = p
    BY <2>2, <1>2, <1>4, <1>8 DEF Expired
  <2>3. CASE v # w /\ wins[v].path # p
    <3>1. v \in DOMAIN wins /\ wins'[v].path = wins[v].path /\ wins[v].path \in Paths
      BY <2>3, <1>1, <1>2, <1>4 DEF Windows
    <3>2. current[wins[v].path] = v \/ (Expired(v) /\ wins[v].dropped = 0)
      BY <3>1 DEF ReportsInv, OthersAreOver
    <3> QED
      BY <2>3, <3>1, <3>2, <1>2, <1>3, <1>4 DEF Expired
  <2> QED
    BY <2>1, <2>2, <2>3
<1>10. WindowsApart'
  <2>1. \A v \in DOMAIN wins : wins'[v].start = wins[v].start /\ wins'[v].path = wins[v].path
    BY <1>4, <1>5, <1>6, <1>7
  <2>2. \A v \in DOMAIN wins : wins[v].start <= clock
    BY DEF ReportsInv, WindowsApart
  <2>3. wins'[w].start <= clock
    <3>1. CASE Fresh(p)
      BY <3>1, <1>1, <1>5, <1>7 DEF NewWindow
    <3>2. CASE ~Fresh(p)
      BY <3>2, <1>5, <1>6, <2>2
    <3> QED
      BY <3>1, <3>2
  <2>4. ASSUME NEW u \in DOMAIN wins', NEW v \in DOMAIN wins', u < v, wins'[u].path = wins'[v].path
        PROVE  wins'[v].start >= wins'[u].start + Minute
    <3>1. CASE u \in DOMAIN wins /\ v \in DOMAIN wins
      BY <3>1, <2>1, <2>4 DEF ReportsInv, WindowsApart
    <3>2. CASE v \notin DOMAIN wins
      <4>1. v = w /\ Fresh(p) /\ u \in DOMAIN wins /\ u # w /\ wins[u].path = p
        <5>1. v = w /\ Fresh(p)
          BY <3>2, <1>2, <1>6
        <5>2. u # w
          BY <5>1, <2>4, <1>0 DEF WhichWindows
        <5>3. u \in DOMAIN wins
          BY <5>2, <1>2
        <5> QED
          BY <5>1, <5>2, <5>3, <2>1, <2>4, <1>5
      <4>2. wins'[v].start = clock /\ Expired(u)
        BY <4>1, <1>5, <1>7, <1>8 DEF NewWindow
      <4> QED
        <5>1. wins[u].start \in Nat /\ wins'[u].start = wins[u].start
          BY <4>1, <2>1, <1>1 DEF Windows
        <5> QED
          BY <4>2, <5>1, <1>1 DEF Expired
    <3>3. CASE u \notin DOMAIN wins
      <4>1. u = w /\ Fresh(p) /\ v \in DOMAIN wins
        <5>1. u = w /\ Fresh(p)
          BY <3>3, <1>2, <1>6
        <5>2. v # w
          BY <5>1, <2>4, <1>0 DEF WhichWindows
        <5> QED
          BY <5>1, <5>2, <1>2
      <4>2. v < w /\ v \in Nat /\ w \in Nat
        BY <4>1, <1>1, <1>0 DEF WhichWindows
      <4> QED
        BY <4>1, <4>2, <2>4
    <3> QED
      BY <3>1, <3>2, <3>3
  <2> QED
    BY <2>1, <2>2, <2>3, <2>4, <1>2 DEF WindowsApart
<1>11. DropsAreTimed'
  <2> SUFFICES ASSUME NEW v \in DOMAIN wins'
               PROVE  /\ wins'[v].dropped > 0 => wins'[v].timed
                      /\ current'[wins'[v].path] = v /\ wins'[v].timed => v \in timers'
    BY DEF DropsAreTimed
  <2>1. CASE v = w
    <3>1. ~Fresh(p) => (wins[w].dropped > 0 => wins[w].timed) /\ (wins[w].timed => w \in timers)
      BY <1>6 DEF ReportsInv, DropsAreTimed
    <3>2. timers' = IF IsFull(p) /\ ~Before(p).timed THEN timers \cup {w} ELSE timers
      BY <1>0 DEF WhichWindows, OtherWindows, ItsWindow, Aside
    <3>3. CASE Fresh(p)
      BY <2>1, <3>3, <1>5, <1>7 DEF NewWindow
    <3>4. CASE ~Fresh(p)
      BY <2>1, <3>1, <3>2, <3>4, <1>5, <1>6
    <3> QED
      BY <3>3, <3>4
  <2>2. CASE v # w
    <3>1. v \in DOMAIN wins /\ wins[v].path \in Paths /\ timers \subseteq timers'
      BY <2>2, <1>1, <1>2, <1>0 DEF Windows, Aside
    <3>2. (wins[v].dropped > 0 => wins[v].timed) /\ (current[wins[v].path] = v /\ wins[v].timed => v \in timers)
      BY <3>1 DEF ReportsInv, DropsAreTimed
    <3>3. current'[wins[v].path] = v => current[wins[v].path] = v
      BY <2>2, <3>1, <1>1, <1>2
    <3> QED
      BY <2>2, <3>1, <3>2, <3>3, <1>4
  <2> QED
    BY <2>1, <2>2
<1>12. DropsAreCounted'
  <2> SUFFICES ASSUME NEW q \in Paths PROVE over'[q] = told'[q] + Untold(q)'
    BY DEF DropsAreCounted
  <2>1. DropsOf(gone, q) = IF current[q] \in gone THEN wins[current[q]].dropped ELSE 0
    BY <1>3, OwnDrops
  <2>2. over[q] = told[q] + Untold(q) /\ over[q] \in Nat /\ told[q] \in Nat
    BY <1>1 DEF ReportsInv, DropsAreCounted
  <2>3. told'[q] = told[q] + DropsOf(gone, q)
    BY <1>0 DEF WhichWindows, OtherWindows, ItsWindow, Aside
  <2>4. current[q] # 0 => current[q] \in DOMAIN wins /\ wins[current[q]].dropped \in Nat /\ wins[current[q]].path = q
    BY <1>1 DEF ReportsInv, CurrentIsOwn, Windows
  <2>5. 0 \notin gone
    BY <1>3
  <2>6. CASE q = p
    <3>1. Untold(p)' = wins'[w].dropped /\ over'[p] = IF IsFull(p) THEN over[p] + 1 ELSE over[p]
      BY <1>1, <1>2, <1>0 DEF Aside, Untold
    <3>2. CASE Fresh(p)
      <4>1. Untold(p)' = 0 /\ over'[p] = over[p]
        BY <3>1, <3>2, <1>5, <1>7 DEF NewWindow
      <4>2. Untold(p) = DropsOf(gone, p)
        BY <2>6, <2>1, <2>5, <3>2 DEF Fresh, Untold
      <4> QED
        BY <2>6, <4>1, <4>2, <2>2, <2>3
    <3>3. CASE ~Fresh(p)
      <4>1. current[p] \notin gone /\ Untold(p) = wins[w].dropped /\ DropsOf(gone, p) = 0
        BY <2>6, <2>1, <3>3, <1>6, <1>2 DEF Fresh, Untold
      <4>2. Untold(p)' = (IF IsFull(p) THEN wins[w].dropped + 1 ELSE wins[w].dropped) /\ wins[w].dropped \in Nat
        BY <3>1, <3>3, <1>5, <1>6, <1>1 DEF Windows
      <4> QED
        BY <2>6, <4>1, <4>2, <3>1, <2>2, <2>3
    <3> QED
      BY <3>2, <3>3
  <2>7. CASE q # p
    <3>1. over'[q] = over[q]
      BY <2>7, <1>1, <1>0 DEF WhichWindows, OtherWindows, ItsWindow, Aside
    <3>2. current'[q] = IF current[q] \in gone THEN 0 ELSE current[q]
      BY <2>7, <1>2
    <3>3. CASE current[q] \in gone
      BY <3>1, <3>2, <3>3, <2>1, <2>2, <2>3, <2>5 DEF Untold
    <3>4. CASE current[q] \notin gone /\ current[q] # 0
      <4>1. current[q] # w
        BY <3>4, <2>4, <2>7, <1>6, <1>7
      <4>2. wins'[current[q]].dropped = wins[current[q]].dropped
        BY <4>1, <3>4, <2>4, <1>4
      <4> QED
        BY <3>1, <3>2, <3>4, <4>2, <2>1, <2>2, <2>3 DEF Untold
    <3>5. CASE current[q] = 0
      BY <3>1, <3>2, <3>5, <2>1, <2>2, <2>3, <2>5 DEF Untold
    <3> QED
      BY <3>3, <3>4, <3>5
  <2> QED
    BY <2>6, <2>7
<1> QED
  BY <1>9, <1>10, <1>11, <1>12

LEMMA AllowKeepsLogged ==
  ASSUME ReportsInv, NEW p \in Paths, Allow(p)
  PROVE  LoggedInWindows'
<1>0. WhichWindows(p) /\ OtherWindows(p) /\ ItsWindow(p) /\ Aside(p)
  BY AllowIs
<1> DEFINE w == Its(p)
<1> DEFINE new == [window |-> w, nth |-> Before(p).count + 1, at |-> clock]
<1>1. /\ wins \in Seq(Windows) /\ clock \in Nat /\ Minute \in Nat \ {0} /\ PerMinute \in Nat \ {0} /\ clock' = clock
      /\ logged \in [Paths -> SUBSET Entries] /\ \A v \in DOMAIN wins : wins[v] \in Windows
  BY <1>0, ReportsConstants DEF ReportsInv, ReportsShape, Aside
<1>2. \A v \in DOMAIN wins : /\ v \in DOMAIN wins' /\ wins'[v].path = wins[v].path /\ wins'[v].start = wins[v].start
                             /\ wins'[v].count \in Nat /\ wins[v].count <= wins'[v].count
  <2> SUFFICES ASSUME NEW v \in DOMAIN wins
               PROVE  /\ v \in DOMAIN wins' /\ wins'[v].path = wins[v].path /\ wins'[v].start = wins[v].start
                      /\ wins'[v].count \in Nat /\ wins[v].count <= wins'[v].count
    OBVIOUS
  <2>1. wins[v].count \in Nat
    BY <1>1 DEF Windows
  <2>2. CASE v = w
    <3>1. Before(p) = wins[v] /\ wins[v].path = p
      BY <2>2, <1>0 DEF WhichWindows
    <3> QED
      BY <2>1, <2>2, <3>1, <1>0 DEF WhichWindows, ItsWindow
  <2>3. CASE v # w
    BY <2>1, <2>3, <1>0 DEF WhichWindows, OtherWindows
  <2> QED
    BY <2>2, <2>3
<1>3. ASSUME NEW q \in Paths, NEW r \in logged[q] PROVE InItsWindow(q, r)'
  <2>1. InItsWindow(q, r)
    BY DEF ReportsInv, LoggedInWindows
  <2>2. r \in Entries
    BY <1>1
  <2>3. r.nth <= wins'[r.window].count
    <3>1. wins[r.window].count \in Nat /\ r.nth \in Nat /\ r.nth <= wins[r.window].count
      BY <2>1, <2>2, <1>1, SMTT(30) DEF InItsWindow, Windows, Entries
    <3> QED
      BY <3>1, <2>1, <1>2 DEF InItsWindow
  <2> QED
    BY <2>1, <2>3, <1>1, <1>2 DEF InItsWindow
<1>4. CASE IsFull(p)
  BY <1>0, <1>3, <1>4 DEF ReportsInv, LoggedInWindows, Aside
<1>5. CASE ~IsFull(p)
  <2>1. logged' = [logged EXCEPT ![p] = logged[p] \cup {new}]
    BY <1>0, <1>5 DEF Aside
  <2>2. Before(p).start \in Nat /\ Before(p).start <= clock /\ clock < Before(p).start + Minute /\ Before(p).count \in Nat
        /\ (Before(p).count = 0 => Before(p).start = clock)
    <3>1. CASE Fresh(p)
      BY <3>1, <1>0, <1>1 DEF WhichWindows, NewWindow
    <3>2. CASE ~Fresh(p)
      <4>1. Before(p) = wins[w] /\ w \in DOMAIN wins /\ ~Expired(w)
        BY <3>2, <1>0 DEF WhichWindows
      <4>2. wins[w].start \in Nat /\ wins[w].count \in 1 .. PerMinute /\ wins[w].start <= clock
        BY <4>1, <1>1 DEF Windows, ReportsInv, WindowsApart
      <4>3. clock < wins[w].start + Minute
        BY <4>1, <4>2, <1>1 DEF Expired
      <4> QED
        BY <4>1, <4>2, <4>3, <1>1
    <3> QED
      BY <3>1, <3>2
  <2>3. ASSUME NEW r, r = new PROVE InItsWindow(p, r)'
    <3>1. w \in DOMAIN wins' /\ wins'[w].path = p /\ wins'[w].start = Before(p).start /\ wins'[w].count = Before(p).count + 1
      BY <1>0, <1>5 DEF WhichWindows, ItsWindow
    <3>2. r.window = w /\ r.nth = Before(p).count + 1 /\ r.at = clock
      BY <2>3
    <3> QED
      BY <3>1, <3>2, <2>2, <1>1 DEF InItsWindow
  <2>4. ASSUME NEW r \in logged[p], r.window = w PROVE r.nth # Before(p).count + 1
    <3>1. InItsWindow(p, r) /\ r \in Entries
      BY <1>1 DEF ReportsInv, LoggedInWindows
    <3>2. w \in DOMAIN wins /\ r.nth <= wins[w].count /\ r.nth \in Nat
      BY <3>1, <2>4 DEF InItsWindow, Entries
    <3>3. Before(p) = wins[w]
      BY <3>2, <1>0 DEF WhichWindows
    <3> QED
      BY <3>2, <3>3, <2>2
  <2>5. \A q \in Paths : logged'[q] = IF q = p THEN logged[p] \cup {new} ELSE logged[q]
    BY <2>1, <1>1
  <2>6. ASSUME NEW q \in Paths, NEW r \in logged'[q] PROVE InItsWindow(q, r)'
    <3> HIDE DEF new
    <3>1. r \in logged[q] \/ (q = p /\ r = new)
      BY <2>5
    <3>2. CASE r \in logged[q]
      BY <3>2, <1>3
    <3>3. CASE q = p /\ r = new
      BY <3>3, <2>3
    <3> QED
      BY <3>1, <3>2, <3>3
  <2>7. ASSUME NEW q \in Paths, NEW r \in logged'[q], NEW t \in logged'[q], r.window = t.window, r.nth = t.nth
        PROVE  r = t
    <3>1. (r \in logged[q] \/ (q = p /\ r = new)) /\ (t \in logged[q] \/ (q = p /\ t = new))
      <4> HIDE DEF new
      <4> QED
        BY <2>5
    <3>2. CASE r \in logged[q] /\ t \in logged[q]
      BY <3>2, <2>7 DEF ReportsInv, LoggedInWindows
    <3>3. ~(r \in logged[p] /\ t = new) \/ q # p
      BY <2>4, <2>7
    <3>4. ~(t \in logged[p] /\ r = new) \/ q # p
      BY <2>4, <2>7
    <3> HIDE DEF new
    <3> QED
      BY <3>1, <3>2, <3>3, <3>4
  <2> QED
    BY <2>6, <2>7 DEF LoggedInWindows
<1> QED
  BY <1>4, <1>5

-----------------------------------------------------------------------------
\* A timer's window, told of: it is its path's own, or there is nothing to tell.
LEMMA FlushKeeps ==
  ASSUME ReportsInv, NEW w \in DOMAIN wins, FlushWindow(w)
  PROVE  ReportsInv'
<1>1. /\ wins \in Seq(Windows) /\ clock \in Nat /\ current \in [Paths -> Nat] /\ Minute \in Nat \ {0} /\ lastSweep \in Nat
      /\ over \in [Paths -> Nat] /\ told \in [Paths -> Nat] /\ \A v \in DOMAIN wins : wins[v] \in Windows /\ v \in Nat \ {0}
      /\ timers \subseteq DOMAIN wins /\ logged \in [Paths -> SUBSET Entries]
  BY ReportsConstants DEF ReportsInv, ReportsShape
<1>2. /\ w \in timers /\ Expired(w) /\ timers' = timers \ {w} /\ wins' = After({w})
      /\ told' = [p \in Paths |-> told[p] + DropsOf({w}, p)]
      /\ current' = [p \in Paths |-> IF current[p] = w THEN 0 ELSE current[p]]
      /\ clock' = clock /\ lastSweep' = lastSweep /\ logged' = logged /\ over' = over
  BY DEF FlushWindow, Tell
<1>3. /\ wins' \in Seq(Windows) /\ DOMAIN wins' = DOMAIN wins
      /\ \A v \in DOMAIN wins : wins'[v] = [wins[v] EXCEPT !.dropped = IF v \in {w} THEN 0 ELSE @]
  BY <1>2, AfterIs
<1>4. \A v \in DOMAIN wins :
        /\ wins'[v].path = wins[v].path /\ wins'[v].start = wins[v].start /\ wins'[v].timed = wins[v].timed
        /\ wins'[v].count = wins[v].count /\ wins'[v].dropped = IF v = w THEN 0 ELSE wins[v].dropped
  BY <1>1, <1>3, ZenonT(60) DEF Windows
<1>5. \A p \in Paths : DropsOf({w}, p) = IF wins[w].path = p THEN wins[w].dropped ELSE 0
  <2> SUFFICES ASSUME NEW p \in Paths PROVE DropsOf({w}, p) = IF wins[w].path = p THEN wins[w].dropped ELSE 0
    OBVIOUS
  <2>1. CASE wins[w].path = p
    <3>1. {v \in {w} : wins[v].path = p} = {w}
      BY <2>1
    <3> QED
      BY <2>1, <3>1 DEF DropsOf
  <2>2. CASE wins[w].path # p
    <3>1. {v \in {w} : wins[v].path = p} = {}
      BY <2>2
    <3> QED
      BY <2>2, <3>1 DEF DropsOf
  <2> QED
    BY <2>1, <2>2
<1>6. wins[w].path \in Paths /\ wins[w].dropped \in Nat
  BY <1>1 DEF Windows
<1>7. current[wins[w].path] = w \/ wins[w].dropped = 0
  BY DEF ReportsInv, OthersAreOver
<1>8. ReportsShape'
  <2>1. \A p \in Paths : DropsOf({w}, p) \in Nat
    BY <1>5, <1>6
  <2>2. told' \in [Paths -> Nat]
    <3>1. told' = [p \in Paths |-> told[p] + DropsOf({w}, p)] /\ told \in [Paths -> Nat]
      BY <1>1, <1>2
    <3> QED
      BY <2>1, <3>1
  <2> QED
    BY <2>2, <1>1, <1>2, <1>3 DEF ReportsShape
<1>9. CurrentIsOwn'
  BY <1>1, <1>2, <1>3, <1>4, ZenonT(60) DEF ReportsInv, CurrentIsOwn
<1>10. OthersAreOver'
  <2> SUFFICES ASSUME NEW v \in DOMAIN wins
               PROVE  current'[wins'[v].path] = v \/ (Expired(v)' /\ wins'[v].dropped = 0)
    BY <1>3 DEF OthersAreOver
  <2>1. current[wins[v].path] = v \/ (Expired(v) /\ wins[v].dropped = 0)
    BY DEF ReportsInv, OthersAreOver
  <2>2. wins[v].path \in Paths
    BY <1>1 DEF Windows
  <2> QED
    BY <2>1, <2>2, <1>2, <1>4, ZenonT(60) DEF Expired
<1>11. WindowsApart'
  <2>1. WindowsApart /\ clock' = clock /\ DOMAIN wins' = DOMAIN wins
        /\ \A v \in DOMAIN wins : wins'[v].path = wins[v].path /\ wins'[v].start = wins[v].start
    BY <1>2, <1>3, <1>4 DEF ReportsInv
  <2> QED
    BY <2>1 DEF WindowsApart
<1>12. DropsAreTimed'
  <2> SUFFICES ASSUME NEW v \in DOMAIN wins
               PROVE  /\ wins'[v].dropped > 0 => wins'[v].timed
                      /\ current'[wins'[v].path] = v /\ wins'[v].timed => v \in timers'
    BY <1>3 DEF DropsAreTimed
  <2>1. (wins[v].dropped > 0 => wins[v].timed) /\ (current[wins[v].path] = v /\ wins[v].timed => v \in timers)
    BY DEF ReportsInv, DropsAreTimed
  <2>2. wins[v].path \in Paths /\ v # 0
    BY <1>1 DEF Windows
  <2>3. CASE v = w
    <3>1. wins'[w].path = wins[w].path /\ wins'[w].dropped = 0
      BY <1>4
    <3>2. current'[wins[w].path] # w
      BY <2>2, <2>3, <1>2
    <3> QED
      BY <2>3, <3>1, <3>2
  <2>4. CASE v # w
    BY <2>1, <2>2, <2>4, <1>2, <1>4
  <2> QED
    BY <2>3, <2>4
<1>13. DropsAreCounted'
  <2> SUFFICES ASSUME NEW p \in Paths PROVE over'[p] = told'[p] + Untold(p)'
    BY DEF DropsAreCounted
  <2>1. over[p] = told[p] + Untold(p) /\ over[p] \in Nat /\ told[p] \in Nat /\ current[p] \in Nat
    BY <1>1 DEF ReportsInv, DropsAreCounted
  <2>2. told'[p] = told[p] + DropsOf({w}, p) /\ over'[p] = over[p] /\ current'[p] = IF current[p] = w THEN 0 ELSE current[p]
    BY <1>2
  <2>3. current[p] # 0 => current[p] \in DOMAIN wins /\ wins[current[p]].path = p
    BY DEF ReportsInv, CurrentIsOwn
  <2>4. w # 0
    BY <1>1
  <2>5. CASE current[p] = w
    <3>1. DropsOf({w}, p) = wins[w].dropped /\ Untold(p) = wins[w].dropped /\ Untold(p)' = 0
      BY <2>2, <2>3, <2>4, <2>5, <1>5 DEF Untold
    <3> QED
      BY <3>1, <2>1, <2>2, <1>6
  <2>6. CASE current[p] # w
    <3>1. DropsOf({w}, p) = 0
      BY <2>6, <1>5, <1>7
    <3>2. Untold(p)' = Untold(p)
      BY <2>2, <2>3, <2>6, <1>4 DEF Untold
    <3> QED
      BY <3>1, <3>2, <2>1, <2>2
  <2> QED
    BY <2>5, <2>6
<1>14. LoggedInWindows'
  <2>1. \A p \in Paths : \A r \in logged[p] : InItsWindow(p, r) => InItsWindow(p, r)'
    BY <1>2, <1>3, <1>4 DEF InItsWindow
  <2> QED
    BY <2>1, <1>2 DEF ReportsInv, LoggedInWindows
<1> QED
  BY <1>8, <1>9, <1>10, <1>11, <1>12, <1>13, <1>14 DEF ReportsInv

LEMMA TickKeeps ==
  ASSUME ReportsInv, Tick
  PROVE  ReportsInv'
<1>1. /\ clock' = clock + 1 /\ wins' = wins /\ current' = current /\ timers' = timers /\ over' = over /\ told' = told
      /\ lastSweep' = lastSweep /\ logged' = [p \in Paths |-> {r \in logged[p] : clock' - r.at < Minute}]
  BY DEF Tick
<1>2. /\ wins \in Seq(Windows) /\ clock \in Nat /\ Minute \in Nat /\ logged \in [Paths -> SUBSET Entries]
      /\ \A v \in DOMAIN wins : wins[v] \in Windows
  BY ReportsConstants DEF ReportsInv, ReportsShape
<1>3. ReportsShape'
  BY <1>1, <1>2 DEF ReportsInv, ReportsShape
<1>4. OthersAreOver'
  <2>1. \A v \in DOMAIN wins : Expired(v) => Expired(v)'
    BY <1>1, <1>2 DEF Expired, Windows
  <2> QED
    BY <2>1, <1>1 DEF ReportsInv, OthersAreOver
<1>5. WindowsApart'
  <2>1. \A v \in DOMAIN wins : wins[v].start \in Nat /\ wins[v].start <= clock
    BY <1>2 DEF ReportsInv, WindowsApart, Windows
  <2> QED
    BY <2>1, <1>1, <1>2 DEF ReportsInv, WindowsApart
<1>6. LoggedInWindows'
  <2>1. ASSUME NEW p \in Paths, NEW r \in logged'[p] PROVE r \in logged[p] /\ InItsWindow(p, r)'
    <3>1. r \in logged[p] /\ clock' - r.at < Minute /\ r \in Entries
      BY <1>1, <1>2
    <3>2. InItsWindow(p, r) /\ r.at \in Nat
      BY <3>1 DEF ReportsInv, LoggedInWindows, Entries
    <3> QED
      BY <3>1, <3>2, <1>1, <1>2 DEF InItsWindow
  <2> QED
    BY <2>1 DEF ReportsInv, LoggedInWindows
<1>7. CurrentIsOwn' /\ DropsAreTimed' /\ DropsAreCounted'
  BY <1>1 DEF ReportsInv, CurrentIsOwn, DropsAreTimed, DropsAreCounted, Untold
<1> QED
  BY <1>3, <1>4, <1>5, <1>6, <1>7 DEF ReportsInv

LEMMA ReportsStart == ReportsInit => ReportsInv
<1> SUFFICES ASSUME ReportsInit PROVE ReportsInv
  OBVIOUS
<1>1. /\ clock = 0 /\ lastSweep = 0 /\ wins = <<>> /\ current = [p \in Paths |-> 0] /\ timers = {}
      /\ logged = [p \in Paths |-> {}] /\ over = [p \in Paths |-> 0] /\ told = [p \in Paths |-> 0]
  BY DEF ReportsInit
<1>2. wins \in Seq(Windows) /\ DOMAIN wins = {}
  BY <1>1
<1> QED
  BY <1>1, <1>2 DEF ReportsInv, ReportsShape, CurrentIsOwn, OthersAreOver, WindowsApart, DropsAreTimed, DropsAreCounted, Untold, LoggedInWindows

LEMMA ReportsGoOn == ReportsInv /\ [ReportsNext]_reportVars => ReportsInv'
<1> SUFFICES ASSUME ReportsInv, [ReportsNext]_reportVars PROVE ReportsInv'
  OBVIOUS
<1>1. ASSUME NEW p \in Paths, Allow(p) PROVE ReportsInv'
  BY <1>1, AllowKeepsShape, AllowKeepsWindows, AllowKeepsLogged DEF ReportsInv
<1>2. ASSUME NEW w \in DOMAIN wins, FlushWindow(w) PROVE ReportsInv'
  BY <1>2, FlushKeeps
<1>3. CASE Tick
  BY <1>3, TickKeeps
<1>4. CASE UNCHANGED reportVars
  BY <1>4 DEF reportVars, ReportsInv, ReportsShape, CurrentIsOwn, OthersAreOver, Expired, WindowsApart, DropsAreTimed, DropsAreCounted,
              Untold, LoggedInWindows, InItsWindow
<1> QED
  BY <1>1, <1>2, <1>3, <1>4 DEF ReportsNext

LEMMA WindowsAreTyped == ReportsInv => \A w \in DOMAIN wins : wins[w] \in Windows
BY DEF ReportsInv, ReportsShape

\* What a log holds of a minute, in the windows it can be of: one, or two of
\* which the first lacks its first report, made before the minute.
LEMMA LoggedOfOneWindow ==
  ASSUME ReportsInv, NEW p \in Paths, NEW w, \A r \in logged[p] : r.window = w
  PROVE  Cardinality(logged[p]) < 2 * PerMinute
<1> DEFINE f == [r \in logged[p] |-> r.nth]
<1>1. PerMinute \in Nat \ {0} /\ \A r \in logged[p] : r.nth \in 1 .. PerMinute
  BY ReportsConstants DEF ReportsInv, ReportsShape, Entries
<1>2. \A r, q \in logged[p] : r.nth = q.nth => r = q
  BY DEF ReportsInv, LoggedInWindows
<1>3. f \in [logged[p] -> 1 .. PerMinute] /\ \A r, q \in logged[p] : f[r] = f[q] => r = q
  BY <1>1, <1>2
<1>4. f \in Injection(logged[p], 1 .. PerMinute)
  BY <1>3 DEF Injection, IsInjective
<1>5. IsFiniteSet(1 .. PerMinute) /\ Cardinality(1 .. PerMinute) = PerMinute
  BY <1>1, FS_Interval
<1>6. Cardinality(logged[p]) <= PerMinute /\ IsFiniteSet(logged[p])
  <2> HIDE DEF f
  <2> QED
    BY <1>4, <1>5, FS_Injection
<1> QED
  BY <1>1, <1>6, FS_CardinalityType

LEMMA LoggedOfTwoWindows ==
  ASSUME ReportsInv, NEW p \in Paths, NEW a \in logged[p], NEW b \in logged[p], a.window < b.window
  PROVE  Cardinality(logged[p]) < 2 * PerMinute
<1> DEFINE v == a.window
<1> DEFINE w == b.window
<1> DEFINE A == 2 .. PerMinute
<1> DEFINE B == PerMinute + 1 .. 2 * PerMinute
<1> DEFINE f == [r \in logged[p] |-> IF r.window = v THEN r.nth ELSE r.nth + PerMinute]
<1>1. /\ PerMinute \in Nat \ {0} /\ Minute \in Nat \ {0} /\ clock \in Nat
      /\ \A r \in logged[p] : r.nth \in 1 .. PerMinute /\ r.window \in Nat /\ r.at \in Nat /\ InItsWindow(p, r)
  BY ReportsConstants, SMTT(30) DEF ReportsInv, ReportsShape, Entries, LoggedInWindows
<1>2. \A u \in DOMAIN wins : wins[u].start \in Nat
  BY WindowsAreTyped DEF Windows
<1>3. ASSUME NEW r \in logged[p] PROVE r.window \in {v, w} /\ (r.window = v => r.nth # 1)
  <2>1. \A s, t \in logged[p] : s.window < t.window => wins[t.window].start >= wins[s.window].start + Minute
    BY <1>1 DEF InItsWindow, ReportsInv, WindowsApart
  <2>2. \A s \in logged[p] : /\ s.window \in DOMAIN wins /\ wins[s.window].start \in Nat
                             /\ wins[s.window].start <= s.at /\ s.at < wins[s.window].start + Minute
                             /\ s.at <= clock /\ clock - s.at < Minute
    BY <1>1, <1>2 DEF InItsWindow
  <2>3. ASSUME NEW x \in logged[p], NEW y \in logged[p], NEW z \in logged[p], x.window < y.window, y.window < z.window PROVE FALSE
    <3>1. wins[z.window].start >= wins[y.window].start + Minute /\ wins[y.window].start >= wins[x.window].start + Minute
      BY <2>1, <2>3
    <3>2. x.at < wins[x.window].start + Minute /\ wins[z.window].start <= z.at /\ z.at <= clock /\ clock - x.at < Minute
          /\ x.at \in Nat /\ z.at \in Nat /\ wins[x.window].start \in Nat /\ wins[y.window].start \in Nat /\ wins[z.window].start \in Nat
      BY <2>2, <1>1
    <3> QED
      BY <3>1, <3>2, <1>1
  <2>4. r.window \in {v, w}
    <3>1. v \in Nat /\ w \in Nat /\ r.window \in Nat
      BY <1>1
    <3>2. r.window < v \/ r.window = v \/ (v < r.window /\ r.window < w) \/ r.window = w \/ w < r.window
      BY <3>1
    <3> QED
      BY <3>2, <2>3
  <2>5. r.window = v => r.nth # 1
    <3>1. wins[w].start >= wins[v].start + Minute
      BY <2>1
    <3>2. wins[w].start <= clock /\ wins[v].start \in Nat /\ wins[w].start \in Nat
      <4>1. wins[w].start <= b.at /\ b.at <= clock /\ b.at \in Nat
        BY <2>2, <1>1
      <4> QED
        BY <4>1, <2>2, <1>1
    <3>3. r.window = v /\ r.nth = 1 => r.at = wins[v].start
      BY <1>1 DEF InItsWindow
    <3>4. clock - r.at < Minute
      BY <2>2
    <3> QED
      BY <3>1, <3>2, <3>3, <3>4, <1>1
  <2> QED
    BY <2>4, <2>5
<1>4. v # w
  BY <1>1
<1>5. f \in [logged[p] -> A \cup B]
  <2>1. \A r \in logged[p] : (IF r.window = v THEN r.nth ELSE r.nth + PerMinute) \in 2 .. PerMinute \cup (PerMinute + 1 .. 2 * PerMinute)
    BY <1>1, <1>3
  <2> QED
    BY <2>1
<1>6. \A r, q \in logged[p] : f[r] = f[q] => r = q
  <2> SUFFICES ASSUME NEW r \in logged[p], NEW q \in logged[p], f[r] = f[q] PROVE r = q
    OBVIOUS
  <2>1. r.nth \in 1 .. PerMinute /\ q.nth \in 1 .. PerMinute /\ r.window \in {v, w} /\ q.window \in {v, w}
    BY <1>1, <1>3
  <2>2. (IF r.window = v THEN r.nth ELSE r.nth + PerMinute) = (IF q.window = v THEN q.nth ELSE q.nth + PerMinute)
    OBVIOUS
  <2>3. r.window = q.window /\ r.nth = q.nth
    BY <2>1, <2>2, <1>1, <1>4
  <2> QED
    BY <2>3 DEF ReportsInv, LoggedInWindows
<1>7. f \in Injection(logged[p], A \cup B)
  BY <1>5, <1>6 DEF Injection, IsInjective
<1>8. A \cup B = 2 .. 2 * PerMinute
  BY <1>1
<1>9. IsFiniteSet(2 .. 2 * PerMinute) /\ Cardinality(2 .. 2 * PerMinute) = 2 * PerMinute - 1
  <2>1. 2 * PerMinute \in Int /\ 2 * PerMinute >= 2
    BY <1>1
  <2> QED
    BY <2>1, FS_Interval
<1>10. Cardinality(logged[p]) <= 2 * PerMinute - 1 /\ IsFiniteSet(logged[p])
  <2>1. f \in Injection(logged[p], 2 .. 2 * PerMinute)
    <3> HIDE DEF f, A, B
    <3> QED
      BY <1>7, <1>8
  <2> HIDE DEF f
  <2>2. IsFiniteSet(logged[p]) /\ Cardinality(logged[p]) <= Cardinality(2 .. 2 * PerMinute)
    BY <2>1, <1>9, FS_Injection
  <2> QED
    BY <2>2, <1>9
<1> QED
  BY <1>1, <1>10, FS_CardinalityType

LEMMA RateIsKept == ReportsInv => RateKept
<1> SUFFICES ASSUME ReportsInv, NEW p \in Paths PROVE Cardinality(logged[p]) < 2 * PerMinute
  BY DEF RateKept
<1>1. CASE \E a, b \in logged[p] : a.window # b.window
  <2>1. PICK a \in logged[p], b \in logged[p] : a.window # b.window
    BY <1>1
  <2>2. a.window \in Nat /\ b.window \in Nat
    BY DEF ReportsInv, ReportsShape, Entries
  <2>3. a.window < b.window \/ b.window < a.window
    BY <2>1, <2>2
  <2> QED
    BY <2>3, LoggedOfTwoWindows
<1>2. CASE logged[p] = {}
  BY <1>2, FS_EmptySet, ReportsConstants
<1>3. CASE logged[p] # {} /\ \A a, b \in logged[p] : a.window = b.window
  <2>1. PICK a \in logged[p] : TRUE
    BY <1>3
  <2>2. \A r \in logged[p] : r.window = a.window
    BY <1>3
  <2> QED
    BY <2>2, LoggedOfOneWindow
<1> QED
  BY <1>1, <1>2, <1>3

\* What is yet to be told of a path is what its own window dropped.
LEMMA DropsAreToBeTold == ReportsInv => DropsAreTold
<1> SUFFICES ASSUME ReportsInv, NEW p \in Paths PROVE over[p] = told[p] + Cardinality(ToBeTold(p))
  BY DEF DropsAreTold
<1>1. over[p] = told[p] + Untold(p) /\ over[p] \in Nat /\ told[p] \in Nat /\ current[p] \in Nat
  BY DEF ReportsInv, ReportsShape, DropsAreCounted
<1>2. \A w \in DOMAIN wins : wins[w] \in Windows /\ wins[w].dropped \in Nat
  BY WindowsAreTyped DEF Windows
<1>3. \A w \in DOMAIN wins : wins[w].path = p /\ w # current[p] => wins[w].dropped = 0
  BY DEF ReportsInv, OthersAreOver
<1>4. timers \subseteq DOMAIN wins
  BY DEF ReportsInv, ReportsShape
<1>5. \A n \in Nat : Cardinality(1 .. n) = n /\ IsFiniteSet(1 .. n)
  BY FS_Interval
<1>6. CASE current[p] # 0 /\ wins[current[p]].dropped > 0
  <2> DEFINE w == current[p]
  <2> DEFINE n == wins[w].dropped
  <2>1. w \in DOMAIN wins /\ wins[w].path = p /\ n \in Nat /\ n > 0
    BY <1>2, <1>6 DEF ReportsInv, CurrentIsOwn
  <2>2. w \in timers
    BY <2>1 DEF ReportsInv, DropsAreTimed
  <2>3. ToBeTold(p) = {w} \X (1 .. n)
    <3>1. ASSUME NEW v \in timers, wins[v].path = p, v # w PROVE {v} \X (1 .. wins[v].dropped) = {}
      <4>1. wins[v].dropped = 0
        BY <3>1, <1>3, <1>4
      <4>2. 1 .. 0 = {}
        OBVIOUS
      <4> QED
        BY <4>1, <4>2
    <3>2. ToBeTold(p) \subseteq {w} \X (1 .. n)
      BY <3>1 DEF ToBeTold
    <3>3. {w} \X (1 .. n) \subseteq ToBeTold(p)
      BY <2>1, <2>2 DEF ToBeTold
    <3> QED
      BY <3>2, <3>3
  <2> DEFINE f == [k \in 1 .. n |-> <<w, k>>]
  <2>4. f \in Bijection(1 .. n, {w} \X (1 .. n))
    BY DEF Bijection, Injection, IsInjective, Surjection
  <2>5. Cardinality({w} \X (1 .. n)) = n
    <3>1. ExistsBijection(1 .. n, {w} \X (1 .. n))
      BY <2>4 DEF ExistsBijection
    <3> QED
      BY <3>1, <2>1, <1>5, FS_Bijection
  <2> QED
    BY <1>1, <1>6, <2>3, <2>5 DEF Untold
<1>7. CASE ~(current[p] # 0 /\ wins[current[p]].dropped > 0)
  <2>1. \A w \in DOMAIN wins : wins[w].path = p => wins[w].dropped = 0
    <3> SUFFICES ASSUME NEW w \in DOMAIN wins, wins[w].path = p PROVE wins[w].dropped = 0
      OBVIOUS
    <3>1. CASE w = current[p]
      <4>1. w # 0
        BY DEF ReportsInv, ReportsShape
      <4> QED
        BY <3>1, <4>1, <1>2, <1>7
    <3>2. CASE w # current[p]
      BY <3>2, <1>3
    <3> QED
      BY <3>1, <3>2
  <2>2. Untold(p) = 0
    BY <2>1 DEF Untold, ReportsInv, CurrentIsOwn
  <2>3. ToBeTold(p) = {}
    <3>1. ASSUME NEW v \in timers, wins[v].path = p PROVE {v} \X (1 .. wins[v].dropped) = {}
      <4>1. wins[v].dropped = 0
        BY <3>1, <2>1, <1>4
      <4>2. 1 .. 0 = {}
        OBVIOUS
      <4> QED
        BY <4>1, <4>2
    <3> QED
      BY <3>1 DEF ToBeTold
  <2> QED
    BY <1>1, <2>2, <2>3, FS_EmptySet
<1> QED
  BY <1>6, <1>7

\* In any minute a Data App's log gets fewer reports than two windows allow, and
\* what it drops is told, each drop once: told already, or of a window whose
\* timer is to run (report.go's limiter).
THEOREM ReportsAreKept == ReportsSpec => []ReportsKept
<1>1. ReportsInv => ReportsKept
  BY RateIsKept, DropsAreToBeTold DEF ReportsKept
<1> QED
  BY <1>1, ReportsStart, ReportsGoOn, PTL DEF ReportsSpec

-----------------------------------------------------------------------------
(* A query and its calls.  The bridge has an invariant of its own, which   *)
(* the steps of either side keep whatever the query does: a call's id is   *)
(* in one queue, or at the host, or in the other, once.  What is shown     *)
(* rests on its being the one call awaited that can change it.             *)

Requests == [input : [condition : Values, sort : Values], page : Nat]
Phases == {"called", "aborted", "settled"}
CallRecords == [kind : {"run", "page"}, request : Requests, signature : Requests, at : Phases]
ToHostMessages == [type : {"call", "cancel"}, id : Nat]
ToFrameMessages == [id : Nat, ok : BOOLEAN]

Inputs == [condition : Values, applied : Values, sort : Values]
QueryRecords ==
  [state : {"idle", "executing", "success", "error"}, page : Nat, signature : Requests, runFailed : BOOLEAN, controller : Nat]
Results == [pages : Seq(Requests), more : BOOLEAN]

QueryShape ==
  /\ input \in Inputs
  /\ query \in QueryRecords
  /\ result \in Results
  /\ query.controller \in DOMAIN calls \cup {0}
  /\ cut \in BOOLEAN /\ apt \in BOOLEAN

\* The bridge's calls cs, its messages th and tf, and what the host works at wk.
\* It carries each call once; an awaited one is somewhere, and nothing cancels
\* it; one given up that the host has still to end has its cancel behind it.
Asking(th, c) == {n \in DOMAIN th : th[n].type = "call" /\ th[n].id = c}
Cancelling(th, c) == {n \in DOMAIN th : th[n].type = "cancel" /\ th[n].id = c}
Answering(tf, c) == {n \in DOMAIN tf : tf[n].id = c}
OfCalls(cs, th, tf, wk) ==
  /\ cs \in Seq(CallRecords) /\ th \in Seq(ToHostMessages) /\ tf \in Seq(ToFrameMessages) /\ wk \subseteq DOMAIN cs
  /\ \A n \in DOMAIN th : th[n].id \in DOMAIN cs
  /\ \A n \in DOMAIN tf : tf[n].id \in DOMAIN cs
OnceOf(c, th, tf, wk) ==
  /\ \A n, m \in Asking(th, c) : n = m
  /\ \A n, m \in Answering(tf, c) : n = m
  /\ Asking(th, c) # {} => c \notin wk /\ Answering(tf, c) = {}
  /\ c \in wk => Answering(tf, c) = {}
AwaitedOf(c, at, th, tf, wk) ==
  /\ at = "called" => Cancelling(th, c) = {} /\ (Asking(th, c) # {} \/ c \in wk \/ Answering(tf, c) # {})
  /\ at # "called" => /\ c \in wk => Cancelling(th, c) # {}
                      /\ \A n \in Asking(th, c) : \E m \in Cancelling(th, c) : n < m
Bridge(cs, th, tf, wk) ==
  /\ OfCalls(cs, th, tf, wk)
  /\ \A c \in DOMAIN cs : OnceOf(c, th, tf, wk) /\ AwaitedOf(c, cs[c].at, th, tf, wk)

\* A run asks for the first page of what its signature says.
RunsAsk == \A c \in DOMAIN calls : calls[c].kind = "run" => calls[c].request = calls[c].signature /\ calls[c].request.page = 1

\* While pages are asked for only of what is shown, the one awaited call is the
\* query's own, and a page is of what is shown and the next of it.
Apt ==
  apt => \A c \in DOMAIN calls : calls[c].at = "called" =>
    /\ c = query.controller
    /\ calls[c].kind = "page" => /\ calls[c].request = calls[c].signature
                                 /\ calls[c].request = [query.signature EXCEPT !.page = Len(result.pages) + 1]

\* What executes has its call, one of those made.
Awaits == query.state = "executing" => cut \/ (query.controller \in DOMAIN calls /\ calls[query.controller].at = "called")

QueryInv == QueryShape /\ Bridge(calls, toHost, toFrame, working) /\ RunsAsk /\ Apt /\ ShownIsOneRun /\ Awaits

-----------------------------------------------------------------------------
\* Sequences, as the steps use them.
LEMMA Appending ==
  ASSUME NEW S, NEW s \in Seq(S), NEW e \in S
  PROVE  /\ Append(s, e) \in Seq(S) /\ Len(Append(s, e)) = Len(s) + 1 /\ Len(s) \in Nat
         /\ DOMAIN s = 1 .. Len(s) /\ DOMAIN Append(s, e) = DOMAIN s \cup {Len(s) + 1}
         /\ Len(s) + 1 \notin DOMAIN s
         /\ \A i \in DOMAIN s : Append(s, e)[i] = s[i]
         /\ Append(s, e)[Len(s) + 1] = e
OBVIOUS

LEMMA AppendingOne ==
  ASSUME NEW S, NEW s \in Seq(S), NEW e \in S
  PROVE  s \o <<e>> = Append(s, e)
OBVIOUS

LEMMA Taking ==
  ASSUME NEW S, NEW s \in Seq(S), s # <<>>
  PROVE  /\ Tail(s) \in Seq(S) /\ Head(s) = s[1] /\ 1 \in DOMAIN s
         /\ Len(Tail(s)) = Len(s) - 1 /\ \A i \in DOMAIN Tail(s) : i \in Nat /\ i + 1 \in DOMAIN s /\ Tail(s)[i] = s[i + 1]
         /\ \A i \in DOMAIN s : i \in Nat /\ (i # 1 => i - 1 \in DOMAIN Tail(s) /\ Tail(s)[i - 1] = s[i])
OBVIOUS

-----------------------------------------------------------------------------
(* The bridge, step by step. *)

\* A call's place when the queue to the host grows by a message.
LEMMA AskedThen ==
  ASSUME NEW th \in Seq(ToHostMessages), NEW m \in ToHostMessages, NEW c
  PROVE  /\ Asking(Append(th, m), c) = IF m.type = "call" /\ m.id = c THEN Asking(th, c) \cup {Len(th) + 1} ELSE Asking(th, c)
         /\ Cancelling(Append(th, m), c) = IF m.type = "cancel" /\ m.id = c THEN Cancelling(th, c) \cup {Len(th) + 1} ELSE Cancelling(th, c)
         /\ \A n \in Asking(th, c) : n < Len(th) + 1
         /\ Append(th, m) \in Seq(ToHostMessages)
<1>1. /\ Append(th, m) \in Seq(ToHostMessages) /\ Len(th) \in Nat /\ DOMAIN th = 1 .. Len(th)
      /\ DOMAIN Append(th, m) = DOMAIN th \cup {Len(th) + 1} /\ Len(th) + 1 \notin DOMAIN th
      /\ \A i \in DOMAIN th : Append(th, m)[i] = th[i]
      /\ Append(th, m)[Len(th) + 1] = m
  BY Appending
<1>2. \A n \in Asking(th, c) : n < Len(th) + 1
  BY <1>1 DEF Asking
<1> HIDE DEF ToHostMessages
<1>3. Asking(Append(th, m), c) = IF m.type = "call" /\ m.id = c THEN Asking(th, c) \cup {Len(th) + 1} ELSE Asking(th, c)
  BY <1>1 DEF Asking
<1>4. Cancelling(Append(th, m), c) = IF m.type = "cancel" /\ m.id = c THEN Cancelling(th, c) \cup {Len(th) + 1} ELSE Cancelling(th, c)
  BY <1>1 DEF Cancelling
<1> QED
  BY <1>1, <1>2, <1>3, <1>4

\* A call begun: the bridge's next message is its own.
LEMMA BridgeBegins ==
  ASSUME NEW cs, NEW th, NEW tf, NEW wk, Bridge(cs, th, tf, wk), NEW r \in CallRecords, r.at = "called"
  PROVE  Bridge(Append(cs, r), Append(th, [type |-> "call", id |-> Len(cs) + 1]), tf, wk)
<1> DEFINE id == Len(cs) + 1
<1> DEFINE m == [type |-> "call", id |-> id]
<1>1. /\ cs \in Seq(CallRecords) /\ th \in Seq(ToHostMessages) /\ tf \in Seq(ToFrameMessages) /\ wk \subseteq DOMAIN cs
      /\ \A n \in DOMAIN th : th[n].id \in DOMAIN cs
      /\ \A n \in DOMAIN tf : tf[n].id \in DOMAIN cs
  BY DEF Bridge, OfCalls
<1>2. /\ Append(cs, r) \in Seq(CallRecords) /\ DOMAIN Append(cs, r) = DOMAIN cs \cup {id} /\ id \notin DOMAIN cs
      /\ \A c \in DOMAIN cs : Append(cs, r)[c] = cs[c]
      /\ Append(cs, r)[id] = r /\ id \in Nat
  BY <1>1, Appending
<1>3. m \in ToHostMessages /\ m.type = "call" /\ m.id = id
  BY <1>2 DEF ToHostMessages
<1> HIDE DEF m, id
<1>4. \A c : /\ Asking(Append(th, m), c) = IF id = c THEN Asking(th, c) \cup {Len(th) + 1} ELSE Asking(th, c)
            /\ Cancelling(Append(th, m), c) = Cancelling(th, c)
            /\ Append(th, m) \in Seq(ToHostMessages)
  BY <1>1, <1>3, AskedThen
<1>5. Asking(th, id) = {} /\ Cancelling(th, id) = {} /\ Answering(tf, id) = {} /\ id \notin wk
  BY <1>1, <1>2 DEF Asking, Cancelling, Answering
<1>6. OfCalls(Append(cs, r), Append(th, m), tf, wk)
  <2>1. \A n \in DOMAIN Append(th, m) : Append(th, m)[n].id \in DOMAIN Append(cs, r)
    <3>1. /\ DOMAIN Append(th, m) = DOMAIN th \cup {Len(th) + 1}
          /\ \A i \in DOMAIN th : Append(th, m)[i] = th[i]
          /\ Append(th, m)[Len(th) + 1] = m
      BY <1>1, <1>3, Appending
    <3> QED
      BY <3>1, <1>1, <1>2, <1>3
  <2> QED
    BY <2>1, <1>1, <1>2, <1>4 DEF OfCalls
<1>7. ASSUME NEW c \in DOMAIN Append(cs, r)
      PROVE  OnceOf(c, Append(th, m), tf, wk) /\ AwaitedOf(c, Append(cs, r)[c].at, Append(th, m), tf, wk)
  <2>1. CASE c = id
    BY <2>1, <1>2, <1>4, <1>5 DEF OnceOf, AwaitedOf
  <2>2. CASE c # id
    <3>1. c \in DOMAIN cs /\ OnceOf(c, th, tf, wk) /\ AwaitedOf(c, cs[c].at, th, tf, wk) /\ Append(cs, r)[c] = cs[c]
      BY <2>2, <1>2 DEF Bridge
    <3>2. Asking(Append(th, m), c) = Asking(th, c) /\ Cancelling(Append(th, m), c) = Cancelling(th, c)
      BY <2>2, <1>4
    <3> QED
      BY <3>1, <3>2 DEF OnceOf, AwaitedOf
  <2> QED
    BY <2>1, <2>2
<1>8. Bridge(Append(cs, r), Append(th, m), tf, wk)
  BY <1>6, <1>7 DEF Bridge
<1> QED
  BY <1>8 DEF m, id

\* What rejecting a call makes of the calls, and tells the host.
LEMMA RejectedIs ==
  ASSUME calls \in Seq(CallRecords), NEW k
  PROVE  /\ Rejected(k) \in Seq(CallRecords) /\ DOMAIN Rejected(k) = DOMAIN calls /\ Len(Rejected(k)) = Len(calls)
         /\ \A c \in DOMAIN calls :
              /\ Rejected(k)[c].kind = calls[c].kind /\ Rejected(k)[c].request = calls[c].request
              /\ Rejected(k)[c].signature = calls[c].signature
              /\ Rejected(k)[c].at = IF c = k /\ calls[c].at = "called" THEN "aborted" ELSE calls[c].at
<1>1. DOMAIN calls = 1 .. Len(calls) /\ Len(calls) \in Nat /\ \A c \in DOMAIN calls : calls[c] \in CallRecords
  OBVIOUS
<1>2. \A c \in DOMAIN calls : c \in Aborts(k) <=> c = k /\ calls[c].at = "called"
  BY DEF Aborts
<1>3. DOMAIN Rejected(k) = DOMAIN calls
      /\ \A c \in DOMAIN calls : Rejected(k)[c] = IF c = k /\ calls[c].at = "called" THEN [calls[c] EXCEPT !.at = "aborted"] ELSE calls[c]
  BY <1>2 DEF Rejected
<1>4. ASSUME NEW c \in DOMAIN calls
      PROVE  /\ Rejected(k)[c] \in CallRecords
             /\ Rejected(k)[c].kind = calls[c].kind /\ Rejected(k)[c].request = calls[c].request
             /\ Rejected(k)[c].signature = calls[c].signature
             /\ Rejected(k)[c].at = IF c = k /\ calls[c].at = "called" THEN "aborted" ELSE calls[c].at
  <2>1. calls[c] \in CallRecords
    BY <1>1
  <2>2. CASE c = k /\ calls[c].at = "called"
    <3>1. Rejected(k)[c] = [calls[c] EXCEPT !.at = "aborted"]
      BY <2>2, <1>3
    <3> QED
      BY <2>1, <2>2, <3>1 DEF CallRecords, Phases
  <2>3. CASE ~(c = k /\ calls[c].at = "called")
    <3>1. Rejected(k)[c] = calls[c]
      BY <2>3, <1>3
    <3> QED
      BY <2>1, <2>3, <3>1
  <2> QED
    BY <2>2, <2>3
<1>5. Rejected(k) \in [1 .. Len(calls) -> CallRecords]
  BY <1>1, <1>3, <1>4 DEF Rejected
<1>6. Rejected(k) \in Seq(CallRecords) /\ Len(Rejected(k)) = Len(calls)
  BY <1>1, <1>5
<1> QED
  BY <1>3, <1>4, <1>6

LEMMA CancelsIs ==
  ASSUME calls \in Seq(CallRecords), toHost \in Seq(ToHostMessages), NEW k \in Nat
  PROVE  IF k \in DOMAIN calls /\ calls[k].at = "called"
         THEN toHost \o Cancels(k) = Append(toHost, [type |-> "cancel", id |-> k]) /\ Aborts(k) # {}
         ELSE toHost \o Cancels(k) = toHost /\ Aborts(k) = {}
<1>1. CASE k \in DOMAIN calls /\ calls[k].at = "called"
  <2>1. Aborts(k) # {}
    BY <1>1 DEF Aborts
  <2>2. [type |-> "cancel", id |-> k] \in ToHostMessages
    BY DEF ToHostMessages
  <2>3. Cancels(k) = <<[type |-> "cancel", id |-> k]>>
    BY <2>1 DEF Cancels
  <2> QED
    BY <1>1, <2>1, <2>2, <2>3, AppendingOne
<1>2. CASE ~(k \in DOMAIN calls /\ calls[k].at = "called")
  <2>1. Aborts(k) = {}
    BY <1>2 DEF Aborts
  <2>2. Cancels(k) = <<>>
    BY <2>1 DEF Cancels
  <2>3. toHost \o <<>> = toHost
    OBVIOUS
  <2> QED
    BY <1>2, <2>1, <2>2, <2>3
<1> QED
  BY <1>1, <1>2

LEMMA BridgeRejects ==
  ASSUME Bridge(calls, toHost, toFrame, working), NEW k \in Nat
  PROVE  Bridge(Rejected(k), toHost \o Cancels(k), toFrame, working)
<1>1. /\ calls \in Seq(CallRecords) /\ toHost \in Seq(ToHostMessages) /\ OfCalls(calls, toHost, toFrame, working)
      /\ \A n \in DOMAIN toHost : toHost[n].id \in DOMAIN calls
  BY DEF Bridge, OfCalls
<1>2. /\ Rejected(k) \in Seq(CallRecords) /\ DOMAIN Rejected(k) = DOMAIN calls
      /\ \A c \in DOMAIN calls : Rejected(k)[c].at = IF c = k /\ calls[c].at = "called" THEN "aborted" ELSE calls[c].at
  BY <1>1, RejectedIs
<1>3. \A c \in DOMAIN calls : OnceOf(c, toHost, toFrame, working) /\ AwaitedOf(c, calls[c].at, toHost, toFrame, working)
  BY DEF Bridge
<1>4. CASE k \in DOMAIN calls /\ calls[k].at = "called"
  <2> DEFINE m == [type |-> "cancel", id |-> k]
  <2>1. toHost \o Cancels(k) = Append(toHost, m)
    BY <1>1, <1>4, CancelsIs
  <2>2. m \in ToHostMessages /\ m.type = "cancel" /\ m.id = k
    BY DEF ToHostMessages
  <2> HIDE DEF m
  <2>3. ASSUME NEW c
        PROVE  /\ Asking(Append(toHost, m), c) = Asking(toHost, c)
               /\ Cancelling(Append(toHost, m), c) = IF k = c THEN Cancelling(toHost, c) \cup {Len(toHost) + 1} ELSE Cancelling(toHost, c)
               /\ \A n \in Asking(toHost, c) : n < Len(toHost) + 1
               /\ Append(toHost, m) \in Seq(ToHostMessages)
    <3>1. toHost \in Seq(ToHostMessages)
      BY <1>1 DEF OfCalls
    <3>2. /\ Asking(Append(toHost, m), c) = IF m.type = "call" /\ m.id = c THEN Asking(toHost, c) \cup {Len(toHost) + 1} ELSE Asking(toHost, c)
          /\ Cancelling(Append(toHost, m), c) = IF m.type = "cancel" /\ m.id = c THEN Cancelling(toHost, c) \cup {Len(toHost) + 1} ELSE Cancelling(toHost, c)
          /\ \A n \in Asking(toHost, c) : n < Len(toHost) + 1
          /\ Append(toHost, m) \in Seq(ToHostMessages)
      BY <3>1, <2>2, AskedThen
    <3> QED
      BY <3>2, <2>2
  <2>4. OfCalls(Rejected(k), Append(toHost, m), toFrame, working)
    <3>1. \A n \in DOMAIN Append(toHost, m) : Append(toHost, m)[n].id \in DOMAIN calls
      <4>1. /\ DOMAIN Append(toHost, m) = DOMAIN toHost \cup {Len(toHost) + 1}
            /\ \A i \in DOMAIN toHost : Append(toHost, m)[i] = toHost[i]
            /\ Append(toHost, m)[Len(toHost) + 1] = m
        BY <1>1, <2>2, Appending DEF OfCalls
      <4> QED
        BY <4>1, <1>1, <1>4, <2>2
    <3> QED
      BY <3>1, <2>3, <1>1, <1>2 DEF OfCalls
  <2>5. ASSUME NEW c \in DOMAIN calls
        PROVE  OnceOf(c, Append(toHost, m), toFrame, working) /\ AwaitedOf(c, Rejected(k)[c].at, Append(toHost, m), toFrame, working)
    <3>1. OnceOf(c, toHost, toFrame, working) /\ AwaitedOf(c, calls[c].at, toHost, toFrame, working)
      BY <1>3
    <3>2. CASE c = k
      BY <3>1, <3>2, <2>3, <1>2, <1>4 DEF OnceOf, AwaitedOf
    <3>3. CASE c # k
      BY <3>1, <3>3, <2>3, <1>2 DEF OnceOf, AwaitedOf
    <3> QED
      BY <3>2, <3>3
  <2> QED
    BY <2>1, <2>4, <2>5, <1>2 DEF Bridge
<1>5. CASE ~(k \in DOMAIN calls /\ calls[k].at = "called")
  <2>1. toHost \o Cancels(k) = toHost
    BY <1>1, <1>5, CancelsIs
  <2>2. \A c \in DOMAIN calls : Rejected(k)[c].at = calls[c].at
    BY <1>2, <1>5
  <2> QED
    BY <2>1, <2>2, <1>1, <1>2, <1>3 DEF Bridge, OfCalls
<1> QED
  BY <1>4, <1>5

\* A call's places when the host takes the next message of its queue.
LEMMA TakenThen ==
  ASSUME NEW th \in Seq(ToHostMessages), th # <<>>, NEW c
  PROVE  /\ \A n \in Asking(Tail(th), c) : n \in Nat /\ n + 1 \in Asking(th, c)
         /\ \A n \in Cancelling(Tail(th), c) : n \in Nat /\ n + 1 \in Cancelling(th, c)
         /\ \A n \in Asking(th, c) : n \in Nat /\ (n # 1 => n - 1 \in Asking(Tail(th), c))
         /\ \A n \in Cancelling(th, c) : n \in Nat /\ (n # 1 => n - 1 \in Cancelling(Tail(th), c))
         /\ 1 \in Asking(th, c) <=> Head(th).type = "call" /\ Head(th).id = c
         /\ 1 \in Cancelling(th, c) <=> Head(th).type = "cancel" /\ Head(th).id = c
<1>1. /\ Tail(th) \in Seq(ToHostMessages) /\ Head(th) = th[1] /\ 1 \in DOMAIN th
      /\ \A i \in DOMAIN Tail(th) : i \in Nat /\ i + 1 \in DOMAIN th /\ Tail(th)[i] = th[i + 1]
      /\ \A i \in DOMAIN th : i \in Nat /\ (i # 1 => i - 1 \in DOMAIN Tail(th) /\ Tail(th)[i - 1] = th[i])
  BY Taking
<1> HIDE DEF ToHostMessages
<1>2. /\ \A n \in Asking(Tail(th), c) : n \in Nat /\ n + 1 \in Asking(th, c)
      /\ \A n \in Asking(th, c) : n \in Nat /\ (n # 1 => n - 1 \in Asking(Tail(th), c))
      /\ 1 \in Asking(th, c) <=> Head(th).type = "call" /\ Head(th).id = c
  BY <1>1 DEF Asking
<1>3. /\ \A n \in Cancelling(Tail(th), c) : n \in Nat /\ n + 1 \in Cancelling(th, c)
      /\ \A n \in Cancelling(th, c) : n \in Nat /\ (n # 1 => n - 1 \in Cancelling(Tail(th), c))
      /\ 1 \in Cancelling(th, c) <=> Head(th).type = "cancel" /\ Head(th).id = c
  BY <1>1 DEF Cancelling
<1> QED
  BY <1>2, <1>3

\* The host takes a message: it works at the call, or no more.
LEMMA BridgeHostTakes ==
  ASSUME NEW cs, NEW th, NEW tf, NEW wk, Bridge(cs, th, tf, wk), th # <<>>
  PROVE  Bridge(cs, Tail(th), tf, IF Head(th).type = "call" THEN wk \cup {Head(th).id} ELSE wk \ {Head(th).id})
<1> DEFINE m == Head(th)
<1> DEFINE now == IF m.type = "call" THEN wk \cup {m.id} ELSE wk \ {m.id}
<1>1. OfCalls(cs, th, tf, wk) /\ th \in Seq(ToHostMessages)
  BY DEF Bridge, OfCalls
<1>2. /\ Tail(th) \in Seq(ToHostMessages) /\ m = th[1] /\ 1 \in DOMAIN th
      /\ \A i \in DOMAIN Tail(th) : i + 1 \in DOMAIN th /\ Tail(th)[i] = th[i + 1]
  BY <1>1, Taking
<1>3. m \in ToHostMessages /\ m.id \in DOMAIN cs /\ m.type \in {"call", "cancel"}
  <2>1. m \in ToHostMessages
    BY <1>1, <1>2
  <2> QED
    BY <2>1, <1>1, <1>2 DEF OfCalls, ToHostMessages
<1> HIDE DEF m
<1>4. OfCalls(cs, Tail(th), tf, now)
  BY <1>1, <1>2, <1>3 DEF OfCalls
<1>5. ASSUME NEW c \in DOMAIN cs
      PROVE  OnceOf(c, Tail(th), tf, now) /\ AwaitedOf(c, cs[c].at, Tail(th), tf, now)
  <2>1. OnceOf(c, th, tf, wk) /\ AwaitedOf(c, cs[c].at, th, tf, wk)
    BY DEF Bridge
  <2>2. /\ \A n \in Asking(Tail(th), c) : n \in Nat /\ n + 1 \in Asking(th, c)
        /\ \A n \in Cancelling(Tail(th), c) : n \in Nat /\ n + 1 \in Cancelling(th, c)
        /\ \A n \in Asking(th, c) : n \in Nat /\ (n # 1 => n - 1 \in Asking(Tail(th), c))
        /\ \A n \in Cancelling(th, c) : n \in Nat /\ (n # 1 => n - 1 \in Cancelling(Tail(th), c))
        /\ 1 \in Asking(th, c) <=> m.type = "call" /\ m.id = c
        /\ 1 \in Cancelling(th, c) <=> m.type = "cancel" /\ m.id = c
    BY <1>1, TakenThen DEF m
  <2>3. c \in now <=> (c \in wk /\ ~(m.type = "cancel" /\ m.id = c)) \/ (m.type = "call" /\ m.id = c)
    BY <1>3
  <2> HIDE DEF now
  <2>4. OnceOf(c, Tail(th), tf, now)
    <3>1. \A n, k \in Asking(Tail(th), c) : n = k
      BY <2>1, <2>2 DEF OnceOf
    <3>2. m.type = "call" /\ m.id = c => Asking(Tail(th), c) = {} /\ c \notin wk /\ Answering(tf, c) = {}
      <4>1. ASSUME m.type = "call" /\ m.id = c, NEW n \in Asking(Tail(th), c) PROVE FALSE
        <5>1. n \in Nat /\ n + 1 \in Asking(th, c) /\ 1 \in Asking(th, c) /\ 1 \in Nat /\ 0 \notin Asking(th, c)
          BY <4>1, <2>2, <1>1 DEF Asking
        <5>2. n + 1 = 1
          BY <5>1, <2>1 DEF OnceOf
        <5>3. n = 0
          BY <5>1, <5>2
        <5> QED
          BY <5>3, <4>1, <1>1, <1>2 DEF Asking
      <4>2. m.type = "call" /\ m.id = c => Asking(th, c) # {}
        BY <2>2
      <4> QED
        BY <4>1, <4>2, <2>1 DEF OnceOf
    <3>3. Asking(Tail(th), c) # {} => Asking(th, c) # {}
      BY <2>2
    <3> QED
      BY <3>1, <3>2, <3>3, <2>1, <2>3 DEF OnceOf
  <2>5. CASE cs[c].at = "called"
    <3>1. Cancelling(th, c) = {} /\ (Asking(th, c) # {} \/ c \in wk \/ Answering(tf, c) # {})
      BY <2>1, <2>5 DEF AwaitedOf
    <3>2. Cancelling(Tail(th), c) = {} /\ ~(m.type = "cancel" /\ m.id = c)
      BY <3>1, <2>2
    <3>3. Asking(th, c) # {} => Asking(Tail(th), c) # {} \/ (m.type = "call" /\ m.id = c)
      BY <2>2
    <3> QED
      BY <3>1, <3>2, <3>3, <2>3, <2>4, <2>5 DEF AwaitedOf
  <2>6. CASE cs[c].at # "called"
    <3>1. /\ c \in wk => Cancelling(th, c) # {}
          /\ \A n \in Asking(th, c) : \E k \in Cancelling(th, c) : n < k
      BY <2>1, <2>6 DEF AwaitedOf
    <3>2. \A n \in Asking(Tail(th), c) : \E k \in Cancelling(Tail(th), c) : n < k
      <4>1. TAKE n \in Asking(Tail(th), c)
      <4>2. PICK k \in Cancelling(th, c) : n + 1 < k
        BY <2>2, <3>1
      <4>3. n \in Nat /\ k \in Nat /\ k # 1 /\ n < k - 1
        BY <4>2, <2>2
      <4> QED
        BY <4>3, <2>2
    <3>3. CASE m.type = "call" /\ m.id = c
      <4>1. PICK k \in Cancelling(th, c) : 1 < k
        BY <2>2, <3>1, <3>3
      <4>2. k # 1
        BY <4>1
      <4> QED
        BY <4>2, <2>2, <2>4, <2>6, <3>2 DEF AwaitedOf
    <3>4. CASE m.type = "cancel" /\ m.id = c
      BY <3>4, <2>3, <2>4, <2>6, <3>2 DEF AwaitedOf
    <3>5. CASE m.id # c
      <4>1. Cancelling(th, c) # {} => Cancelling(Tail(th), c) # {}
        BY <2>2, <3>5
      <4> QED
        BY <4>1, <3>1, <3>5, <2>3, <2>4, <2>6, <3>2 DEF AwaitedOf
    <3> QED
      BY <3>3, <3>4, <3>5, <1>3
  <2> QED
    BY <2>5, <2>6
<1>6. Bridge(cs, Tail(th), tf, now)
  BY <1>4, <1>5 DEF Bridge
<1> QED
  BY <1>6 DEF m

\* The host answers a call it works at.
LEMMA BridgeAnswers ==
  ASSUME NEW cs, NEW th, NEW tf, NEW wk, Bridge(cs, th, tf, wk), NEW id \in wk, NEW ok \in BOOLEAN
  PROVE  Bridge(cs, th, Append(tf, [id |-> id, ok |-> ok]), wk \ {id})
<1> DEFINE m == [id |-> id, ok |-> ok]
<1>1. /\ OfCalls(cs, th, tf, wk) /\ tf \in Seq(ToFrameMessages) /\ id \in DOMAIN cs /\ cs \in Seq(CallRecords)
      /\ \A n \in DOMAIN tf : tf[n].id \in DOMAIN cs
  BY DEF Bridge, OfCalls
<1>2. m \in ToFrameMessages /\ m.id = id
  BY <1>1 DEF ToFrameMessages
<1> HIDE DEF m
<1>3. /\ Append(tf, m) \in Seq(ToFrameMessages)
      /\ DOMAIN Append(tf, m) = DOMAIN tf \cup {Len(tf) + 1} /\ Len(tf) + 1 \notin DOMAIN tf
      /\ \A i \in DOMAIN tf : Append(tf, m)[i] = tf[i]
      /\ Append(tf, m)[Len(tf) + 1] = m
  BY <1>1, <1>2, Appending
<1>4. OfCalls(cs, th, Append(tf, m), wk \ {id})
  <2>1. \A n \in DOMAIN Append(tf, m) : Append(tf, m)[n].id \in DOMAIN cs
    BY <1>1, <1>2, <1>3
  <2> QED
    BY <2>1, <1>1, <1>3 DEF OfCalls
<1>5. ASSUME NEW c \in DOMAIN cs
      PROVE  OnceOf(c, th, Append(tf, m), wk \ {id}) /\ AwaitedOf(c, cs[c].at, th, Append(tf, m), wk \ {id})
  <2>1. OnceOf(c, th, tf, wk) /\ AwaitedOf(c, cs[c].at, th, tf, wk)
    BY DEF Bridge
  <2>2. Answering(Append(tf, m), c) = IF c = id THEN Answering(tf, c) \cup {Len(tf) + 1} ELSE Answering(tf, c)
    BY <1>2, <1>3 DEF Answering
  <2> QED
    BY <2>1, <2>2 DEF OnceOf, AwaitedOf
<1>6. Bridge(cs, th, Append(tf, m), wk \ {id})
  BY <1>4, <1>5 DEF Bridge
<1> QED
  BY <1>6 DEF m

\* Calls of which the same are awaited.
LEMMA BridgeSettles ==
  ASSUME NEW cs, NEW th, NEW tf, NEW wk, Bridge(cs, th, tf, wk), NEW now \in Seq(CallRecords), DOMAIN now = DOMAIN cs,
         \A c \in DOMAIN cs : now[c].at = "called" <=> cs[c].at = "called"
  PROVE  Bridge(now, th, tf, wk)
BY DEF Bridge, OfCalls, AwaitedOf

\* The frame takes an answer, and its call, where it was awaited, is settled.
LEMMA BridgeFrameTakes ==
  ASSUME NEW cs, NEW th, NEW tf, NEW wk, Bridge(cs, th, tf, wk), tf # <<>>,
         NEW now \in Seq(CallRecords), DOMAIN now = DOMAIN cs,
         \A c \in DOMAIN cs : now[c].at = "called" <=> cs[c].at = "called" /\ c # Head(tf).id
  PROVE  Bridge(now, th, Tail(tf), wk)
<1>1. OfCalls(cs, th, tf, wk) /\ tf \in Seq(ToFrameMessages) /\ \A n \in DOMAIN tf : tf[n].id \in DOMAIN cs
  BY DEF Bridge, OfCalls
<1>2. /\ Tail(tf) \in Seq(ToFrameMessages) /\ Head(tf) = tf[1] /\ 1 \in DOMAIN tf
      /\ \A i \in DOMAIN Tail(tf) : i \in Nat /\ i + 1 \in DOMAIN tf /\ Tail(tf)[i] = tf[i + 1]
      /\ \A i \in DOMAIN tf : i \in Nat /\ (i # 1 => i - 1 \in DOMAIN Tail(tf) /\ Tail(tf)[i - 1] = tf[i])
  BY <1>1, Taking
<1>3. OfCalls(now, th, Tail(tf), wk)
  BY <1>1, <1>2 DEF OfCalls
<1>4. ASSUME NEW c \in DOMAIN cs
      PROVE  OnceOf(c, th, Tail(tf), wk) /\ AwaitedOf(c, now[c].at, th, Tail(tf), wk)
  <2>1. OnceOf(c, th, tf, wk) /\ AwaitedOf(c, cs[c].at, th, tf, wk)
    BY DEF Bridge
  <2>2. /\ \A n \in Answering(Tail(tf), c) : n \in Nat /\ n + 1 \in Answering(tf, c)
        /\ \A n \in Answering(tf, c) : n \in Nat /\ (n # 1 => n - 1 \in Answering(Tail(tf), c))
        /\ 1 \in Answering(tf, c) <=> Head(tf).id = c
    BY <1>2 DEF Answering
  <2>3. OnceOf(c, th, Tail(tf), wk)
    <3>1. \A n, k \in Answering(Tail(tf), c) : n = k
      BY <2>1, <2>2 DEF OnceOf
    <3>2. Answering(Tail(tf), c) # {} => Answering(tf, c) # {}
      BY <2>2
    <3> QED
      BY <3>1, <3>2, <2>1 DEF OnceOf
  <2>4. CASE c = Head(tf).id
    <3>1. Answering(tf, c) # {} /\ now[c].at # "called"
      BY <2>2, <2>4
    <3>2. Asking(th, c) = {} /\ c \notin wk
      BY <3>1, <2>1 DEF OnceOf
    <3> QED
      BY <3>1, <3>2, <2>3 DEF AwaitedOf
  <2>5. CASE c # Head(tf).id
    <3>1. Answering(tf, c) # {} => Answering(Tail(tf), c) # {}
      BY <2>2, <2>5
    <3> QED
      BY <3>1, <2>1, <2>3, <2>5 DEF AwaitedOf
  <2> QED
    BY <2>4, <2>5
<1> QED
  BY <1>3, <1>4 DEF Bridge

-----------------------------------------------------------------------------
(* The query and what it shows, step by step. *)

LEMMA Committed ==
  ASSUME input \in Inputs
  PROVE  /\ [input EXCEPT !.applied = input.condition] \in Inputs
         /\ \A v \in Values : [input EXCEPT !.condition = v] \in Inputs /\ [input EXCEPT !.sort = v] \in Inputs
BY DEF Inputs

LEMMA Signed ==
  ASSUME input \in Inputs, NEW p \in Nat
  PROVE  /\ Signature(p) \in Requests /\ Signature(p).page = p
         /\ Asked(input.applied, input.sort, p) \in Requests
         /\ input.applied = input.condition => Asked(input.applied, input.sort, p) = Signature(p)
         /\ \A o \in Nat : Signature(p) = [Signature(o) EXCEPT !.page = p]
BY DEF Inputs, Requests, Signature, Asked

\* A call settled.
LEMMA SettledIs ==
  ASSUME calls \in Seq(CallRecords), NEW id \in DOMAIN calls
  PROVE  LET now == [calls EXCEPT ![id].at = "settled"]
         IN /\ now \in Seq(CallRecords) /\ DOMAIN now = DOMAIN calls /\ Len(now) = Len(calls)
            /\ now[id].at = "settled"
            /\ \A c \in DOMAIN calls : /\ now[c].kind = calls[c].kind /\ now[c].request = calls[c].request
                                       /\ now[c].signature = calls[c].signature
                                       /\ c # id => now[c].at = calls[c].at
<1> DEFINE now == [calls EXCEPT ![id].at = "settled"]
<1>1. DOMAIN calls = 1 .. Len(calls) /\ Len(calls) \in Nat /\ calls \in [1 .. Len(calls) -> CallRecords]
  OBVIOUS
<1>2. [calls[id] EXCEPT !.at = "settled"] \in CallRecords
  BY <1>1 DEF CallRecords, Phases
<1>3. now \in [1 .. Len(calls) -> CallRecords]
  BY <1>1, <1>2
<1>4. now \in Seq(CallRecords) /\ Len(now) = Len(calls)
  BY <1>1, <1>3
<1>5. /\ now[id].at = "settled" /\ now[id].kind = calls[id].kind /\ now[id].request = calls[id].request
      /\ now[id].signature = calls[id].signature
  BY <1>1, <1>2 DEF CallRecords
<1>6. \A c \in DOMAIN calls : c # id => now[c] = calls[c]
  BY <1>1
<1> QED
  BY <1>1, <1>3, <1>4, <1>5, <1>6

\* A run or a page begun: its call is the query's own.
LEMMA BeginKeeps ==
  ASSUME QueryInv, NEW kind \in {"run", "page"}, NEW before \in Seq(CallRecords), NEW cancels, NEW request \in Requests, NEW page \in Nat,
         DOMAIN before = DOMAIN calls, Len(before) = Len(calls),
         \A c \in DOMAIN calls : /\ before[c].kind = calls[c].kind /\ before[c].request = calls[c].request
                                 /\ before[c].signature = calls[c].signature,
         Bridge(before, toHost \o cancels, toFrame, working),
         Begin(kind, before, cancels, request, page),
         input' \in Inputs, apt' \in BOOLEAN,
         kind = "run" => request = Signature(page) /\ page = 1,
         apt' => apt /\ \A c \in DOMAIN calls : before[c].at # "called",
         apt' /\ kind = "page" => request = Signature(page) /\ request = [query.signature EXCEPT !.page = Len(result.pages) + 1]
  PROVE  QueryInv'
<1> DEFINE r == [kind |-> kind, request |-> request, signature |-> Signature(page), at |-> "called"]
<1> DEFINE id == Len(calls) + 1
<1>1. /\ input \in Inputs /\ query \in QueryRecords /\ result \in Results /\ RunsAsk
      /\ query.controller \in DOMAIN calls \cup {0}
      /\ calls \in Seq(CallRecords) /\ toHost \o cancels \in Seq(ToHostMessages)
  BY DEF QueryInv, QueryShape, Bridge, OfCalls
<1>2. Signature(page) \in Requests /\ Signature(page).page = page
  BY <1>1, Signed
<1>3. /\ r \in CallRecords /\ r.at = "called" /\ r.kind = kind /\ r.request = request /\ r.signature = Signature(page)
  BY <1>2 DEF CallRecords, Phases
<1>4. /\ calls' = Append(before, r)
      /\ toHost' = (toHost \o cancels) \o <<[type |-> "call", id |-> id]>>
      /\ query' = [query EXCEPT !.state = "executing", !.page = page, !.controller = id]
      /\ cut' = FALSE /\ result' = result /\ toFrame' = toFrame /\ working' = working
  BY DEF Begin
<1>5. /\ calls' \in Seq(CallRecords) /\ DOMAIN calls' = DOMAIN calls \cup {id} /\ id \notin DOMAIN calls /\ id \in Nat
      /\ \A c \in DOMAIN calls : calls'[c] = before[c]
      /\ calls'[id] = r
  <2>1. /\ Append(before, r) \in Seq(CallRecords) /\ Len(before) \in Nat
        /\ DOMAIN Append(before, r) = DOMAIN before \cup {Len(before) + 1}
        /\ Len(before) + 1 \notin DOMAIN before
        /\ \A i \in DOMAIN before : Append(before, r)[i] = before[i]
        /\ Append(before, r)[Len(before) + 1] = r
    BY <1>3, Appending
  <2> QED
    BY <2>1, <1>4
<1>6. Bridge(calls', toHost', toFrame', working')
  <2>1. [type |-> "call", id |-> id] \in ToHostMessages
    BY <1>5 DEF ToHostMessages
  <2>2. toHost' = Append(toHost \o cancels, [type |-> "call", id |-> id])
    BY <2>1, <1>1, <1>4, AppendingOne
  <2> QED
    BY <2>2, <1>3, <1>4, BridgeBegins
<1> HIDE DEF r, id
<1>7. /\ query' \in QueryRecords /\ query'.state = "executing" /\ query'.controller = id /\ query'.signature = query.signature
  BY <1>1, <1>4, <1>5 DEF QueryRecords
<1>8. QueryShape'
  BY <1>1, <1>4, <1>5, <1>7 DEF QueryShape
<1>9. RunsAsk'
  <2>1. ASSUME NEW c \in DOMAIN calls', calls'[c].kind = "run"
        PROVE  calls'[c].request = calls'[c].signature /\ calls'[c].request.page = 1
    <3>1. CASE c = id
      BY <2>1, <3>1, <1>2, <1>3, <1>5
    <3>2. CASE c # id
      <4>1. /\ c \in DOMAIN calls /\ calls'[c] = before[c] /\ before[c].kind = calls[c].kind
            /\ before[c].request = calls[c].request /\ before[c].signature = calls[c].signature
        BY <3>2, <1>5
      <4>2. calls[c].request = calls[c].signature /\ calls[c].request.page = 1
        BY <4>1, <2>1, <1>1 DEF RunsAsk
      <4> QED
        BY <4>1, <4>2
    <3> QED
      BY <3>1, <3>2
  <2> QED
    BY <2>1 DEF RunsAsk
<1>10. Apt'
  <2>1. ASSUME apt', NEW c \in DOMAIN calls', calls'[c].at = "called"
        PROVE  /\ c = query'.controller
               /\ calls'[c].kind = "page" => /\ calls'[c].request = calls'[c].signature
                                             /\ calls'[c].request = [query'.signature EXCEPT !.page = Len(result'.pages) + 1]
    <3>1. c = id
      BY <2>1, <1>5
    <3> QED
      BY <3>1, <2>1, <1>3, <1>4, <1>5, <1>7
  <2> QED
    BY <2>1 DEF Apt
<1>11. ShownIsOneRun'
  BY <1>4, <1>7 DEF QueryInv, ShownIsOneRun
<1>12. Awaits'
  BY <1>3, <1>5, <1>7 DEF Awaits
<1> QED
  BY <1>6, <1>8, <1>9, <1>10, <1>11, <1>12 DEF QueryInv

LEMMA ExecuteKeeps ==
  ASSUME QueryInv, NEW force \in BOOLEAN, Execute(force)
  PROVE  QueryInv'
<1>1. /\ input \in Inputs /\ query \in QueryRecords /\ query.controller \in DOMAIN calls \cup {0} /\ apt \in BOOLEAN
      /\ calls \in Seq(CallRecords) /\ Bridge(calls, toHost, toFrame, working)
  BY DEF QueryInv, QueryShape, Bridge, OfCalls
<1>2. input' \in Inputs /\ apt' = apt
  BY <1>1, Committed DEF Execute
<1>3. CASE ShouldRun(force)
  <2> DEFINE k == query.controller
  <2>1. k \in Nat
    BY <1>1 DEF QueryRecords
  <2>2. Begin("run", Rejected(k), Cancels(k), Signature(1), 1)
    BY <1>3 DEF Execute
  <2>3. Signature(1) \in Requests
    BY <1>1, Signed
  <2> HIDE DEF k
  <2>4. /\ Rejected(k) \in Seq(CallRecords) /\ DOMAIN Rejected(k) = DOMAIN calls /\ Len(Rejected(k)) = Len(calls)
        /\ \A c \in DOMAIN calls :
              /\ Rejected(k)[c].kind = calls[c].kind /\ Rejected(k)[c].request = calls[c].request
              /\ Rejected(k)[c].signature = calls[c].signature
              /\ Rejected(k)[c].at = IF c = k /\ calls[c].at = "called" THEN "aborted" ELSE calls[c].at
    BY <1>1, RejectedIs
  <2>5. Bridge(Rejected(k), toHost \o Cancels(k), toFrame, working)
    BY <1>1, <2>1, BridgeRejects
  <2>6. apt => \A c \in DOMAIN calls : Rejected(k)[c].at # "called"
    BY <2>4 DEF QueryInv, Apt, k
  <2> QED
    BY <1>1, <1>2, <2>2, <2>3, <2>4, <2>5, <2>6, BeginKeeps
<1>4. CASE ~ShouldRun(force)
  <2>1. UNCHANGED <<query, result, calls, toHost, toFrame, working, cut, apt>>
    BY <1>4 DEF Execute
  <2> QED
    BY <2>1, <1>2 DEF QueryInv, QueryShape, RunsAsk, Apt, ShownIsOneRun, Awaits
<1> QED
  BY <1>3, <1>4

LEMMA FetchMoreKeeps ==
  ASSUME QueryInv, FetchMore
  PROVE  QueryInv'
<1>1. /\ input \in Inputs /\ query \in QueryRecords /\ query.controller \in DOMAIN calls \cup {0} /\ apt \in BOOLEAN
      /\ calls \in Seq(CallRecords) /\ toHost \in Seq(ToHostMessages) /\ Bridge(calls, toHost, toFrame, working)
      /\ query.page \in Nat /\ result.pages \in Seq(Requests) /\ query.signature \in Requests
  BY DEF QueryInv, QueryShape, QueryRecords, Results, Bridge, OfCalls
<1> DEFINE page == query.page + 1
<1> DEFINE request == Asked(input.applied, input.sort, page)
<1>2. /\ Begin("page", calls, <<>>, request, page)
      /\ apt' = (apt /\ UnderWay = {} /\ ~IsDirty /\ input.applied = input.condition)
      /\ input' = input /\ result.pages # <<>>
  BY DEF FetchMore, HasMore
<1>3. page \in Nat
  BY <1>1
<1>4. request \in Requests /\ (input.applied = input.condition => request = Signature(page))
  BY <1>1, <1>3, Signed
<1>5. toHost \o <<>> = toHost
  BY <1>1
<1>6. ASSUME apt' PROVE apt /\ UnderWay = {} /\ ~IsDirty /\ input.applied = input.condition
  BY <1>2, <1>6
<1>7. apt' => \A c \in DOMAIN calls : calls[c].at # "called"
  BY <1>6 DEF UnderWay
<1>8. ASSUME apt' PROVE Signature(page) = [query.signature EXCEPT !.page = Len(result.pages) + 1]
  <2>1. query.signature.page = Len(result.pages) /\ Len(result.pages) # 0
    BY <1>1, <1>2, <1>6, <1>8 DEF QueryInv, ShownIsOneRun
  <2>2. query.signature # Never
    BY <2>1 DEF Never
  <2>3. Signature(query.page) = query.signature
    BY <2>2, <1>6, <1>8 DEF IsDirty
  <2>4. query.page = Len(result.pages)
    BY <2>1, <2>3, <1>1, Signed
  <2>5. Signature(page) = [Signature(query.page) EXCEPT !.page = page]
    BY <1>1, <1>3, Signed
  <2> QED
    BY <2>3, <2>4, <2>5
<1>9. apt' \in BOOLEAN
  BY <1>2
<1> HIDE DEF page, request
<1> QED
  BY <1>1, <1>2, <1>3, <1>4, <1>5, <1>6, <1>7, <1>8, <1>9, BeginKeeps

LEMMA AbortKeeps ==
  ASSUME QueryInv, Abort
  PROVE  QueryInv'
<1> DEFINE k == query.controller
<1>1. /\ query \in QueryRecords /\ k \in Nat /\ calls \in Seq(CallRecords) /\ Bridge(calls, toHost, toFrame, working)
  BY DEF QueryInv, QueryShape, QueryRecords, Bridge, OfCalls
<1>2. /\ calls' = Rejected(k) /\ toHost' = toHost \o Cancels(k) /\ cut' = TRUE
      /\ UNCHANGED <<input, query, result, toFrame, working, apt>>
  BY DEF Abort
<1> HIDE DEF k
<1>3. /\ calls' \in Seq(CallRecords) /\ DOMAIN calls' = DOMAIN calls
      /\ \A c \in DOMAIN calls :
            /\ calls'[c].kind = calls[c].kind /\ calls'[c].request = calls[c].request
            /\ calls'[c].signature = calls[c].signature
            /\ calls'[c].at = "called" => calls[c].at = "called"
  BY <1>1, <1>2, RejectedIs
<1>4. Bridge(calls', toHost', toFrame', working')
  BY <1>1, <1>2, BridgeRejects
<1>5. QueryShape' /\ ShownIsOneRun' /\ Awaits'
  BY <1>2, <1>3 DEF QueryInv, QueryShape, ShownIsOneRun, Awaits
<1>6. RunsAsk'
  BY <1>3 DEF QueryInv, RunsAsk
<1>7. Apt'
  BY <1>2, <1>3 DEF QueryInv, Apt
<1> QED
  BY <1>4, <1>5, <1>6, <1>7 DEF QueryInv

\* What the host does leaves the query as it is.
LEMMA HostKeeps ==
  ASSUME QueryInv, HostReceive \/ \E c \in DOMAIN calls : Answer(c)
  PROVE  QueryInv'
<1>1. UNCHANGED <<input, query, result, calls, cut, apt>>
  BY DEF HostReceive, Answer
<1>2. Bridge(calls, toHost, toFrame, working)
  BY DEF QueryInv
<1>3. Bridge(calls', toHost', toFrame', working')
  <2>1. CASE HostReceive
    BY <2>1, <1>1, <1>2, BridgeHostTakes DEF HostReceive
  <2>2. CASE \E c \in DOMAIN calls : Answer(c)
    BY <2>2, <1>1, <1>2, BridgeAnswers DEF Answer
  <2> QED
    BY <2>1, <2>2
<1> QED
  BY <1>1, <1>3 DEF QueryInv, QueryShape, RunsAsk, Apt, ShownIsOneRun, Awaits

\* An answer received, of a call awaited: what awaited it goes on, and while
\* what is shown is one run's, nothing else is awaited.
LEMMA FrameReceiveKeeps ==
  ASSUME QueryInv, FrameReceive
  PROVE  QueryInv'
<1> DEFINE m == Head(toFrame)
<1> DEFINE id == m.id
<1>1. /\ input \in Inputs /\ query \in QueryRecords /\ result \in Results /\ apt \in BOOLEAN /\ cut \in BOOLEAN
      /\ query.controller \in DOMAIN calls \cup {0} /\ query.controller \in Nat /\ query.page \in Nat
      /\ result.pages \in Seq(Requests) /\ query.signature \in Requests
      /\ calls \in Seq(CallRecords) /\ toFrame \in Seq(ToFrameMessages) /\ Bridge(calls, toHost, toFrame, working)
      /\ \A n \in DOMAIN toFrame : toFrame[n].id \in DOMAIN calls
  BY DEF QueryInv, QueryShape, QueryRecords, Results, Bridge, OfCalls
<1>2. /\ toFrame # <<>> /\ toFrame' = Tail(toFrame) /\ UNCHANGED <<input, toHost, working, cut>>
      /\ \A c \in DOMAIN calls : calls[c].at # "aborted"
  BY DEF FrameReceive
<1>3. m \in ToFrameMessages /\ id \in DOMAIN calls /\ m.ok \in BOOLEAN
  <2>1. m = toFrame[1] /\ 1 \in DOMAIN toFrame
    BY <1>1, <1>2, Taking
  <2>2. m \in ToFrameMessages
    BY <2>1, <1>1
  <2> QED
    BY <2>1, <2>2, <1>1 DEF ToFrameMessages
<1>4. IF calls[id].at = "called"
      THEN /\ calls' = [calls EXCEPT ![id].at = "settled"]
           /\ IF calls[id].kind = "run" THEN RunSettles(id, m.ok) ELSE PageSettles(id, m.ok)
      ELSE UNCHANGED <<query, result, calls, apt>>
  BY DEF FrameReceive
<1>5. \A now \in Seq(CallRecords) :
        DOMAIN now = DOMAIN calls /\ (\A c \in DOMAIN calls : now[c].at = "called" <=> calls[c].at = "called" /\ c # id)
          => Bridge(now, toHost, Tail(toFrame), working)
  BY <1>1, <1>2, BridgeFrameTakes
<1> HIDE DEF m, id
<1>6. CASE calls[id].at # "called"
  <2>1. UNCHANGED <<query, result, calls, apt>>
    BY <1>6, <1>4
  <2>2. Bridge(calls', toHost', toFrame', working')
    BY <2>1, <1>1, <1>2, <1>5, <1>6
  <2> QED
    BY <1>2, <2>1, <2>2 DEF QueryInv, QueryShape, RunsAsk, Apt, ShownIsOneRun, Awaits
<1>7. CASE calls[id].at = "called"
  <2>1. calls' = [calls EXCEPT ![id].at = "settled"]
    BY <1>7, <1>4
  <2>2. /\ calls' \in Seq(CallRecords) /\ DOMAIN calls' = DOMAIN calls /\ calls'[id].at = "settled"
        /\ \A c \in DOMAIN calls : /\ calls'[c].kind = calls[c].kind /\ calls'[c].request = calls[c].request
                                   /\ calls'[c].signature = calls[c].signature
                                   /\ c # id => calls'[c].at = calls[c].at
    BY <2>1, <1>1, <1>3, SettledIs
  <2>3. Bridge(calls', toHost', toFrame', working')
    <3>1. \A c \in DOMAIN calls : calls'[c].at = "called" <=> calls[c].at = "called" /\ c # id
      BY <2>2
    <3> QED
      BY <3>1, <2>2, <1>2, <1>5
  <2>4. RunsAsk'
    BY <2>2 DEF QueryInv, RunsAsk
  <2>5. calls[id].request \in Requests /\ calls[id].signature \in Requests /\ calls[id].kind \in {"run", "page"}
    <3>1. calls[id] \in CallRecords
      BY <1>1, <1>3
    <3> QED
      BY <3>1 DEF CallRecords
  <2>6. apt => id = query.controller
    BY <1>3, <1>7 DEF QueryInv, Apt
  <2>7. apt => \A c \in DOMAIN calls : calls'[c].at # "called"
    BY <2>2, <2>6 DEF QueryInv, Apt
  <2>8. Released(id) \in DOMAIN calls \cup {0} /\ Released(id) \in Nat /\ Released(id) # id
    BY <1>1, <1>3 DEF Released
  <2>9. CASE calls[id].kind = "run"
    <3>0. RunSettles(id, m.ok) /\ calls[id].request = calls[id].signature /\ calls[id].request.page = 1
      BY <2>9, <1>3, <1>4, <1>7 DEF QueryInv, RunsAsk
    <3>1. CASE Superseded(id)
      <4>1. UNCHANGED <<query, result, apt>> /\ query.controller # id
        BY <3>0, <3>1 DEF RunSettles, Superseded
      <4>2. QueryShape' /\ Awaits' /\ ShownIsOneRun'
        BY <4>1, <1>2, <2>2 DEF QueryInv, QueryShape, Awaits, ShownIsOneRun
      <4>3. Apt'
        BY <4>1, <2>2, <2>7 DEF Apt
      <4> QED
        BY <4>2, <4>3, <2>3, <2>4 DEF QueryInv
    <3>2. CASE ~Superseded(id) /\ m.ok
      <4>1. MarkSuccess(id, FALSE) /\ apt' = (apt \/ UnderWay = {id})
        BY <3>0, <3>2 DEF RunSettles
      <4>2. query' = [query EXCEPT !.state = "success", !.signature = calls[id].signature, !.controller = Released(id),
                                   !.runFailed = @ /\ FALSE]
        BY <4>1 DEF MarkSuccess
      <4>3. /\ query' \in QueryRecords /\ query'.state = "success" /\ query'.controller = Released(id)
            /\ query'.signature = calls[id].signature
        BY <4>2, <1>1, <2>5, <2>8 DEF QueryRecords
      <4>4. result' = [pages |-> <<>> \o <<calls[id].request>>, more |-> calls[id].request.page < LastPage]
        BY <4>1 DEF MarkSuccess
      <4>5. result' \in Results /\ result'.pages = <<calls[id].request>>
        BY <4>4, <2>5 DEF Results
      <4>6. apt' => \A c \in DOMAIN calls : calls'[c].at # "called"
        BY <4>1, <2>2, <2>7 DEF UnderWay
      <4>7. QueryShape' /\ Awaits'
        BY <4>1, <4>3, <4>5, <1>1, <1>2, <2>2, <2>8 DEF QueryShape, Awaits
      <4>8. ShownIsOneRun'
        <5>1. calls[id].request = [calls[id].signature EXCEPT !.page = 1]
          BY <3>0, <2>5 DEF Requests
        <5> QED
          BY <5>1, <4>3, <4>5, <3>0 DEF ShownIsOneRun
      <4>9. Apt'
        BY <4>6, <2>2 DEF Apt
      <4> QED
        BY <4>7, <4>8, <4>9, <2>3, <2>4 DEF QueryInv
    <3>3. CASE ~Superseded(id) /\ ~m.ok
      <4>1. query' = [query EXCEPT !.state = "error", !.runFailed = TRUE, !.controller = 0] /\ UNCHANGED <<result, apt>>
        BY <3>0, <3>3 DEF RunSettles
      <4>2. query' \in QueryRecords /\ query'.state = "error" /\ query'.controller = 0 /\ query'.signature = query.signature
        BY <4>1, <1>1 DEF QueryRecords
      <4>3. QueryShape' /\ Awaits' /\ ShownIsOneRun'
        BY <4>1, <4>2, <1>1, <1>2, <2>2 DEF QueryInv, QueryShape, Awaits, ShownIsOneRun
      <4>4. Apt'
        BY <4>1, <2>2, <2>7 DEF Apt
      <4> QED
        BY <4>3, <4>4, <2>3, <2>4 DEF QueryInv
    <3> QED
      BY <3>1, <3>2, <3>3
  <2>10. CASE calls[id].kind = "page"
    <3>0. PageSettles(id, m.ok)
      BY <2>10, <1>4, <1>7
    <3>1. CASE m.ok
      <4>1. MarkSuccess(id, TRUE) /\ apt' = apt
        BY <3>0, <3>1 DEF PageSettles
      <4>2. query' = [query EXCEPT !.state = "success", !.signature = calls[id].signature, !.controller = Released(id),
                                   !.runFailed = @ /\ TRUE]
        BY <4>1 DEF MarkSuccess
      <4>3. /\ query' \in QueryRecords /\ query'.state = "success" /\ query'.controller = Released(id)
            /\ query'.signature = calls[id].signature
        BY <4>2, <1>1, <2>5, <2>8 DEF QueryRecords
      <4>4. result' = [pages |-> result.pages \o <<calls[id].request>>, more |-> calls[id].request.page < LastPage]
        BY <4>1 DEF MarkSuccess
      <4>5. result' \in Results /\ result'.pages = Append(result.pages, calls[id].request)
        BY <4>4, <1>1, <2>5 DEF Results
      <4>6. QueryShape' /\ Awaits'
        BY <4>1, <4>3, <4>5, <1>1, <1>2, <2>2, <2>8 DEF QueryShape, Awaits
      <4>7. Apt'
        BY <4>1, <2>2, <2>7 DEF Apt
      <4>8. ASSUME apt PROVE ShownIsOneRun'
        <5>1. calls[id].request = calls[id].signature /\ calls[id].signature = [query.signature EXCEPT !.page = Len(result.pages) + 1]
          BY <4>8, <2>10, <1>3, <1>7 DEF QueryInv, Apt
        <5>2. /\ \A n \in DOMAIN result.pages : result.pages[n] = [query.signature EXCEPT !.page = n]
              /\ query.signature.page = Len(result.pages)
          BY <4>8 DEF QueryInv, ShownIsOneRun
        <5>3. Len(result.pages) \in Nat
          BY <1>1
        <5>4. /\ Len(result'.pages) = Len(result.pages) + 1
              /\ DOMAIN result'.pages = DOMAIN result.pages \cup {Len(result.pages) + 1}
              /\ \A n \in DOMAIN result.pages : result'.pages[n] = result.pages[n]
              /\ result'.pages[Len(result.pages) + 1] = calls[id].request
          BY <4>5, <1>1, <2>5, Appending
        <5>5. query'.signature.page = Len(result'.pages)
          BY <5>1, <5>3, <5>4, <4>3, <1>1 DEF Requests
        <5>6. \A n : [query'.signature EXCEPT !.page = n] = [query.signature EXCEPT !.page = n]
          BY <5>1, <4>3, <1>1 DEF Requests
        <5>7. ASSUME NEW n \in DOMAIN result'.pages PROVE result'.pages[n] = [query'.signature EXCEPT !.page = n]
          <6>1. CASE n \in DOMAIN result.pages
            BY <6>1, <5>2, <5>4, <5>6
          <6>2. CASE n = Len(result.pages) + 1
            BY <6>2, <5>1, <5>4, <5>6
          <6> QED
            BY <6>1, <6>2, <5>4
        <5> QED
          BY <5>5, <5>7 DEF ShownIsOneRun
      <4>9. ShownIsOneRun'
        BY <4>1, <4>8 DEF ShownIsOneRun
      <4> QED
        BY <4>6, <4>7, <4>9, <2>3, <2>4 DEF QueryInv
    <3>2. CASE ~m.ok
      <4>1. /\ query' = [query EXCEPT !.state = "error", !.page = Rewound(query.page), !.controller = Released(id)]
            /\ UNCHANGED <<result, apt>>
        BY <3>0, <3>2 DEF PageSettles
      <4>2. Rewound(query.page) \in Nat
        BY <1>1 DEF Rewound
      <4>3. /\ query' \in QueryRecords /\ query'.state = "error" /\ query'.controller = Released(id)
            /\ query'.signature = query.signature
        BY <4>1, <4>2, <1>1, <2>8 DEF QueryRecords
      <4>4. QueryShape' /\ Awaits' /\ ShownIsOneRun'
        BY <4>1, <4>3, <1>1, <1>2, <2>2, <2>8 DEF QueryInv, QueryShape, Awaits, ShownIsOneRun
      <4>5. Apt'
        BY <4>1, <2>2, <2>7 DEF Apt
      <4> QED
        BY <4>4, <4>5, <2>3, <2>4 DEF QueryInv
    <3> QED
      BY <3>1, <3>2
  <2> QED
    BY <2>5, <2>9, <2>10
<1> QED
  BY <1>6, <1>7

LEMMA ResumeKeeps ==
  ASSUME QueryInv, NEW id \in DOMAIN calls, Resume(id)
  PROVE  QueryInv'
<1>1. /\ query \in QueryRecords /\ query.controller \in DOMAIN calls \cup {0} /\ query.controller \in Nat /\ query.page \in Nat
      /\ calls \in Seq(CallRecords) /\ Bridge(calls, toHost, toFrame, working) /\ id \in Nat
  BY DEF QueryInv, QueryShape, QueryRecords, Bridge, OfCalls
<1> DEFINE page == IF calls[id].kind = "page" THEN Rewound(query.page) ELSE query.page
<1>2. /\ calls[id].at = "aborted" /\ calls' = [calls EXCEPT ![id].at = "settled"]
      /\ query' = [query EXCEPT !.page = page, !.controller = Released(id)]
      /\ UNCHANGED <<input, result, toHost, toFrame, working, cut, apt>>
  BY DEF Resume
<1>3. page \in Nat
  BY <1>1 DEF Rewound
<1>4. Released(id) \in DOMAIN calls \cup {0} /\ Released(id) \in Nat /\ (query.controller # id => Released(id) = query.controller)
  BY <1>1 DEF Released
<1> HIDE DEF page
<1>5. /\ calls' \in Seq(CallRecords) /\ DOMAIN calls' = DOMAIN calls /\ calls'[id].at = "settled"
      /\ \A c \in DOMAIN calls : /\ calls'[c].kind = calls[c].kind /\ calls'[c].request = calls[c].request
                                 /\ calls'[c].signature = calls[c].signature
                                 /\ c # id => calls'[c].at = calls[c].at
  BY <1>1, <1>2, SettledIs
<1>6. query' \in QueryRecords /\ query'.state = query.state /\ query'.controller = Released(id) /\ query'.signature = query.signature
  BY <1>1, <1>2, <1>3, <1>4 DEF QueryRecords
<1>7. Bridge(calls', toHost', toFrame', working')
  <2>1. \A c \in DOMAIN calls : calls'[c].at = "called" <=> calls[c].at = "called"
    BY <1>2, <1>5
  <2> QED
    BY <2>1, <1>1, <1>2, <1>5, BridgeSettles
<1>8. QueryShape' /\ ShownIsOneRun'
  BY <1>2, <1>4, <1>5, <1>6 DEF QueryInv, QueryShape, ShownIsOneRun
<1>9. Awaits'
  BY <1>2, <1>4, <1>5, <1>6 DEF QueryInv, Awaits
<1>10. RunsAsk'
  BY <1>5 DEF QueryInv, RunsAsk
<1>11. Apt'
  <2>1. ASSUME apt, NEW c \in DOMAIN calls, calls'[c].at = "called"
        PROVE  /\ c = query'.controller
               /\ calls'[c].kind = "page" => /\ calls'[c].request = calls'[c].signature
                                             /\ calls'[c].request = [query'.signature EXCEPT !.page = Len(result'.pages) + 1]
    <3>1. c # id /\ calls[c].at = "called"
      BY <2>1, <1>5
    <3> QED
      BY <3>1, <2>1, <1>2, <1>4, <1>5, <1>6 DEF QueryInv, Apt
  <2> QED
    BY <2>1, <1>2, <1>5 DEF Apt
<1> QED
  BY <1>7, <1>8, <1>9, <1>10, <1>11 DEF QueryInv

-----------------------------------------------------------------------------
LEMMA QueryInitially == AppQueryInit => QueryInv
<1> SUFFICES ASSUME AppQueryInit PROVE QueryInv
  OBVIOUS
<1>1. calls = <<>> /\ toHost = <<>> /\ toFrame = <<>> /\ working = {} /\ DOMAIN calls = {}
  BY DEF AppQueryInit
<1>2. Never \in Requests /\ Unset \in Values
  BY AppQueryConstants DEF Never, Requests
<1>3. QueryShape
  <2>1. input \in Inputs
    BY <1>2 DEF AppQueryInit, Inputs
  <2>2. query \in QueryRecords
    BY <1>2 DEF AppQueryInit, QueryRecords
  <2>3. result \in Results /\ query.controller = 0 /\ cut = FALSE /\ apt = TRUE
    BY DEF AppQueryInit, Results
  <2> QED
    BY <2>1, <2>2, <2>3 DEF QueryShape
<1>4. Bridge(calls, toHost, toFrame, working)
  BY <1>1 DEF Bridge, OfCalls
<1>5. RunsAsk /\ Apt /\ Awaits
  BY <1>1 DEF AppQueryInit, RunsAsk, Apt, Awaits
<1>6. ShownIsOneRun
  BY DEF AppQueryInit, ShownIsOneRun, Never
<1> QED
  BY <1>3, <1>4, <1>5, <1>6 DEF QueryInv

LEMMA QuerySteps == QueryInv /\ [AppQueryNext]_appQueryVars => QueryInv'
<1> SUFFICES ASSUME QueryInv, [AppQueryNext]_appQueryVars PROVE QueryInv'
  OBVIOUS
<1>1. CASE SetCondition \/ SetSort \/ UNCHANGED appQueryVars
  <2>1. UNCHANGED <<query, result, calls, toHost, toFrame, working, cut, apt>>
    BY <1>1 DEF SetCondition, SetSort, appQueryVars
  <2>2. input' \in Inputs
    BY <1>1, Committed DEF SetCondition, SetSort, appQueryVars, QueryInv, QueryShape
  <2> QED
    BY <2>1, <2>2 DEF QueryInv, QueryShape, RunsAsk, Apt, ShownIsOneRun, Awaits
<1>2. CASE \E force \in BOOLEAN : Execute(force)
  BY <1>2, ExecuteKeeps
<1>3. CASE FetchMore
  BY <1>3, FetchMoreKeeps
<1>4. CASE Abort
  BY <1>4, AbortKeeps
<1>5. CASE HostReceive \/ \E c \in DOMAIN calls : Answer(c)
  BY <1>5, HostKeeps
<1>6. CASE FrameReceive
  BY <1>6, FrameReceiveKeeps
<1>7. CASE \E c \in DOMAIN calls : Resume(c)
  BY <1>7, ResumeKeeps
<1> QED
  BY <1>1, <1>2, <1>3, <1>4, <1>5, <1>6, <1>7 DEF AppQueryNext

\* A call's places are at most one, so it is on its way once.
LEMMA QuerySays == QueryInv => ShownAsRan
<1> SUFFICES ASSUME QueryInv PROVE ShownAsRan
  OBVIOUS
<1>1. ShownIsOneRun /\ ExecutingHasCall
  BY DEF QueryInv, Awaits, ExecutingHasCall
<1>2. OfCalls(calls, toHost, toFrame, working) /\ toHost \in Seq(ToHostMessages)
  BY DEF QueryInv, Bridge, OfCalls
<1>3. ASSUME NEW c
      PROVE  /\ {n \in DOMAIN toHost : toHost[n] = [type |-> "call", id |-> c]} = Asking(toHost, c)
             /\ \A n \in Cancelling(toHost, c) : n \in DOMAIN toHost /\ toHost[n] = [type |-> "cancel", id |-> c]
             /\ {n \in DOMAIN toFrame : toFrame[n].id = c} = Answering(toFrame, c)
  <2>1. \A n \in DOMAIN toHost : toHost[n] \in [type : {"call", "cancel"}, id : Nat]
    <3>1. \A n \in DOMAIN toHost : toHost[n] \in ToHostMessages
      BY <1>2
    <3> QED
      BY <3>1 DEF ToHostMessages
  <2> QED
    BY <2>1 DEF Asking, Cancelling, Answering
<1>4. ASSUME NEW c \in DOMAIN calls
      PROVE  IF calls[c].at = "called" THEN OnItsWay(c) = 1
             ELSE c \in working => \E n \in DOMAIN toHost : toHost[n] = [type |-> "cancel", id |-> c]
  <2>1. OnceOf(c, toHost, toFrame, working) /\ AwaitedOf(c, calls[c].at, toHost, toFrame, working)
    BY DEF QueryInv, Bridge
  <2>2. CASE calls[c].at # "called"
    BY <2>1, <2>2, <1>3 DEF AwaitedOf
  <2>3. CASE calls[c].at = "called"
    <3>1. \A S : (\A n, k \in S : n = k) => IF S = {} THEN Cardinality(S) = 0 ELSE Cardinality(S) = 1
      <4>1. TAKE S
      <4>2. ASSUME \A n, k \in S : n = k, S # {} PROVE Cardinality(S) = 1
        <5>1. PICK n \in S : S = {n}
          BY <4>2
        <5> QED
          BY <5>1, FS_Singleton
      <4> QED
        BY <4>2, FS_EmptySet
    <3>2. OnItsWay(c) = Cardinality(Asking(toHost, c)) + (IF c \in working THEN 1 ELSE 0) + Cardinality(Answering(toFrame, c))
      BY <1>3 DEF OnItsWay
    <3>3. Asking(toHost, c) # {} \/ c \in working \/ Answering(toFrame, c) # {}
      BY <2>1, <2>3 DEF AwaitedOf
    <3>4. /\ IF Asking(toHost, c) = {} THEN Cardinality(Asking(toHost, c)) = 0 ELSE Cardinality(Asking(toHost, c)) = 1
          /\ IF Answering(toFrame, c) = {} THEN Cardinality(Answering(toFrame, c)) = 0 ELSE Cardinality(Answering(toFrame, c)) = 1
      BY <3>1, <2>1 DEF OnceOf
    <3>5. /\ Asking(toHost, c) # {} => c \notin working /\ Answering(toFrame, c) = {}
          /\ c \in working => Answering(toFrame, c) = {}
      BY <2>1 DEF OnceOf
    <3> QED
      BY <3>2, <3>3, <3>4, <3>5, <2>3
  <2> QED
    BY <2>2, <2>3
<1> QED
  BY <1>1, <1>4 DEF ShownAsRan, CallsAreAnswered

\* A query shows the pages of one run, of the input it says it last ran with, in
\* their order, as long as a page was asked for only of what is shown; one that
\* executes has a call that will end it, or was aborted; and every call awaited
\* is on its way once and only once, one given up told to the host while the host
\* still works at it: for every sequence of what the reader does, and of what
\* the backend answers and when.
THEOREM QueryShowsAsRan == AppQuerySpec => []ShownAsRan
<1>1. AppQuerySpec => []QueryInv
  BY QueryInitially, QuerySteps, PTL DEF AppQuerySpec
<1> QED
  BY <1>1, QuerySays, PTL
=============================================================================
