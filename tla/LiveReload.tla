----------------------------- MODULE LiveReload -----------------------------
(***************************************************************************)
(* Live reload of a served repo's Data Apps, internal/appserve: the event  *)
(* streams of the pages open in browsers (events.go), the watcher that     *)
(* runs while there is one, and its debouncer (watch.go).  The repo has a  *)
(* directory the watch starts from and one of AML files that may be        *)
(* created later.  A change has a number, so that an event, its type and   *)
(* the last change it stands for, is told from an earlier one of its type. *)
(* A watcher started anew has a debouncer of its own: the two are one      *)
(* here, as both publish to the streams there are.  That fsnotify drops    *)
(* events when its queue is full is left out.                              *)
(***************************************************************************)
EXTENDS Integers, Sequences, FiniteSets

CONSTANTS
  Streams,    \* the event streams, each a request to /appserve/events
  Observed,   \* the one among them that is followed: any
  Buffer,     \* events a stream's channel holds: 16
  MaxChanges  \* bound: the changes made to the repo

ASSUME LiveConstants == IsFiniteSet(Streams) /\ Observed \in Streams /\ Buffer \in Nat \ {0} /\ MaxChanges \in Nat

VARIABLES
  stream,   \* by stream: "idle", "counted", "open", "leaving", "ended"
  client,   \* by stream: "reads", "stalls", "gone"
  chan,     \* by stream: its channel's events
  shut,     \* the channels closed
  subs,     \* broadcaster.subs
  counted,  \* live.streams
  watching, \* live.stop is set: a watcher runs
  dirs,     \* the directories there are
  watched,  \* those the watcher watches
  raw,      \* the file system's events it has not read; type "mkdir", a directory created
  pending,  \* debouncer: the types to publish, each with its last change; 0 for none
  armed,    \* debouncer: its timer runs
  flying,   \* the events of flush not published yet
  closed,   \* Close has run
  crashed,  \* a send on a closed channel: the process panics
  changes,  \* the changes so far
  due,      \* history: the changes seen that Observed is to be sent
  late      \* history: the streams subscribed after Close

clients == <<stream, client, chan, shut, subs>>
watcher == <<counted, watching, watched, raw>>
debounce == <<pending, armed, flying>>
repo == <<dirs, changes>>
liveVars == <<clients, watcher, debounce, repo, closed, crashed, due, late>>

Types == {"apps", "aml"}
Upto(e) == {c \in [type : {e.type}, n : 1 .. MaxChanges] : c.n <= e.n}

LiveInit ==
  /\ stream = [s \in Streams |-> "idle"] /\ client = [s \in Streams |-> "reads"]
  /\ chan = [s \in Streams |-> <<>>] /\ shut = {} /\ subs = {}
  /\ counted = 0 /\ watching = FALSE /\ watched = {} /\ raw = {}
  /\ dirs = {"root"}
  /\ pending = [t \in Types |-> 0] /\ armed = FALSE /\ flying = <<>>
  /\ closed = FALSE /\ crashed = FALSE /\ changes = 0
  /\ due = {} /\ late = {}

-----------------------------------------------------------------------------
(* A stream: listening, broadcaster.serve, unlistening. *)

\* The first stream starts the watch, which may fail; one that failed is not
\* tried again while there are streams.
Listen(s) ==
  /\ stream[s] = "idle" /\ stream' = [stream EXCEPT ![s] = "counted"] /\ counted' = counted + 1
  /\ \/ counted = 0 /\ watching' = TRUE /\ watched' = dirs /\ raw' = {}
     \/ UNCHANGED <<watching, watched, raw>>
  /\ UNCHANGED <<client, chan, shut, subs, debounce, repo, closed, crashed, due, late>>

Subscribe(s) ==
  /\ stream[s] = "counted" /\ stream' = [stream EXCEPT ![s] = "open"] /\ subs' = subs \cup {s}
  /\ late' = IF closed THEN late \cup {s} ELSE late
  /\ UNCHANGED <<client, chan, shut, watcher, debounce, repo, closed, crashed, due>>

Send(s) ==
  /\ stream[s] = "open" /\ chan[s] # <<>> /\ client[s] = "reads"
  /\ chan' = [chan EXCEPT ![s] = Tail(@)] /\ due' = IF s = Observed THEN due \ Upto(Head(chan[s])) ELSE due
  /\ UNCHANGED <<stream, client, shut, subs, watcher, debounce, repo, closed, crashed, late>>

\* The client is gone, or its channel is closed and empty.
Leave(s) ==
  /\ client[s] = "gone" \/ (s \in shut /\ chan[s] = <<>>)
  /\ stream[s] \in {"counted", "open"} /\ stream' = [stream EXCEPT ![s] = "leaving"]
  /\ subs' = subs \ {s} /\ due' = IF s = Observed THEN {} ELSE due
  /\ UNCHANGED <<client, chan, shut, watcher, debounce, repo, closed, crashed, late>>

\* The last stream to go stops the watcher.
Unlisten(s) ==
  /\ stream[s] = "leaving" /\ stream' = [stream EXCEPT ![s] = "ended"] /\ counted' = counted - 1
  /\ IF counted = 1 THEN watching' = FALSE /\ watched' = {} /\ raw' = {} ELSE UNCHANGED <<watching, watched, raw>>
  /\ UNCHANGED <<client, chan, shut, subs, debounce, repo, closed, crashed, due, late>>

\* The page's browser: it may stop reading, and go.
Turn(s) ==
  /\ stream[s] \in {"counted", "open"}
  /\ \E c \in {"stalls", "gone"} \ {client[s]} : client[s] # "gone" /\ client' = [client EXCEPT ![s] = c]
  /\ UNCHANGED <<stream, chan, shut, subs, watcher, debounce, repo, closed, crashed, due, late>>

-----------------------------------------------------------------------------
(* The repo changes, and the watcher sees it. *)

\* A file of type t changes in d.  Where the watcher looks, each open stream is
\* to be sent that; it does not look where a directory created is not added yet.
Change(d, t) ==
  /\ changes < MaxChanges /\ changes' = changes + 1 /\ d \in dirs /\ (d = "models" => t = "aml")
  /\ LET c == [type |-> t, n |-> changes'] IN
       /\ raw' = IF d \in watched THEN raw \cup {c} ELSE raw
       /\ due' = IF d \in watched /\ stream[Observed] = "open" THEN due \cup {c} ELSE due
  /\ UNCHANGED <<clients, counted, watching, watched, debounce, dirs, closed, crashed, late>>

Mkdir ==
  /\ "models" \notin dirs /\ dirs' = dirs \cup {"models"}
  /\ raw' = IF watching THEN raw \cup {[type |-> "mkdir", n |-> 0]} ELSE raw
  /\ UNCHANGED <<clients, counted, watching, watched, debounce, changes, closed, crashed, due, late>>

\* debouncer.add: the timer starts over.
Add(e) == pending' = [pending EXCEPT ![e.type] = IF e.n > @ THEN e.n ELSE @] /\ armed' = TRUE /\ UNCHANGED flying

\* One event read: a directory created is watched from now on; what classify
\* says of a path under apps/ or of an .aml file goes to the debouncer.
Watch ==
  \E e \in raw :
    /\ raw' = raw \ {e}
    /\ IF e.type = "mkdir" THEN watched' = watched \cup {"models"} /\ UNCHANGED debounce
                      ELSE Add(e) /\ UNCHANGED watched
    /\ UNCHANGED <<clients, counted, watching, repo, closed, crashed, due, late>>

\* debouncer.flush takes what changed, an event of each type to be published.
Folded(p) == SelectSeq(<<"apps", "aml">>, LAMBDA t : p[t] > 0)
Flush ==
  /\ armed /\ armed' = FALSE /\ pending' = [t \in Types |-> 0]
  /\ flying' = flying \o [i \in 1 .. Len(Folded(pending)) |-> [type |-> Folded(pending)[i], n |-> pending[Folded(pending)[i]]]]
  /\ UNCHANGED <<clients, watcher, repo, closed, crashed, due, late>>

\* broadcaster.publish: a stream that is behind misses the event.
Publish ==
  /\ flying # <<>> /\ flying' = Tail(flying)
  /\ crashed' = (crashed \/ subs \cap shut # {})
  /\ chan' = [s \in Streams |-> IF s \in subs \ shut /\ Len(chan[s]) < Buffer THEN Append(chan[s], Head(flying)) ELSE chan[s]]
  /\ due' = IF Observed \in subs /\ Len(chan[Observed]) >= Buffer THEN due \ Upto(Head(flying)) ELSE due
  /\ UNCHANGED <<stream, client, shut, subs, watcher, pending, armed, repo, closed, late>>

Forgets == subs
\* Close, as the server shuts down: broadcaster.closeAll.
ShutsNone == {} \* mutant: they are only forgotten
Shuts == subs
Close ==
  /\ ~closed /\ closed' = TRUE /\ shut' = shut \cup Shuts /\ subs' = subs \ Forgets
  /\ UNCHANGED <<stream, client, chan, watcher, debounce, repo, crashed, due, late>>

LiveNext ==
  \/ \E s \in Streams : Listen(s) \/ Subscribe(s) \/ Send(s) \/ Leave(s) \/ Unlisten(s) \/ Turn(s)
  \/ \E d \in {"root", "models"}, t \in Types : Change(d, t)
  \/ Mkdir \/ Watch \/ Flush \/ Publish \/ Close

\* The server's goroutines go on: the watcher and the timer's, and each request's.
Notices == Watch \/ Flush \/ Publish
Serves(s) == Subscribe(s) \/ Send(s) \/ Leave(s) \/ Unlisten(s)
LiveSpec ==
  LiveInit /\ [][LiveNext]_liveVars /\ WF_liveVars(Notices) /\ \A s \in Streams : WF_liveVars(Serves(s))

-----------------------------------------------------------------------------
\* A change the watcher looks at reaches every page open then, whatever else
\* changes meanwhile: it is sent, or the page's stream is behind, or ends.
Owed(n) == \E c \in due : c.n = n
ChangeIsSent == \A n \in 1 .. MaxChanges : Owed(n) ~> (~Owed(n) \/ client[Observed] # "reads")

\* Close ends a stream, any but those that hold the shutdown until its deadline
\* or their client goes: those that subscribe after it, while the server stops
\* accepting, and those whose client stalls, as what is written to it has no
\* deadline and the closed channel is not read meanwhile (events.go:74).
CloseEnds ==
  (closed /\ stream[Observed] # "idle") ~> (stream[Observed] = "ended" \/ client[Observed] = "stalls" \/ Observed \in late)

\* No event is published to a stream whose channel Close has closed, as the
\* debouncer's timer may try, and no watcher outlives the last stream.
NeverSendsOnClosed == ~crashed /\ (watching => counted > 0)

\* A stream has its changes, then its end, and never a send after it.
StreamsAreServed == ChangeIsSent /\ CloseEnds /\ []NeverSendsOnClosed

=============================================================================
