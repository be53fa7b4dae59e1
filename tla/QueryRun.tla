------------------------------ MODULE QueryRun ------------------------------
(***************************************************************************)
(* One query of the API, from its call to its answer: internal/command/    *)
(* query (page, stream and export), internal/query's bounds, the line      *)
(* protocol of internal/sidecar/canalquery, and the NDJSON stream of       *)
(* shared/apikit, which the run and its pinger both write to.  canal-query *)
(* may answer any line at any time; the client may leave or stop reading.  *)
(* A row is its place in the query's result.                               *)
(***************************************************************************)
EXTENDS Integers, Sequences, FiniteSets

CONSTANTS
  MaxPageSize, \* query/run.go: the rows of a page without page_size
  HostRows,    \* the values of Limits.MaxResultRows to try
  PageBytes,   \* Limits.MaxPageBytes
  BatchRows,   \* batchRows
  BatchBytes,  \* batchBytes
  RowSizes,    \* the sizes a row may have
  MaxResult,   \* bound: the rows a query has
  Limits,      \* the limit: directives to try
  MaxStatus    \* bound: the status events and pings of a stream

NoLimit == -1

ASSUME QueryConstants ==
  /\ MaxPageSize \in Nat \ {0} /\ HostRows \subseteq Nat \ {0} /\ Limits \subseteq Nat
  /\ {PageBytes, BatchRows, BatchBytes, MaxResult, MaxStatus} \subseteq Nat /\ RowSizes \subseteq Nat

VARIABLES
  ask,    \* the call's input and the host's maximum
  result, \* the sizes of the rows the compiled query has
  pc,     \* where the call is
  ctx,    \* the call's context: "live", "gone" (the client left), "late" (the op's timeout)
  conn,   \* the connection to the client: "up", "stuck" (it does not read), "down"
  out,    \* the events written to it
  canal,  \* what was read of canal-query's answer: [headed, ended, read]
  kept,   \* page: Records; export: the file's rows
  more,   \* page: HasMore
  bytes,  \* page and stream: size
  batch,  \* stream: batch
  told,   \* the QueryObserver: what it was told
  err,    \* stream: the error Stream has returned
  answer  \* what the call was answered

vars == <<ask, result, pc, ctx, conn, out, canal, kept, more, bytes, batch, told, err, answer>>

Asks == { a \in [form : {"page", "stream", "export"}, size : 0 .. MaxPageSize,
                 limit : Limits \cup {NoLimit}, max : HostRows] :
            /\ a.size > 0 => a.limit = NoLimit
            /\ a.form = "export" => a.size = 0 }

AtMost(a, b) == IF a <= b THEN a ELSE b
First(n) == [i \in 1 .. n |-> i]

-----------------------------------------------------------------------------
(* Bounds. *)

WithinPage == ask.size = 0 /\ ask.limit # NoLimit /\ ask.limit <= MaxPageSize
Keep == IF ask.size > 0 THEN ask.size ELSE IF WithinPage THEN ask.limit ELSE MaxPageSize

Truncate ==
  CASE ask.form # "page" -> ask.limit
    [] ask.size > 0 -> NoLimit
    [] WithinPage -> ask.limit
    [] OTHER -> MaxPageSize + 1

Capped == ask.form # "export" /\ ~(Truncate # NoLimit /\ Truncate <= ask.max)
RowCap == IF Capped THEN ask.max + 1 ELSE Truncate

\* The rows canal-query has to send, having been asked for RowCap of them.
ToSend == IF RowCap = NoLimit THEN Len(result) ELSE AtMost(RowCap, Len(result))

-----------------------------------------------------------------------------
Init ==
  /\ ask \in Asks
  /\ result \in UNION {[1 .. n -> RowSizes] : n \in 0 .. MaxResult}
  /\ ask.size > 0 => Len(result) <= ask.size
  /\ pc = "handle" /\ ctx = "live" /\ conn = "up" /\ out = <<>>
  /\ canal = [headed |-> FALSE, ended |-> FALSE, read |-> 0]
  /\ kept = <<>> /\ more = FALSE /\ bytes = 0 /\ batch = <<>>
  /\ told = [compiled |-> 0, finished |-> 0, ok |-> FALSE, rows |-> 0]
  /\ err = FALSE /\ answer = "none"

IsStream == ask.form = "stream"
Begun == out # <<>> \/ conn = "broken"

Event(type, rows) == [type |-> type, rows |-> rows]

\* eventWriter.write: written, or failed, which breaks the connection.
Written(e) == conn \in {"up", "stuck"} /\ out' = Append(out, e) /\ UNCHANGED conn
Unwritten == conn # "up" /\ conn' = "broken" /\ UNCHANGED out

\* The stream writes e and goes on to next; or its run ends with the write's error.
Emits(e, next, fails) ==
  \/ ~IsStream /\ next /\ UNCHANGED <<conn, out>>
  \/ IsStream /\ Written(e) /\ next
  \/ IsStream /\ Unwritten /\ fails

\* Bug: the observer is told of the queries that succeeded.
FinishedIfOk(ok) ==
  told' = IF told.compiled = 0 \/ ~ok THEN told
          ELSE [told EXCEPT !.finished = @ + 1, !.ok = ok, !.rows = canal.read]

\* The run ends: the observer is told of it, if it was told of its start.
Finished(ok) ==
  told' = IF told.compiled = 0 THEN told
          ELSE [told EXCEPT !.finished = @ + 1, !.ok = ok, !.rows = IF Capped THEN AtMost(canal.read, ask.max) ELSE canal.read]

Failed == Finished(FALSE) /\ err' = TRUE /\ pc' = "stop" /\ UNCHANGED <<canal, kept, more, bytes, batch>>
Quietly == Failed /\ UNCHANGED <<conn, out>>

-----------------------------------------------------------------------------
(* The op: apikit's answer, then execute. *)

Refuse ==
  /\ pc = "handle" /\ pc' = "done" /\ answer' = "refused"
  /\ UNCHANGED <<ask, result, ctx, conn, out, canal, kept, more, bytes, batch, told, err>>

\* The executor has taken the run: a stream starts.  One whose start cannot be
\* written is executed still, cancelled.
Start ==
  /\ pc = "handle" /\ pc' = "run"
  /\ \/ Emits(Event("start", <<>>), UNCHANGED ctx, FALSE)
     \/ IsStream /\ Unwritten /\ ctx' = "gone"
  /\ UNCHANGED <<ask, result, canal, kept, more, bytes, batch, told, err, answer>>

Stays == UNCHANGED <<canal, kept, more, bytes, batch, told, err>>

\* execute reports its first phase.
Begin ==
  /\ pc = "run"
  /\ Emits(Event("status", <<>>), pc' = "compile" /\ Stays, Failed)
  /\ UNCHANGED <<ask, result, ctx, answer>>

CompileFails == pc = "compile" /\ Quietly /\ UNCHANGED <<ask, result, ctx, answer>>

\* compiled is sent, and the observer told.
Compile ==
  /\ pc = "compile" /\ ctx = "live"
  /\ Emits(Event("compiled", <<>>),
           /\ pc' = "canal" /\ told' = [told EXCEPT !.compiled = @ + 1]
           /\ UNCHANGED <<canal, kept, more, bytes, batch, err>>,
           Failed)
  /\ UNCHANGED <<ask, result, ctx, answer>>

-----------------------------------------------------------------------------
(* Client.Stream: each line of canal-query's answer. *)

Reading == pc = "canal" /\ ctx = "live" /\ UNCHANGED <<ask, result, ctx, answer>>

\* An error in the trailer, a line out of its place or unreadable, a connection
\* that breaks; and a context that has ended.
AnswerFails == pc = "canal" /\ Quietly /\ UNCHANGED <<ask, result, ctx, answer>>

Progress ==
  /\ Reading /\ ~canal.ended /\ Cardinality({i \in DOMAIN out : out[i].type = "status"}) < MaxStatus
  /\ Emits(Event("status", <<>>), Stays /\ UNCHANGED pc, Failed)

Header ==
  /\ Reading /\ ~canal.headed /\ ~canal.ended
  /\ Emits(Event("header", <<>>),
           canal' = [canal EXCEPT !.headed = TRUE] /\ UNCHANGED <<pc, kept, more, bytes, batch, told, err>>,
           Failed)

Next1 == canal.read + 1

\* A row that takes the page past its bytes fails the page, one past it is not kept.
PageRow ==
  /\ ask.form = "page"
  /\ IF Len(kept) = Keep
       THEN more' = TRUE /\ UNCHANGED <<kept, bytes>>
       ELSE /\ bytes + result[Next1] <= PageBytes
            /\ bytes' = bytes + result[Next1] /\ kept' = Append(kept, Next1) /\ UNCHANGED more
  /\ UNCHANGED <<batch, conn, out>>

FileRow == ask.form = "export" /\ kept' = Append(kept, Next1) /\ UNCHANGED <<more, bytes, batch, conn, out>>

Full == Len(batch) + 1 >= BatchRows \/ bytes + result[Next1] >= BatchBytes

\* A batch that is full is sent.
BatchRow ==
  /\ IsStream
  /\ IF Full THEN Written(Event("rows", Append(batch, Next1))) /\ batch' = <<>> /\ bytes' = 0
             ELSE batch' = Append(batch, Next1) /\ bytes' = bytes + result[Next1] /\ UNCHANGED <<conn, out>>
  /\ UNCHANGED <<kept, more>>

HasRow == Reading /\ canal.headed /\ ~canal.ended /\ canal.read < ToSend
TooMany == Capped /\ Next1 > ask.max

Row ==
  /\ HasRow /\ ~TooMany
  /\ PageRow \/ FileRow \/ BatchRow
  /\ canal' = [canal EXCEPT !.read = @ + 1] /\ UNCHANGED <<pc, told, err>>

\* The row past the host's maximum fails the query (result_too_large); one that
\* takes a page past its bytes, the page (page_too_large).
RowTooLarge ==
  /\ HasRow
  /\ \/ TooMany
     \/ ask.form = "page" /\ Len(kept) < Keep /\ bytes + result[Next1] > PageBytes
  /\ Quietly

RowUnwritten == HasRow /\ ~TooMany /\ IsStream /\ Full /\ Unwritten /\ Failed

Trailer ==
  /\ Reading /\ canal.headed /\ ~canal.ended /\ canal.read = ToSend
  /\ canal' = [canal EXCEPT !.ended = TRUE]
  /\ UNCHANGED <<pc, conn, out, kept, more, bytes, batch, told, err>>


Complete == canal.ended

\* The answer's end: execute returns, and the observer is told.
EndOfAnswer ==
  /\ Reading /\ Complete
  /\ Finished(TRUE) /\ pc' = IF IsStream THEN "flush" ELSE "stop"
  /\ UNCHANGED <<conn, out, canal, kept, more, bytes, batch, err>>

-----------------------------------------------------------------------------
(* The rest of stream, the end of the run, and the answer. *)

Unsent == err' = TRUE /\ pc' = "stop" /\ UNCHANGED <<canal, kept, more, bytes, batch, told>>

\* The last batch, when there is one.
Flush ==
  /\ pc = "flush"
  /\ IF batch = <<>>
       THEN pc' = "summary" /\ Stays /\ UNCHANGED <<conn, out>>
       ELSE Emits(Event("rows", batch),
                  batch' = <<>> /\ bytes' = 0 /\ pc' = "summary" /\ UNCHANGED <<canal, kept, more, told, err>>,
                  Unsent)
  /\ UNCHANGED <<ask, result, ctx, answer>>

Summary ==
  /\ pc = "summary"
  /\ Emits(Event("summary", <<canal.read, ask.size > 0 /\ canal.read = ask.size>>), pc' = "stop" /\ Stays, Unsent)
  /\ UNCHANGED <<ask, result, ctx, answer>>

\* Bug: stop does not wait for the pinger.
PingingStill == pc # "handle"

\* The pinger, until stop has returned.
Pinging == pc \notin {"handle", "end", "done"}
Ping ==
  /\ IsStream /\ Pinging /\ Begun /\ Cardinality({i \in DOMAIN out : out[i].type = "ping"}) < MaxStatus
  /\ Written(Event("ping", <<>>)) \/ Unwritten
  /\ UNCHANGED <<ask, result, pc, ctx, canal, kept, more, bytes, batch, told, err, answer>>

\* A page with page_size may have more after it when it is full.
Stop ==
  /\ pc = "stop" /\ pc' = "end"
  /\ more' = IF ask.form = "page" /\ ask.size > 0 /\ ~err THEN Len(kept) = ask.size ELSE more
  /\ UNCHANGED <<ask, result, ctx, conn, out, canal, kept, bytes, batch, told, err, answer>>

Outcome == IF err THEN "failed" ELSE "ok"

\* What a caller that is still there is answered: end, for a stream.
Answer ==
  /\ pc = "end" /\ pc' = "done"
  /\ \/ ctx = "gone" /\ (IsStream \/ err) /\ answer' = "canceled" /\ UNCHANGED <<conn, out>>
     \/ ctx # "gone" /\ IsStream /\ Written(Event("end", <<Outcome>>)) /\ answer' = Outcome
     \/ ctx # "gone" /\ IsStream /\ Unwritten /\ answer' = "cut"
     \/ (ctx # "gone" \/ ~err) /\ ~IsStream /\ answer' = Outcome /\ UNCHANGED <<conn, out>>
  /\ UNCHANGED <<ask, result, ctx, canal, kept, more, bytes, batch, told, err>>

-----------------------------------------------------------------------------
(* The client, and the clock. *)

ByOthers == UNCHANGED <<ask, result, pc, out, canal, kept, more, bytes, batch, told, err, answer>>

\* The client leaves: the request's context ends.
Leave == pc # "done" /\ conn \in {"up", "stuck"} /\ ctx # "gone" /\ ctx' = "gone" /\ conn' = "down" /\ ByOthers
Stall == IsStream /\ conn = "up" /\ conn' = "stuck" /\ UNCHANGED ctx /\ ByOthers

\* Bug: the timeout counts from the call, and ends with the handler.
LateInHandler == pc = "handle" /\ ctx = "live" /\ ctx' = "late" /\ UNCHANGED conn /\ ByOthers

\* The op's timeout, which counts from when the run starts.
Late == pc \in {"run", "compile", "canal", "flush", "summary"} /\ ctx = "live" /\ ctx' = "late" /\ UNCHANGED conn /\ ByOthers

Run == \/ Refuse \/ Start \/ Begin \/ CompileFails \/ Compile \/ AnswerFails \/ Progress \/ Header \/ Row \/ RowTooLarge
       \/ RowUnwritten \/ Trailer \/ EndOfAnswer \/ Flush \/ Summary \/ Ping \/ Stop \/ Answer
Next == Run \/ Leave \/ Stall \/ Late

\* The server's own steps are taken; canal-query's answer may never come, so
\* only the clock ends the wait for it.
Fairness ==
  /\ WF_vars(Start \/ Begin \/ Flush \/ Summary \/ Stop \/ Answer) /\ WF_vars(Late)
  /\ WF_vars(ctx # "live" /\ (CompileFails \/ AnswerFails))

Spec == Init /\ [][Next]_vars
LiveSpec == Spec /\ Fairness

-----------------------------------------------------------------------------
TypeOK ==
  /\ ask \in Asks /\ result \in Seq(RowSizes)
  /\ pc \in {"handle", "run", "compile", "canal", "flush", "summary", "stop", "end", "done"}
  /\ ctx \in {"live", "gone", "late"} /\ conn \in {"up", "stuck", "down", "broken"}
  /\ canal \in [headed : BOOLEAN, ended : BOOLEAN, read : 0 .. Len(result)]
  /\ kept \in Seq(Nat) /\ more \in BOOLEAN /\ bytes \in Nat /\ batch \in Seq(Nat)
  /\ told \in [compiled : 0 .. 1, finished : 0 .. 1, ok : BOOLEAN, rows : Nat]
  /\ err \in BOOLEAN /\ answer \in {"none", "refused", "ok", "failed", "cut", "canceled"}

\* What the query has of what was asked for: with a limit, its first rows.
Asked == IF ask.limit = NoLimit THEN Len(result) ELSE AtMost(ask.limit, Len(result))

Types == [i \in DOMAIN out |-> out[i].type]
At(type) == {i \in DOMAIN out : out[i].type = type}

Sent == [i \in At("rows") |-> out[i].rows]

\* The parts of a sequence, one after another, are the numbers to n, each once.
InOrder(parts, n) ==
  /\ \A i \in DOMAIN parts : \A k \in DOMAIN parts[i] :
       /\ parts[i][k] \in 1 .. n
       /\ \A j \in DOMAIN parts : \A l \in DOMAIN parts[j] :
            i < j \/ (i = j /\ k < l) => parts[i][k] < parts[j][l]
  /\ \A m \in 1 .. n : \E i \in DOMAIN parts : \E k \in DOMAIN parts[i] : parts[i][k] = m

Sum == out[CHOOSE i \in At("summary") : TRUE].rows

\* A successful answer is the whole of what was asked, in order: never part of a
\* result past the host's maximum, or of one canal-query broke off, told as all
\* of it; and a page says there are more exactly when there may be.
AnswersTheWhole ==
  (pc = "done" /\ answer = "ok") =>
    CASE ask.form = "export" -> kept = First(Asked)
      [] IsStream -> /\ InOrder(Sent, Asked) /\ Asked <= ask.max
                     /\ Sum = <<Asked, ask.size > 0 /\ Asked = ask.size>>
      [] OTHER -> /\ kept = First(AtMost(Keep, Asked))
                  /\ more = IF ask.size > 0 THEN Asked = ask.size ELSE Asked > Len(kept)

\* run.go's account of a stream: start comes first, compiled and the header
\* before the rows they describe, the summary after them all, and end last and
\* once: succeeded exactly after a summary.  No ping comes before start or
\* after end.
StreamIsFramed ==
  /\ \A i \in DOMAIN out : (Types[i] = "start") <=> (i = 1)
  /\ \A i \in At("rows"), j \in At("header") \cup At("compiled") : j < i
  /\ At("rows") # {} => At("header") # {} /\ At("compiled") # {}
  /\ \A i \in At("summary") : \A j \in At("rows") \cup At("header") \cup At("status") : j < i
  /\ \A i \in At("end") : i = Len(out) /\ (out[i].rows = <<"ok">> <=> At("summary") # {})
  /\ \A type \in {"start", "compiled", "header", "summary", "end"} : \A i, j \in At(type) : i = j

\* Both: what is answered, and how a stream is told of it.
AnsweredInFull == AnswersTheWhole /\ StreamIsFramed

\* The observer is told of a query's end once, and only of one it was told of;
\* and of success as its caller is, except when what was left to send a stream
\* could not be sent.
ToldAsAnswered ==
  /\ told.finished <= told.compiled /\ told.compiled <= 1
  /\ pc = "done" => told.finished = told.compiled
  /\ pc = "done" /\ answer = "ok" => told.ok
  /\ pc = "done" /\ told.ok /\ answer # "ok" => IsStream \/ ctx = "gone"
  /\ told.finished = 1 => told.rows <= ask.max \/ ask.form = "export"

\* Every call ends, whatever canal-query and the client do.
RunEnds == <>(pc = "done")

=============================================================================
