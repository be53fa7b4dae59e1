------------------------------- MODULE Calls -------------------------------
(***************************************************************************)
(* One call of an operation, by the door it comes through: HTTP, as a page *)
(* or a stream; MCP; a platform that embeds the engine; and the CLI, alone *)
(* or through a server (shared/apikit, shared/httpkit, cmd/anfra).  The    *)
(* call goes through its stages; the client may leave at any of them, the  *)
(* server may die.                                                         *)
(***************************************************************************)
EXTENDS Failures

CONSTANTS Invalid, Refused, Denied, Down, Late,  \* what a server answers
          Finer,                                 \* an internal code of one that it answers
          Foreign,                               \* a library's, which it does not
          Gone,                                  \* what it answers of an export whose link has expired
          Unreachable, Interrupted,              \* the CLI's own
          MostWrong                              \* bound: the things wrong with one call

ASSUME CallsAssumption ==
  /\ {Invalid, Refused, Denied, Down, Late, Gone, PublicOf[Finer]} \subseteq Serves
  /\ {Invalid, Refused, Denied, Down, Late, Gone, Finer, Foreign, Unreachable, Interrupted} \subseteq Codes
  /\ \A c \in {Invalid, Refused, Denied, Down, Late, Gone, Foreign, Unreachable, Interrupted} : PublicOf[c] = c
  /\ Internal \notin {Invalid, Refused, Denied, Down, Late, Gone, PublicOf[Finer], Foreign, Unreachable}
  /\ Foreign \notin Serves
  /\ Interrupted \notin Serves \union {Finer, Foreign, Unreachable}
  /\ MostWrong \in Nat

VARIABLES call,    \* the call, and what is wrong with it
          at,      \* the stage it is at
          error,   \* its failure, <<>> while there is none
          context, \* "live", "left" once the client has gone or pressed Ctrl-C
          sent,    \* what the server has sent its client
          lines,   \* the log's lines of the call: their levels and codes
          pinging, \* whether the stream's pings go on
          cli      \* the CLI's end of it

calls == <<call, at, error, context, sent, lines, pinging, cli>>

Outcomes == {"refused", "finer", "foreign", "plain", "down", "panic"}
\* An answer's delivery, by the CLI: an export's link that has expired; what is
\* not read or written here, an export's own file, its output or stdout; and a
\* transfer that breaks, or a copy to the output.
Deliveries == {"expired", "unwritten", "transfer"}
Troubles ==
  {"guard", "body", "repo", "unread", "mistyped", "unfit", "check", "admission", "authorize", "sidecar", "late"} \union Outcomes \union Deliveries
OverHTTP == {"http", "stream", "mcp", "remote"}
AtCLI == {"alone", "remote"}

Nothing == [as |-> "nothing"]
Said(stage) == {<<"said", stage>>}
Causes == {<<"cause", t>> : t \in Troubles \union {"left", "call"}}
Cause(t) == <<Layer(Plain, {<<"cause", t>>}, FALSE)>>

Wrong(t) == t \in call.wrong

\* What can be wrong with a call by its door.  A mounted op is a platform's.
\* MCP's own reading, and a handler's panic under it or at the CLI, are left
\* out: the first is the SDK's, the second ends the process.
CanBe(c) ==
  (Outcomes \ {"panic"}) \union {"mistyped", "unfit", "check", "late"}
    \union (IF c.door \in {"http", "stream", "mcp"} THEN {"guard"} ELSE {})
    \union (IF c.door \in {"http", "stream"} THEN {"body"} ELSE {})
    \union (IF c.door \in {"http", "stream", "embedded"} THEN {"unread"} ELSE {})
    \union (IF c.door \in {"http", "stream", "remote"} THEN {"panic"} ELSE {})
    \union (IF c.door = "alone" THEN {"repo", "sidecar"} ELSE {})
    \union (IF c.door \in AtCLI THEN {"unwritten", "transfer"} ELSE {})
    \union (IF c.door = "remote" THEN {"expired"} ELSE {})
    \union (IF c.mounted THEN {"admission", "authorize"} ELSE {})
    \union (IF c.door = "embedded" THEN {"admission"} ELSE {})

FirstStage == [http |-> "guard", stream |-> "guard", mcp |-> "guard", remote |-> "guard", embedded |-> "admit", alone |-> "repo"]

CallsInit ==
  /\ \E door \in OverHTTP \union {"alone", "embedded"}, mounted, hidden, valid \in BOOLEAN, wrong \in UNION {kSubset(k, Troubles) : k \in 0 .. MostWrong} :
       call = [door |-> door, mounted |-> mounted, hidden |-> hidden, valid |-> valid, wrong |-> wrong]
  /\ call.mounted => call.door \in {"http", "stream", "mcp"}
  /\ ~call.valid => call.door \in AtCLI
  /\ call.wrong \subseteq CanBe(call)
  /\ Cardinality(call.wrong \intersect Outcomes) <= 1 /\ Cardinality(call.wrong \intersect Deliveries) <= 1
  /\ at = FirstStage[call.door]
  /\ error = <<>> /\ context = "live" /\ sent = Nothing /\ lines = <<>> /\ pinging = FALSE
  /\ cli = [at |-> IF call.door \in AtCLI THEN "waits" ELSE "none", exit |-> -1, told |-> Nothing]

\* No call: what the parts checked beside this one see of it.
CallsRest ==
  /\ call = [door |-> "none", mounted |-> FALSE, hidden |-> FALSE, valid |-> TRUE, wrong |-> {}]
  /\ at = "none" /\ error = <<>> /\ context = "live" /\ sent = Nothing /\ lines = <<>> /\ pinging = FALSE
  /\ cli = [at |-> "none", exit |-> -1, told |-> Nothing]

Same == UNCHANGED <<call, context, sent, lines, pinging, cli>>
Goes(stage) == at' = stage /\ UNCHANGED error /\ Same

\* The stage of what follows the op: a server's answer, or its host's.
After == IF call.door = "embedded" THEN "done" ELSE "answer"
Fails(e) == error' = e /\ at' = After /\ Same

\* A failure on its way out of the op, through its steps: the op's, and the
\* host's around a mounted one's.
OpFails(e) == Fails(IF call.mounted THEN WithStep(WithStep(e, "op"), "host op") ELSE WithStep(e, "op"))
HostFails(e) == Fails(WithStep(e, IF call.mounted THEN "host op" ELSE "op"))

----------------------------------------------------------------------------
(* The server's guard and the request's body. *)

Guarded ==
  /\ at = "guard"
  /\ IF Wrong("guard") THEN Fails(New(Invalid, Said("guard"))) ELSE Goes("body")

ReadBody ==
  /\ at = "body"
  /\ IF Wrong("body") THEN Fails(Encapsulate(Cause("body"), Invalid, Said("body"), call.hidden))
     ELSE /\ at' = "admit"
          /\ pinging' = (call.door = "stream")
          /\ UNCHANGED <<call, error, context, sent, lines, cli>>

----------------------------------------------------------------------------
(* A CLI alone: its repo's log, then the sidecars the command needs.  What *)
(* it needs is read from its input: none, when its fields are of other     *)
(* types or the command's own check refuses it.                            *)

SetUp ==
  /\ at = "repo"
  /\ IF Wrong("repo") THEN Fails(Cause("repo")) ELSE Goes("sidecars")

StartSidecars ==
  LET needed == ~Wrong("mistyped") /\ ~Wrong("check")
      Unstarted(why) == Fails(WithStep(Encapsulate(Cause(why), Down, {}, call.hidden), "start_sidecar"))
  IN  /\ at = "sidecars"
      /\ \/ needed /\ Wrong("sidecar") /\ Unstarted("sidecar")
         \/ needed /\ context = "left" /\ Unstarted("left")
         \/ ~(needed /\ Wrong("sidecar")) /\ Goes("admit")

----------------------------------------------------------------------------
(* The op.  A mounted one's host admits the caller, then authorizes them on *)
(* the input, before the op does anything.                                  *)

Admit ==
  /\ at = "admit"
  /\ \/ ~Wrong("admission") /\ Goes("input")
     \/ Wrong("admission") /\ call.mounted /\ HostFails(New(Denied, Said("admission")))
     \/ Wrong("admission") /\ ~call.mounted /\ Fails(New(Denied, Said("admission")))

Decode ==
  /\ at = "input"
  /\ IF Wrong("unread") THEN HostFails(Encapsulate(Cause("unread"), Invalid, Said("unread"), call.hidden))
     ELSE IF Wrong("mistyped") \/ Wrong("unfit") THEN HostFails(New(Invalid, {}))
     ELSE Goes("check")

Prepare ==
  /\ at = "check"
  /\ IF Wrong("check") THEN HostFails(New(Refused, Said("check"))) ELSE Goes("authorize")

Authorize ==
  /\ at = "authorize"
  /\ IF Wrong("authorize") THEN HostFails(New(Denied, Said("authorize"))) ELSE Goes("handle")

\* How the handler fails, by what is wrong.
Outcome(o) ==
  CASE o = "refused" -> New(Refused, Said(o))
    [] o = "finer" -> Encapsulate(Cause(o), Finer, Said(o), call.hidden)
    [] o = "foreign" -> New(Foreign, Said(o))
    [] o = "down" -> Encapsulate(Cause(o), Down, Said(o), call.hidden)
    [] o \in {"plain", "late", "left"} -> Cause(o)

\* A failure within its timeout, or past it: a platform's runtime names that,
\* unless the caller left first.
NamedLate(e) == IF Wrong("late") /\ call.mounted /\ context = "live" THEN Encapsulate(e, Late, {}, call.hidden) ELSE e

Ailing == call.wrong \intersect (Outcomes \union {"late"})

\* The handler, or a run, fails.
HandlerFails ==
  \/ \E o \in Ailing \ {"panic"} : (o = "late" => Ailing = {"late"}) /\ OpFails(NamedLate(Outcome(o)))
  \/ context = "left" /\ OpFails(Outcome("left"))
  \/ Wrong("panic") /\ at' = "panicked" /\ error' = Cause("panic") /\ Same

Started == sent' = [as |-> "started"] /\ UNCHANGED <<call, context, lines, pinging, cli>>

\* A page is whole once its handler is done.  A stream's run starts with an
\* event of its own, which its client may not be there to take.
Handle ==
  /\ at = "handle"
  /\ \/ HandlerFails
     \/ call.door # "stream" /\ Ailing = {} /\ Goes(After)
     \/ call.door = "stream" /\ context = "live" /\ at' = "run" /\ UNCHANGED error /\ Started
     \/ call.door = "stream" /\ context = "left" /\ OpFails(Cause("left"))

Run ==
  /\ at = "run"
  /\ HandlerFails \/ (Ailing = {} /\ Goes("answer"))

----------------------------------------------------------------------------
(* The answer, and the request's one line. *)

Line(level, code) == [level |-> level, code |-> code]
OkLine == Line("info", "none")
LineOf(e) == Line(LevelOf(Served(CodeOf(e))), Served(CodeOf(e)))

Answers(what, line) ==
  /\ at' = "done"
  /\ sent' = what
  /\ lines' = Append(lines, line)
  /\ pinging' = FALSE
  /\ UNCHANGED <<call, error, context, cli>>

\* A failure as it is told: its response, as an error's.
AsError(r) == [as |-> "error", code |-> r.code, scope |-> r.scope, context |-> r.context, message |-> r.message]
ErrorBody == AsError(Render(error, call.hidden))

\* Refused before the op's own call: told, its client there or not.
AtTheDoor == Wrong("guard") \/ Wrong("body")

\* A client that has gone is answered nothing, and its line says so alone.
AnswerPage ==
  /\ at = "answer" /\ call.door \in {"http", "remote"}
  /\ \/ error = <<>> /\ Answers([as |-> "answer"], OkLine)
     \/ error # <<>> /\ (context = "live" \/ AtTheDoor) /\ Answers(ErrorBody, LineOf(error))
     \/ error # <<>> /\ context = "left" /\ ~AtTheDoor /\ Answers(Nothing, Line("info", "canceled"))

EndStream ==
  /\ at = "answer" /\ call.door = "stream"
  /\ \/ context = "left" /\ ~AtTheDoor /\ Answers(sent, Line("info", "canceled"))
     \/ (context = "live" \/ AtTheDoor) /\ error # <<>> /\ Answers(ErrorBody, LineOf(error))
     \/ context = "live" /\ error = <<>> /\ Answers([as |-> "answer"], OkLine)

\* A tool's failure is its result, of a request that went well.  The guard's
\* is the request's own.
AnswerTool ==
  /\ at = "answer" /\ call.door = "mcp"
  /\ Answers(IF error = <<>> THEN [as |-> "answer"] ELSE ErrorBody, IF Wrong("guard") THEN LineOf(error) ELSE OkLine)

\* A panic is the request's failure, told unless its stream had started.  It
\* passes by the stop of the stream's pings.
Recover ==
  /\ at = "panicked"
  /\ at' = "done"
  /\ sent' = IF sent = Nothing THEN ErrorBody ELSE sent
  /\ lines' = Append(lines, LineOf(error))
  /\ UNCHANGED <<call, error, context, pinging, cli>>

\* A CLI alone logs a failure as a server does, once there is a log.
EndAlone ==
  /\ at = "answer" /\ call.door = "alone"
  /\ at' = "done"
  /\ lines' = IF error = <<>> \/ Wrong("repo") THEN lines ELSE Append(lines, Line(LevelOf(Public(error)), Public(error)))
  /\ UNCHANGED <<call, error, context, sent, pinging, cli>>

----------------------------------------------------------------------------
(* The client and the CLI. *)

Leaves ==
  /\ context = "live" /\ call.door # "embedded"
  /\ IF call.door \in AtCLI THEN cli.at = "waits" ELSE at # "done"
  /\ context' = "left"
  /\ UNCHANGED <<call, at, error, sent, lines, pinging, cli>>

\* The server is killed, its client waiting.
Dies ==
  /\ call.door = "remote" /\ at # "done" /\ cli.at = "waits"
  /\ at' = "dead"
  /\ UNCHANGED <<call, error, context, sent, lines, pinging, cli>>

Mine(e) == Response(e, call.hidden)
Unanswered == Encapsulate(Cause("call"), Unreachable, Said("call"), call.hidden)

\* runError: a failed run of a context that has ended is an interrupted one.
RunError(e) ==
  IF CodeOf(e) # Interrupted /\ context = "left" THEN Encapsulate(e, Interrupted, Said("interrupted"), call.hidden) ELSE e

\* What is printed of a core command is what failed in it, under what the run
\* makes of that; a server's error as it came.
Exits(e, told) ==
  /\ cli' = [at |-> "exited", exit |-> IF CodeOf(RunError(e)) = Interrupted THEN 130 ELSE 1, told |-> AsError(told)]
  /\ UNCHANGED <<call, at, error, context, sent, lines, pinging>>
ExitsFor(e) == Exits(e, Mine(e))

\* The answer is shown, or its file written; an invalid verdict's exit is 1.
Shows ==
  /\ cli' = [at |-> "exited", exit |-> IF call.valid THEN 0 ELSE 1, told |-> [as |-> "answer"]]
  /\ UNCHANGED <<call, at, error, context, sent, lines, pinging>>

\* Of a link that has expired, its server's error is told as it came; a file
\* that is not opened, made or written to stdout is nobody's coded failure.
Delivers ==
  \/ Wrong("expired") /\ Exits(Cause("expired"), AsError(Render(New(Gone, Said("expired")), call.hidden)))
  \/ Wrong("unwritten") /\ ExitsFor(Cause("unwritten"))
  \/ Wrong("transfer") /\ ExitsFor(Encapsulate(Cause("transfer"), Unreachable, Said("transfer"), call.hidden))
  \/ call.wrong \intersect Deliveries = {} /\ Shows

EndCLI ==
  /\ cli.at = "waits"
  /\ \/ call.door = "alone" /\ at = "done" /\ (IF error = <<>> THEN Delivers ELSE ExitsFor(error))
     \/ call.door = "remote" /\ at = "done" /\ sent.as = "answer" /\ Delivers
     \/ call.door = "remote" /\ at = "done" /\ sent.as = "error" /\ Exits(Cause("call"), sent)
     \/ call.door = "remote" /\ (at = "dead" \/ context = "left") /\ ExitsFor(Unanswered)

CallsNext ==
  \/ Guarded \/ ReadBody \/ SetUp \/ StartSidecars
  \/ Admit \/ Decode \/ Prepare \/ Authorize \/ Handle \/ Run
  \/ AnswerPage \/ EndStream \/ AnswerTool \/ Recover \/ EndAlone
  \/ Leaves \/ Dies \/ EndCLI

CallsSpec == CallsInit /\ [][CallsNext]_calls
----------------------------------------------------------------------------
(* What a call is told. *)

\* docs/designs/errors.md: "Inputs are checked against the schema, then the
\* command's own rules, before anything starts".
Order ==
  <<"guard", "body", "repo", "admission", "unread", "mistyped", "unfit", "check", "authorize", "sidecar",
    "refused", "finer", "foreign", "plain", "down", "panic", "late", "expired", "unwritten", "transfer">>
Promised(t) ==
  CASE t \in {"guard", "body", "unread", "mistyped", "unfit"} -> Invalid
    [] t \in {"admission", "authorize"} -> Denied
    [] t \in {"check", "refused"} -> Refused
    [] t \in {"sidecar", "down"} -> Down
    [] t = "expired" -> Gone
    [] t = "transfer" -> Unreachable
    [] t = "finer" -> PublicOf[Finer]
    [] t \in {"repo", "foreign", "plain", "panic", "late", "unwritten"} -> Internal

CallOver == at \in {"done", "dead"} /\ cli.at # "waits"
Told ==
  CASE call.door \in AtCLI -> cli.told
    [] call.door = "embedded" -> IF error = <<>> THEN [as |-> "answer"] ELSE AsError(Response(error, call.hidden))
    [] OTHER -> sent

\* What the first thing wrong is told as.  A CLI alone starts the sidecars its
\* input needs before the op decodes it, and knows no code as another's.
FirstWrong == Order[CHOOSE i \in DOMAIN Order : Wrong(Order[i]) /\ \A j \in 1 .. i - 1 : ~Wrong(Order[j])]
First == IF call.door = "alone" /\ FirstWrong = "unfit" /\ Wrong("sidecar") /\ ~Wrong("check") THEN "sidecar" ELSE FirstWrong
Expected ==
  IF First \in Outcomes \union {"late"} /\ First # "panic" /\ Wrong("late") /\ call.mounted THEN Late
  ELSE IF First = "foreign" /\ call.door \in {"alone", "embedded"} THEN Foreign
  ELSE Promised(First)

FirstIsTold ==
  CallOver /\ context = "live" /\ at = "done" =>
    IF call.wrong = {} THEN Told.as = "answer"
    ELSE \/ Told.as = "error" /\ Told.code = Expected
         \/ Told.as = "started" /\ First = "panic"

\* A cause is in the message where causes are shown and nowhere else.
CausesAreHidden ==
  CallOver /\ Told.as = "error" =>
    /\ call.hidden => Told.message \intersect Causes = {}
    /\ ~call.hidden /\ context = "live" /\ at = "done" /\ First \in {"repo", "sidecar", "plain", "late", "panic", "unwritten"} =>
         <<"cause", First>> \in Told.message

\* One line a request, of what it was answered: but a tool's failure is not
\* in it, nor why a call failed whose client had gone.
LineIsOfTheAnswer ==
  at = "done" =>
    /\ call.door \in OverHTTP => Len(lines) = 1
    /\ call.door = "alone" => Len(lines) = (IF error = <<>> \/ Wrong("repo") THEN 0 ELSE 1)
    /\ call.door = "mcp" /\ ~Wrong("guard") => lines = <<OkLine>>
    /\ call.door \in {"http", "stream", "remote"} /\ sent.as = "error" => lines = <<Line(LevelOf(sent.code), sent.code)>>
    /\ call.door \in {"http", "stream", "remote"} /\ sent.as = "answer" => lines = <<OkLine>>
    /\ call.door \in OverHTTP /\ sent.as \in {"nothing", "started"} => context = "left" \/ Wrong("panic")

\* A stream's pings end with it, but for a panic.
PingsEnd == at = "done" /\ pinging => Wrong("panic")

\* Ctrl-C is the exit code of a run that failed for it, or as it came; but what
\* is printed is what failed, never that it was interrupted.
InterruptIsSaid ==
  cli.at = "exited" =>
    /\ cli.told.as = "error" => cli.exit = (IF context = "left" THEN 130 ELSE 1) /\ cli.told.code # Interrupted
    /\ cli.told.as = "answer" => cli.exit = (IF call.valid THEN 0 ELSE 1)

\* A call is told of the first thing wrong with it, alike at every door, with
\* no cause a client should not read and one line that says as much.
CallIsTold == FirstIsTold /\ CausesAreHidden /\ LineIsOfTheAnswer /\ PingsEnd /\ InterruptIsSaid
=============================================================================
