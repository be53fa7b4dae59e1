------------------------------ MODULE AppQuery ------------------------------
(***************************************************************************)
(* A paged query of a Data App in its frame, web/sdk/src/app: the reader   *)
(* edits its input, runs it, asks for more pages and aborts it, while the  *)
(* calls it made cross the bridge (common/endpoint.ts) to the host and     *)
(* back.  A queue is one direction of postMessage, in order.               *)
(*                                                                         *)
(* What runs in the frame runs to its end.  An answer received settles its *)
(* call's promise and what awaits it goes on at once; what awaits an       *)
(* aborted call goes on before another message, though code of the task    *)
(* that aborted it may come first.                                         *)
(***************************************************************************)
EXTENDS Integers, Sequences, FiniteSets

CONSTANTS
  Values,   \* what the reader sets the mapped control to, and the sort
  Unset,    \* that of a control, and a sort, not touched
  LastPage, \* the pages there are of any run
  MaxCalls  \* bound: the calls made

ASSUME AppQueryConstants == Unset \in Values /\ {LastPage, MaxCalls} \subseteq Nat \ {0}

VARIABLES
  input,   \* [condition, applied, sort]: the control's pending and applied conditions, the sort
  query,   \* [state, page, signature, runFailed, controller]
  result,  \* Query._result: [pages, more], each page with the input it was asked with; no pages, no result
  calls,   \* every call so far: [kind, request, signature, at]
  toHost, toFrame, \* the bridge's messages
  working, \* the host's inFlight: the calls it answers
  cut,     \* history: the run or page last begun was aborted
  apt      \* history: since a run's answer, pages were asked for only of what is shown, with nothing under way

appQueryVars == <<input, query, result, calls, toHost, toFrame, working, cut, apt>>

Never == [input |-> [condition |-> Unset, sort |-> Unset], page |-> 0]

AppQueryInit ==
  /\ input = [condition |-> Unset, applied |-> Unset, sort |-> Unset]
  /\ query = [state |-> "idle", page |-> 1, signature |-> Never, runFailed |-> FALSE, controller |-> 0]
  /\ result = [pages |-> <<>>, more |-> FALSE]
  /\ calls = <<>> /\ toHost = <<>> /\ toFrame = <<>> /\ working = {} /\ cut = FALSE /\ apt = TRUE

\* What changes the rows of a page; signature() reads the pending condition, a
\* request the applied one.
Asked(condition, sort, page) == [input |-> [condition |-> condition, sort |-> sort], page |-> page]
Signature(page) == Asked(input.condition, input.sort, page)
IsDirty == query.signature # Never /\ Signature(query.page) # query.signature
ShouldRun(force) == force \/ query.runFailed \/ query.signature = Never \/ IsDirty

UnderWay == {c \in DOMAIN calls : calls[c].at # "settled"}

-----------------------------------------------------------------------------
(* The reader, and the app's code. *)

SetCondition ==
  /\ \E v \in Values \ {input.condition} : input' = [input EXCEPT !.condition = v]
  /\ UNCHANGED <<query, result, calls, toHost, toFrame, working, cut, apt>>

SetSort ==
  /\ \E v \in Values \ {input.sort} : input' = [input EXCEPT !.sort = v]
  /\ UNCHANGED <<query, result, calls, toHost, toFrame, working, cut, apt>>

\* controller.abort(), where the call is not answered yet: the host is told, and
\* the call rejects.
AbortsNone(c) == {} \* mutant: what a run takes over goes on
Aborts(c) == {c} \cap {d \in DOMAIN calls : calls[d].at = "called"}
Rejected(c) == [d \in DOMAIN calls |-> IF d \in Aborts(c) THEN [calls[d] EXCEPT !.at = "aborted"] ELSE calls[d]]
Cancels(c) == IF Aborts(c) = {} THEN <<>> ELSE <<[type |-> "cancel", id |-> c]>>

\* endpoint.call, of a query marked as executing with a controller of its own.
Begin(kind, before, told, request, page) ==
  LET id == Len(calls) + 1 IN
  /\ Len(calls) < MaxCalls
  /\ calls' = Append(before, [kind |-> kind, request |-> request, signature |-> Signature(page), at |-> "called"])
  /\ toHost' = toHost \o told \o <<[type |-> "call", id |-> id]>>
  /\ query' = [query EXCEPT !.state = "executing", !.page = page, !.controller = id] /\ cut' = FALSE
  /\ UNCHANGED <<result, toFrame, working>>

\* app.execute(), and refresh() which forces it: the input is committed, and the
\* query, unless it would produce nothing new, runs from its first page, what it
\* has in flight given up.
Execute(force) ==
  /\ input' = [input EXCEPT !.applied = input.condition]
  /\ IF ShouldRun(force) THEN Begin("run", Rejected(query.controller), Cancels(query.controller), Signature(1), 1)
     ELSE UNCHANGED <<query, result, calls, toHost, toFrame, working, cut>>
  /\ UNCHANGED apt

HasMore == result.pages # <<>> /\ result.more

\* query.fetchMore(): the next page, of the input applied.
FetchMore ==
  /\ HasMore
  /\ Begin("page", calls, <<>>, Asked(input.applied, input.sort, query.page + 1), query.page + 1)
  /\ apt' = (apt /\ UnderWay = {} /\ ~IsDirty /\ input.applied = input.condition)
  /\ UNCHANGED input

\* app.abort() and query.abort().
Abort ==
  /\ Aborts(query.controller) # {}
  /\ calls' = Rejected(query.controller) /\ toHost' = toHost \o Cancels(query.controller) /\ cut' = TRUE
  /\ UNCHANGED <<input, query, result, toFrame, working, apt>>

-----------------------------------------------------------------------------
(* The host's side of the bridge. *)

HostReceive ==
  /\ toHost # <<>> /\ toHost' = Tail(toHost)
  /\ LET m == Head(toHost) IN working' = IF m.type = "call" THEN working \cup {m.id} ELSE working \ {m.id}
  /\ UNCHANGED <<input, query, result, calls, toFrame, cut, apt>>

\* The backend's answer, or its failure.  An AbortError of its own would not be
\* sent (endpoint.ts:103); the host's handlers raise none but at their signal's.
Answer(id) ==
  /\ id \in working /\ working' = working \ {id}
  /\ \E ok \in BOOLEAN : toFrame' = Append(toFrame, [id |-> id, ok |-> ok])
  /\ UNCHANGED <<input, query, result, calls, toHost, cut, apt>>

-----------------------------------------------------------------------------
(* What awaited a call goes on. *)

Superseded(id) == query.controller # id

Released(id) == IF query.controller = id THEN 0 ELSE query.controller

\* markSuccess: a run's answer is the result, a page's goes after those there are.
MarkSuccess(id, append) ==
  /\ query' = [query EXCEPT !.state = "success", !.signature = calls[id].signature, !.controller = Released(id),
                            !.runFailed = @ /\ append]
  /\ result' = [pages |-> (IF append THEN result.pages ELSE <<>>) \o <<calls[id].request>>,
                more |-> calls[id].request.page < LastPage]

Rewound(page) == IF page > 1 THEN page - 1 ELSE page

RunSettles(id, ok) ==
  IF Superseded(id) THEN UNCHANGED <<query, result, apt>>
  ELSE IF ok THEN MarkSuccess(id, FALSE) /\ apt' = (apt \/ UnderWay = {id})
  ELSE query' = [query EXCEPT !.state = "error", !.runFailed = TRUE, !.controller = 0] /\ UNCHANGED <<result, apt>>

PageSettles(id, ok) ==
  /\ IF ok THEN MarkSuccess(id, TRUE)
     ELSE /\ query' = [query EXCEPT !.state = "error", !.page = Rewound(@), !.controller = Released(id)]
          /\ UNCHANGED result
  /\ UNCHANGED apt

\* An answer, of a call still awaited.
FrameReceive ==
  /\ toFrame # <<>> /\ \A c \in DOMAIN calls : calls[c].at # "aborted"
  /\ toFrame' = Tail(toFrame)
  /\ LET m == Head(toFrame) IN
       IF calls[m.id].at = "called"
       THEN /\ calls' = [calls EXCEPT ![m.id].at = "settled"]
            /\ IF calls[m.id].kind = "run" THEN RunSettles(m.id, m.ok) ELSE PageSettles(m.id, m.ok)
       ELSE UNCHANGED <<query, result, calls, apt>>
  /\ UNCHANGED <<input, toHost, working, cut>>

\* An aborted call's run or page ends, and shows nothing of it.
Resume(id) ==
  /\ calls[id].at = "aborted" /\ calls' = [calls EXCEPT ![id].at = "settled"]
  /\ query' = [query EXCEPT !.page = IF calls[id].kind = "page" THEN Rewound(@) ELSE @, !.controller = Released(id)]
  /\ UNCHANGED <<input, result, toHost, toFrame, working, cut, apt>>

AppQueryNext ==
  \/ SetCondition \/ SetSort \/ (\E force \in BOOLEAN : Execute(force)) \/ FetchMore \/ Abort
  \/ HostReceive \/ FrameReceive \/ \E c \in DOMAIN calls : Answer(c) \/ Resume(c)
AppQuerySpec == AppQueryInit /\ [][AppQueryNext]_appQueryVars

-----------------------------------------------------------------------------
\* What is shown is one run's pages, from the first, in their order, and of the
\* input the query says it last ran with, whatever was aborted, taken over or
\* failed meanwhile, as long as a page was asked for only of what is shown.
ShownIsOneRun ==
  apt => /\ \A n \in DOMAIN result.pages : result.pages[n] = [query.signature EXCEPT !.page = n]
         /\ query.signature.page = Len(result.pages)

\* A query that is executing has a call that will end it, unless it was aborted.
ExecutingHasCall == query.state = "executing" => cut \/ calls[query.controller].at = "called"

\* Every call awaited is on its way, answered by the host, or its answer on the
\* way, once; and the host answers no call given up but until it is told.
OnItsWay(c) ==
  Cardinality({n \in DOMAIN toHost : toHost[n] = [type |-> "call", id |-> c]})
  + (IF c \in working THEN 1 ELSE 0) + Cardinality({n \in DOMAIN toFrame : toFrame[n].id = c})
CallsAreAnswered ==
  \A c \in DOMAIN calls :
    IF calls[c].at = "called" THEN OnItsWay(c) = 1
    ELSE c \in working => \E n \in DOMAIN toHost : toHost[n] = [type |-> "cancel", id |-> c]

\* All three: a query shows what it ran, and nothing of it is left hanging.
ShownAsRan == ShownIsOneRun /\ ExecutingHasCall /\ CallsAreAnswered
=============================================================================
