---------------------------- MODULE MCAlgorithms ----------------------------
(***************************************************************************)
(* Parts that keep no state between two uses: the delays between a loop's  *)
(* restarts, the layout of a result, one call of an op, what is typed of a *)
(* command, what discovery says of the ops and of a schema.  A behaviour   *)
(* is of one of them, the others at rest.                                  *)
(***************************************************************************)
EXTENDS Backoff, Pretty, Calls, Inputs, Discovery, Inlining

VARIABLE focus

vars == <<focus, backoff, pretty, calls, inputs, discovery, inlined>>

Init ==
  /\ focus \in {"backoff", "pretty", "calls", "inputs", "discovery", "inlining"}
  /\ IF focus = "backoff" THEN BackoffInit ELSE min = 1 /\ max = 1 /\ attempt = 0 /\ delay = -1
  /\ IF focus = "pretty" THEN PrettyInit ELSE subject = [as |-> "none"] /\ width = 0 /\ drawn = <<>>
  /\ IF focus = "calls" THEN CallsInit ELSE CallsRest
  /\ DiscoveryInit
  /\ IF focus = "inlining" THEN InliningInit ELSE inlined = [schemas |-> <<>>, document |-> <<>>, as |-> <<>>]
  /\ IF focus = "inputs" THEN InputsInit ELSE typed = <<>> /\ read = [as |-> "nothing"]
OfBackoff(A) == focus = "backoff" /\ A /\ UNCHANGED <<focus, pretty, calls, inputs, discovery, inlined>>
OfPretty(A) == focus = "pretty" /\ A /\ UNCHANGED <<focus, backoff, calls, inputs, discovery, inlined>>
OfCalls(A) == focus = "calls" /\ A /\ UNCHANGED <<focus, backoff, pretty, inputs, discovery, inlined>>
OfInputs(A) == focus = "inputs" /\ A /\ UNCHANGED <<focus, backoff, pretty, calls, discovery, inlined>>
OfDiscovery(A) == focus = "discovery" /\ A /\ UNCHANGED <<focus, backoff, pretty, calls, inputs, inlined>>
OfInlining(A) == focus = "inlining" /\ A /\ UNCHANGED <<focus, backoff, pretty, calls, inputs, discovery>>
Next == OfBackoff(BackoffNext) \/ OfPretty(Draw) \/ OfCalls(CallsNext) \/ OfInputs(Read) \/ OfDiscovery(DiscoveryNext) \/ OfInlining(InlinesOne)
Spec == Init /\ [][Next]_vars

\* A number, a text, one that CSV quotes and one of several lines.
SampleTexts ==
  {[width |-> 1, number |-> TRUE, quoted |-> FALSE, more |-> FALSE], [width |-> 3, number |-> FALSE, quoted |-> FALSE, more |-> FALSE],
   [width |-> 12, number |-> FALSE, quoted |-> TRUE, more |-> FALSE], [width |-> 9, number |-> FALSE, quoted |-> FALSE, more |-> TRUE]}
\* The label of the column that may be cut is wider than the least it is cut to.
SampleNames == [n \in {"a", "b"} |-> IF n = "a" THEN 11 ELSE 5]
\* Up to three paths of up to three names, a file and a folder of one name among them.
SamplePaths == UNION {[1 .. n -> UNION {[1 .. k -> {"a", "b"}] : k \in 1 .. 3}] : n \in 1 .. 3}

\* The codes a call can meet: one internal, one of a library nobody serves.
TheCodes ==
  {"internal_server_error", "invalid_request", "validation_failed", "denied", "sidecar_unavailable",
   "not_found", "unreachable", "interrupted", "timed_out", "finer", "lib_failed"}
ThePublicOf == [c \in TheCodes |-> IF c = "finer" THEN "validation_failed" ELSE c]
TheScopeOf ==
  [c \in TheCodes |->
     IF c \in {"internal_server_error", "sidecar_unavailable", "unreachable", "timed_out"} THEN "server"
     ELSE IF c = "invalid_request" THEN "client" ELSE "user"]
TheServes == TheCodes \ {"unreachable", "interrupted", "finer", "lib_failed"}

\* query, with export's options; and a command of each other kind of arg.
QueryArgs ==
  <<[Arg("query", "string") EXCEPT !.required = TRUE, !.positional = TRUE, !.stdin = TRUE],
    [Arg("lang", "string") EXCEPT !.enum = {"aql", "sql"}, !.default = "aql"],
    Arg("dataset", "string"), Arg("data_source", "string"), Arg("page", "int"), Arg("page_size", "int"),
    [Arg("format_options", "object") EXCEPT !.fields = {[path |-> "format_options.header", type |-> "string", enum |-> {"names"}],
                                                        [path |-> "format_options.bom", type |-> "bool", enum |-> {}]}]>>
OtherArgs ==
  <<[Arg("words", "strings") EXCEPT !.positional = TRUE], [Arg("dataset", "string") EXCEPT !.group = "of", !.aliases = {"lang"}],
    [Arg("data_source", "string") EXCEPT !.group = "of"], Arg("page", "strings"), Arg("targets", "objects"),
    [Arg("page_size", "string") EXCEPT !.stdin = TRUE], [Arg("note", "string") EXCEPT !.stdin = TRUE]>>
TheDeclarations == [query |-> QueryArgs, other |-> OtherArgs, clash |-> <<Arg("lang", "string"), [Arg("dataset", "string") EXCEPT !.aliases = {"lang"}]>>]
TheFlags ==
  {[flag |-> f, value |-> v] : f \in {"lang"}, v \in {"aql", "sql", ""}} \union {[flag |-> "page", value |-> v] : v \in {"0", "1", "many"}}
    \union {[flag |-> f, value |-> "1"] : f \in {"dataset", "data_source", "page_size", "nosuch"}} \union {[flag |-> "dataset", value |-> " "]}
    \union {[flag |-> "format_options", value |-> v] : v \in {"{}", "["}} \union {[flag |-> "format_options.header", value |-> v] : v \in {"names", "x"}}
    \union {[flag |-> "format_options.bom", value |-> "true"], [flag |-> "targets", value |-> "[]"], [flag |-> "targets", value |-> "{}"]}

\* Ops of each door and base, ops that must not be registered, and ops to mount.
Op(name, group) == [name |-> name, group |-> group, http |-> TRUE, mcp |-> TRUE, base |-> "", errors |-> {}, runs |-> FALSE, events |-> <<>>]
TheDefs ==
  {[Op("models.list", "models") EXCEPT !.errors = {"not_found", "lib_failed"}], [Op("models.share", "models") EXCEPT !.mcp = FALSE, !.base = "o"],
   [Op("query.run", "query") EXCEPT !.http = FALSE, !.runs = TRUE, !.events = <<{"row"}, {"part", "last"}>>],
   [Op("query.watch", "query") EXCEPT !.runs = TRUE, !.events = <<{"row"}, {"row", "last"}>>], [Op("query.poll", "query") EXCEPT !.runs = TRUE, !.events = <<{"ping"}>>],
   Op("Bad", "query")}
TheMountable == {[Op("models.list", "models") EXCEPT !.mcp = FALSE], [Op("core.query", "core") EXCEPT !.runs = TRUE, !.events = <<{"row"}>>, !.base = "o"]}
DocCodes == {"invalid_request", "internal_server_error", "not_found", "denied", "lib_failed"}
DocStatus == [c \in DocCodes |-> CASE c = "invalid_request" -> 400 [] c = "not_found" -> 404 [] c = "denied" -> 403 [] OTHER -> 500]
Leaf == [ref : {"", "A", "B"}, doc : {"", "d"}, parts : {<<>>}] \union {[ref |-> "C", doc |-> "", parts |-> <<>>]}
Node == Leaf \union [ref : {""}, doc : {"", "e"}, parts : UNION {[1 .. n -> Leaf] : n \in 1 .. 2}]
TheGraphs == [{"A", "B"} -> Node]
TheDocuments == {[ref |-> "A", doc |-> x, parts |-> <<>>] : x \in {"", "f"}}
=============================================================================
