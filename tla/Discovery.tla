------------------------------- MODULE Discovery -------------------------------
(***************************************************************************)
(* The ops a host registers and mounts (shared/apikit), and what its       *)
(* transports then say of them: the routes and OpenAPI document of HTTP,   *)
(* the tools of an MCP session, and discovery below each.  Wiring that is  *)
(* wrong panics, so the host never serves.  The order of the ops, which is *)
(* that of every listing, is left out.                                     *)
(***************************************************************************)
EXTENDS Naturals, FiniteSets

CONSTANTS Defs,        \* the ops the host declares
          Mountable,   \* the ops of the registry it mounts from
          GroupNames,  \* the groups it declares
          WellNamed,   \* the names that are dotted lowercase snake_case
          HostErrors,  \* the codes the host adds to an op
          ServedCodes,
          StatusOf,    \* the status each served code is answered with
          MaxOps

VARIABLES host,    \* [phase, ops, groups], as wired
          sees,    \* the ops the caller may call, by name
          session  \* an MCP session's tools, and what its caller could call then

discovery == <<host, sees, session>>

Reserved == {"start", "status", "end", "ping"}
Internal1 == "internal_server_error"
Implied1 == {"invalid_request", Internal1}
NoSession == [open |-> FALSE]

Names1 == {o.name : o \in Defs \union Mountable}
Held == {o.name : o \in host.ops}
Wiring == host.phase = "wiring" /\ Cardinality(host.ops) < MaxOps /\ UNCHANGED <<sees, session>>
StartsNot == host' = [host EXCEPT !.phase = "panicked"]

----------------------------------------------------------------------------
(* The registry. *)

\* Group: a group is declared once.
Group(g) == Wiring /\ IF g \in host.groups THEN StartsNot ELSE host' = [host EXCEPT !.groups = @ \union {g}]

\* eventTypesOf: an op that streams names its events, none of them apikit's or another's.
EventsAreNamed(o) ==
  /\ \A i \in DOMAIN o.events : o.events[i] # {} /\ o.events[i] \intersect Reserved = {}
  /\ \A i, j \in DOMAIN o.events : i # j => o.events[i] \intersect o.events[j] = {}
  /\ o.events # <<>> => o.runs

\* The registry mounted from was wired as the host's is; apperr's own codes,
\* which are every op's, every server serves.
ASSUME MountableAssumption ==
  /\ \A o \in Mountable : EventsAreNamed(o)
  /\ \A o, p \in Mountable : o.name = p.name => o = p
ASSUME ServedAssumption == Implied1 \subseteq ServedCodes

Add(o) ==
  IF o.name \in Held \/ o.group \notin host.groups THEN StartsNot ELSE host' = [host EXCEPT !.ops = @ \union {o}]
RegisterOp(o) == Wiring /\ IF o.name \notin WellNamed \/ ~EventsAreNamed(o) THEN StartsNot ELSE Add(o)

\* Mount: the other registry's op, its group described as it is there, unless
\* the host describes it itself.
Mount(name) ==
  /\ Wiring
  /\ \/ ~(\E o \in Mountable : o.name = name) /\ StartsNot
     \/ \E o \in Mountable :
          /\ o.name = name
          /\ IF name \in Held THEN StartsNot
             ELSE host' = [host EXCEPT !.groups = @ \union {o.group}, !.ops = @ \union {o}]

Serve == host.phase = "wiring" /\ host' = [host EXCEPT !.phase = "serving"] /\ UNCHANGED <<sees, session>>

----------------------------------------------------------------------------
(* Discovery. *)

\* visible: of the ops a door serves, those the caller may call.
\* Mutant of Visible: the ops of every door.
VisibleAnywhere(served, may) == {o \in host.ops : o.name \in may \/ o.name \in served}
Visible(served, may) == {o \in host.ops : o.name \in served /\ o.name \in may}

Index(served, may) == {o.group : o \in Visible(served, may)}
GroupListing(served, may, g) ==
  LET listed == {o.name : o \in {p \in Visible(served, may) : p.group = g}}
  IN  IF listed = {} THEN <<"not_found">> ELSE <<"group", listed>>

PublicAs(c) == IF c \in ServedCodes THEN c ELSE Internal1
CodesOf(o) == Implied1 \union HostErrors \union {PublicAs(c) : c \in o.errors}
Usage(served, may, name) ==
  LET named == {o \in Visible(served, may) : o.name = name}
      op == CHOOSE o \in named : TRUE
  IN  IF named = {} THEN <<"not_found">> ELSE <<"usage", name, op.events, CodesOf(op)>>

----------------------------------------------------------------------------
(* The doors: HTTP's servers, and MCP. *)

ServerOf(o) == o.base
Servers == {""} \union {ServerOf(o) : o \in {p \in host.ops : p.http}}
Here(server) == {o.name : o \in {p \in host.ops : p.http /\ ServerOf(p) = server}}
OverMCP == {o.name : o \in {p \in host.ops : p.mcp}}

\* What a request below a server is for, by its method and the path there.
Route(server, method, name) ==
  IF name \notin Here(server) THEN <<"not_found">>
  ELSE IF method = "POST" THEN <<"op", name>> ELSE <<"invalid_request">>

\* The OpenAPI operation's error responses: by status, the codes of its body.
ByStatus(o) == [s \in {StatusOf[PublicAs(c)] : c \in CodesOf(o)} |-> {c \in CodesOf(o) : StatusOf[PublicAs(c)] = s}]
ErrorBodyOf(c) == [code |-> c, status |-> StatusOf[PublicAs(c)]]

\* A streamed line's schema: each event's name, and the schemas it maps to.
TypesNamed(o) == Reserved \union UNION {o.events[i] : i \in DOMAIN o.events}
MappedTo(o, n) == {i \in DOMAIN o.events : n \in o.events[i]} \union {r \in Reserved : r = n}
StreamSchema(o) == [n \in TypesNamed(o) |-> MappedTo(o, n)]

\* An MCP session opens with the tools its caller may call then.
ServerTools == {o.name : o \in Visible(OverMCP, sees)}
Open ==
  /\ host.phase = "serving" /\ ~session.open
  /\ session' = [open |-> TRUE, tools |-> ServerTools, saw |-> sees]
  /\ UNCHANGED <<host, sees>>
Sees == host.phase = "serving" /\ (\E may \in SUBSET Held : sees' = may) /\ UNCHANGED <<host, session>>

DiscoveryInit == host = [phase |-> "wiring", ops |-> {}, groups |-> {}] /\ sees = {} /\ session = NoSession
DiscoveryNext ==
  \/ \E g \in GroupNames : Group(g)
  \/ \E o \in Defs : RegisterOp(o)
  \/ \E name \in Names1 : Mount(name)
  \/ Serve \/ Open \/ Sees
DiscoverySpec == DiscoveryInit /\ [][DiscoveryNext]_discovery
----------------------------------------------------------------------------
(* What is promised. *)

Doors == [of : {"HTTP"}, server : Servers] \union {[of |-> "MCP", server |-> ""]}
ServedAt(d) == IF d.of = "MCP" THEN OverMCP ELSE Here(d.server)
\* The ops a request at a door reaches.
Reached(d) == IF d.of = "MCP" THEN Held \intersect OverMCP ELSE {n \in Names1 : Route(d.server, "POST", n) = <<"op", n>>}

Listed(d, g) ==
  LET listing == GroupListing(ServedAt(d), sees, g)
  IN  IF listing[1] = "group" THEN listing[2] ELSE {"a listed group of nothing"}

\* An agent finds by the index, then a group, then a usage, each op it may call
\* and that this door serves, and no other; one it may not is told as one
\* there is not.
LevelsAgree ==
  host.phase = "serving" =>
    \A d \in Doors :
      /\ UNION {Listed(d, g) : g \in Index(ServedAt(d), sees)} = Reached(d) \intersect sees
      /\ \A n \in Names1 : (Usage(ServedAt(d), sees, n) # <<"not_found">>) = (n \in Reached(d) \intersect sees)
      /\ Index(ServedAt(d), sees) \subseteq host.groups

\* An op is reached by a POST below its own base only, and a session's tools are those
\* its caller could call as it opened: what it may no longer is listed still.
EachAtItsDoor ==
  host.phase = "serving" =>
    /\ \A o \in host.ops : {at \in Servers \X {"POST", "GET", "PUT"} : Route(at[1], at[2], o.name)[1] = "op"} = IF o.http THEN {<<o.base, "POST">>} ELSE {}
    /\ session.open => \A n \in session.tools : n \in session.saw /\ (Usage(OverMCP, sees, n) = <<"not_found">> => n \notin sees)

\* The codes an op's usage lists are those its document has, each in the body
\* of one status, and a client is answered with no other; but a code the host
\* adds and does not serve is listed as it is.
CodesAgree ==
  host.phase = "serving" =>
    \A o \in host.ops :
      /\ UNION {ByStatus(o)[s] : s \in DOMAIN ByStatus(o)} = CodesOf(o)
      /\ \A c \in CodesOf(o) : {s \in DOMAIN ByStatus(o) : c \in ByStatus(o)[s]} = {ErrorBodyOf(c).status}
      /\ \A c \in o.errors : PublicAs(c) \in CodesOf(o)
      /\ CodesOf(o) \ ServedCodes \subseteq HostErrors

\* A line of a stream is told apart by its type: one schema has it.
EventsAreTold == \A o \in host.ops : \A n \in DOMAIN StreamSchema(o) : Cardinality(StreamSchema(o)[n]) = 1

\* Discovery, the routes, the document and the tools say the same of the ops.
DiscoveryAgrees == LevelsAgree /\ EachAtItsDoor /\ CodesAgree /\ EventsAreTold
=============================================================================
