------------------------------ MODULE Failures ------------------------------
(***************************************************************************)
(* What a failure is and what is told of it (shared/apperr, and the codes  *)
(* a server serves, shared/httpkit/status.go).  An error is the sequence   *)
(* of what wraps what, outermost first; a message is the set of the things *)
(* it says.                                                                *)
(***************************************************************************)
EXTENDS SequencesExt

CONSTANTS Codes,        \* the codes defined, public and internal
          Internal,     \* internal_server_error
          Plain,        \* what stands for the code of an error that has none
          PublicOf,     \* a code's public one: itself, unless it is internal
          ScopeOf,      \* a public code's scope: "user", "client" or "server"
          PublicSteps,  \* the steps that have a text for users
          Serves        \* the public codes the server answers with

ASSUME CodesAssumption ==
  /\ Internal \in Codes /\ Plain \notin Codes
  /\ PublicOf \in [Codes -> Codes]
  /\ \A c \in Codes : PublicOf[PublicOf[c]] = PublicOf[c]
  /\ PublicOf[Internal] = Internal
  /\ Internal \in Serves

Default(c) == {<<"default", c>>}
Unclassified == {<<"unclassified", Internal>>}
Unserved == {<<"unserved", Internal>>}

On(layer, e) == <<layer>> \o e
Layer(c, says, shows) == [code |-> c, says |-> says, steps |-> <<>>, shows |-> shows]

IsFormal(e) == e[1].code # Plain

\* An error as a formal one; a plain one is unclassified.
From(e) == IF IsFormal(e) THEN e ELSE On(Layer(Internal, Unclassified, FALSE), e)

CodeOf(e) == From(e)[1].code
Public(e) == PublicOf[CodeOf(e)]

\* The whole chain, as the log has it.
Text(e) == UNION {e[i].says : i \in DOMAIN e}

\* What an error's message shows.  An internal_server_error's is a
\* diagnosis, shown where causes are, and so is the chain nobody classified.
ClientMessage(e, hidden) ==
  LET top == From(e)[1]
  IN  IF PublicOf[top.code] # Internal THEN top.says
      ELSE IF hidden THEN Default(Internal)
      ELSE IF top.says = Unclassified THEN Text(Tail(From(e)))
      ELSE top.says

New(c, says) == <<Layer(c, says, FALSE)>>

\* Mutant of Encapsulate: the cause is shown where causes are hidden too.
EncapsulateOpen(e, c, says, hidden) ==
  On(Layer(c, IF says # {} THEN says ELSE Text(e), ~hidden), e)

\* An error classified here.  Its message is its author's; without one, its
\* cause's where causes are shown, the code's own elsewhere.
Encapsulate(e, c, says, hidden) ==
  LET shown == IF hidden THEN Default(c) ELSE ClientMessage(e, hidden)
  IN  On(Layer(c, IF says # {} THEN says ELSE shown, ~hidden), e)

\* A library's error under a host's code: its message and its steps stay,
\* but an internal_server_error's message, where causes are hidden.
Translate(e, c, hidden) ==
  On(Layer(c, IF Public(e) = Internal /\ hidden THEN Default(c) ELSE ClientMessage(e, hidden), TRUE), e)

WithSteps(e, steps) == On([e[1] EXCEPT !.steps = steps], Tail(e))
WithStep(e, step) == WithSteps(From(e), <<step>> \o From(e)[1].steps)

\* The steps told: the outermost error's, and those under what shows its own.
DisclosedAt(e, i) == IF \A j \in 1 .. i - 1 : e[j].shows THEN e[i].steps ELSE <<>>
Disclosed(e) == FlattenSeq([i \in DOMAIN e |-> DisclosedAt(e, i)])
Context(e) == SelectSeq(Disclosed(e), LAMBDA s : s \in PublicSteps)

Response(e, hidden) ==
  [code |-> Public(e), scope |-> ScopeOf[Public(e)], context |-> Context(From(e)), message |-> ClientMessage(e, hidden)]

Served(c) == IF PublicOf[c] \in Serves THEN PublicOf[c] ELSE Internal

\* What a server answers: a code it does not serve is an internal_server_error
\* that keeps the steps of what it hides.
Render(e, hidden) ==
  LET masked == Encapsulate(e, Internal, Unserved, hidden)
      shown == IF Served(CodeOf(e)) = Public(e) THEN From(e) ELSE WithSteps(masked, From(e)[1].steps)
  IN  Response(shown, hidden)

\* A failure's log line: its code as served, at its scope's level.
LevelOf(c) == [user |-> "info", client |-> "warn", server |-> "error"][ScopeOf[c]]
=============================================================================
