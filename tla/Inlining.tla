------------------------------ MODULE Inlining ------------------------------
(***************************************************************************)
(* A JSON schema made to stand alone, as discovery and MCP's tools show it *)
(* (shared/apikit/discovery.go): each reference into the registry's        *)
(* schemas replaced by what it names, what refers to itself kept once.     *)
(***************************************************************************)
EXTENDS Naturals, SequencesExt

CONSTANTS Graphs,    \* a registry's schemas, by name the node each is
          Documents  \* the nodes that are inlined

VARIABLES inlined    \* a document, its registry's schemas, and what Inline makes of it

inlining == <<inlined>>

Schemas == inlined.schemas
NoDoc == ""
NoRef == ""

\* A node: a schema it refers to, a description of its own, its parts.
RECURSIVE InlineNode(_, _)
\* Mutant of InlineNode: what is said beside a reference is lost with it.
InlineNodeUnsaid(node, seen) ==
  IF node.ref = NoRef THEN [node EXCEPT !.parts = [i \in DOMAIN @ |-> InlineNode(@[i], seen)]]
  ELSE IF node.ref \in seen THEN [node EXCEPT !.ref = "$defs/" \o @]
  ELSE InlineNode(Schemas[node.ref], seen \union {node.ref})
\* The node with each reference replaced, but to what is being replaced: those
\* are into the document's own definitions.
InlineNode(node, seen) ==
  IF node.ref = NoRef THEN [node EXCEPT !.parts = [i \in DOMAIN @ |-> InlineNode(@[i], seen)]]
  ELSE IF node.ref \in seen THEN [node EXCEPT !.ref = "$defs/" \o @]
  ELSE InlineNode([Schemas[node.ref] EXCEPT !.doc = IF node.doc = NoDoc THEN @ ELSE node.doc], seen \union {node.ref})

RECURSIVE RefsOf(_)
RefsOf(node) == (IF node.ref = NoRef THEN {} ELSE {node.ref}) \union UNION {RefsOf(node.parts[i]) : i \in DOMAIN node.parts}

RECURSIVE Missing(_, _)
\* A reference to what the registry does not hold is an error.
Missing(node, seen) ==
  \/ node.ref # NoRef /\ node.ref \notin seen /\ (node.ref \notin DOMAIN Schemas \/ Missing(Schemas[node.ref], seen \union {node.ref}))
  \/ \E i \in DOMAIN node.parts : Missing(node.parts[i], seen)

RECURSIVE DefsFrom(_)
\* The definitions a document ends with, from those it has: the ones they refer to.
DefsFrom(named) ==
  LET refs == UNION {RefsOf(InlineNode(Schemas[n], {n})) : n \in named}
      more == {n \in DOMAIN Schemas : "$defs/" \o n \in refs}
  IN  IF more \subseteq named THEN named ELSE DefsFrom(named \union more)

Inline(document) ==
  IF Missing(document, {}) THEN [error |-> "not in the registry"]
  ELSE LET root == InlineNode(document, {})
           named == DefsFrom({n \in DOMAIN Schemas : "$defs/" \o n \in RefsOf(root)})
       IN  [root |-> root, defs |-> [n \in {"$defs/" \o m : m \in named} |-> InlineNode(Schemas[CHOOSE m \in named : "$defs/" \o m = n], {CHOOSE m \in named : "$defs/" \o m = n})]]

InlinesOne == inlined.as = <<>> /\ inlined' = [inlined EXCEPT !.as = <<Inline(inlined.document)>>]

InliningInit == inlined \in [schemas : Graphs, document : Documents, as : {<<>>}]
----------------------------------------------------------------------------
(* What is promised. *)

RECURSIVE Unfold(_, _, _, _)
\* A schema unfolded to a depth, its references followed.
Unfold(schemas, node, depth, followed) ==
  IF node.ref \in followed THEN <<"itself">>
  ELSE IF node.ref # NoRef THEN Unfold(schemas, [schemas[node.ref] EXCEPT !.doc = IF node.doc = NoDoc THEN @ ELSE node.doc], depth, followed \union {node.ref})
  ELSE <<node.doc, IF depth = 0 THEN <<>> ELSE [i \in DOMAIN node.parts |-> Unfold(schemas, node.parts[i], depth - 1, {})]>>

RefsIn(names) == UNION {RefsOf(Schemas[n]) : n \in names \intersect DOMAIN Schemas}
RECURSIVE Leads(_)
Leads(names) == IF RefsIn(names) \subseteq names THEN names ELSE Leads(names \union RefsIn(names))

\* An inlined schema stands alone and says what the document said; it refers
\* only to what is recursive.
StandsAlone ==
  inlined.as # <<>> =>
    LET as == inlined.as[1]
        reached == Leads(RefsOf(inlined.document))
    IN  IF "error" \in DOMAIN as THEN ~(reached \subseteq DOMAIN Schemas)
        ELSE /\ reached \subseteq DOMAIN Schemas
             /\ RefsOf(as.root) \union UNION {RefsOf(as.defs[n]) : n \in DOMAIN as.defs} = DOMAIN as.defs
             /\ DOMAIN as.defs \subseteq {"$defs/" \o n : n \in {m \in reached : m \in Leads(RefsIn({m}))}}
             /\ Unfold(as.defs, as.root, 3, {}) = Unfold(Schemas, inlined.document, 3, {})
=============================================================================
