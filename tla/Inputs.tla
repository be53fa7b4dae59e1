------------------------------- MODULE Inputs -------------------------------
(***************************************************************************)
(* What a core command runs on, from what was typed: its flags, positional *)
(* and piped text made its input (cmd/anfra/commands.go), then held to its *)
(* schema (shared/apikit/internal/decode), its defaults and its own check  *)
(* (internal/command).  A command is the args its In declares, in order; a *)
(* value is the text typed.                                                *)
(***************************************************************************)
EXTENDS Naturals, Sequences

CONSTANTS Declarations,  \* the args each command declares, a sequence of them
          FlagsTyped,    \* what may be typed: flags and their values
          MaxFlags       \* how many at most

VARIABLES typed, \* what was typed, and of which command
          read   \* what the command makes of it

inputs == <<typed, read>>

Numbers == {"0", "1"}
Blank(s) == s \in {"", " "}
NotGiven == "not given"

\* An arg as a field's tags have it; an object's fields are those with a flag
\* of their own, named by its path.
Arg(name, type) ==
  [name |-> name, type |-> type, required |-> FALSE, enum |-> {}, default |-> NotGiven, group |-> NotGiven,
   positional |-> FALSE, stdin |-> FALSE, aliases |-> {}, fields |-> {}]

ArgsOf(t) == Declarations[t.of]
Args == ArgsOf(typed)

Named(args) == {args[i].name : i \in DOMAIN args}
ArgOf(args, name) == args[CHOOSE i \in DOMAIN args : args[i].name = name]
Groups(args) == {args[i].group : i \in DOMAIN args} \ {NotGiven}
Members(args, g) == {i \in DOMAIN args : args[i].group = g}
Positional(args) == {i \in DOMAIN args : args[i].positional}

Earliest(positions) == CHOOSE i \in positions : \A j \in positions : i <= j
Latest(positions) == CHOOSE i \in positions : \A j \in positions : j <= i

\* The flags of an arg's own, and those of its fields.
OwnFlags(a) == IF a.positional THEN {} ELSE {a.name} \union a.aliases
Paths(a) == {f.path : f \in a.fields}
FlagsOf(a) == OwnFlags(a) \union Paths(a)

\* parseArgs: the sets of args a command may declare; and pflag's, which panics
\* on a flag defined twice.
Declared(args) ==
  /\ \A i, j \in DOMAIN args :
       i # j => /\ ({args[i].name} \union args[i].aliases) \intersect ({args[j].name} \union args[j].aliases) = {}
                /\ FlagsOf(args[i]) \intersect FlagsOf(args[j]) = {}
                /\ ~(args[i].positional /\ args[j].positional)
  /\ \A i \in DOMAIN args :
       LET a == args[i]
       IN  /\ a.positional => a.type \in {"string", "strings"}
           /\ a.required \/ a.enum # {} \/ a.default # NotGiven \/ a.stdin => a.type = "string"
           /\ a.required => a.default = NotGiven /\ a.group = NotGiven
           /\ a.default # NotGiven /\ a.enum # {} => a.default \in a.enum
           /\ a.fields # {} => a.type = "object"
           /\ OwnFlags(a) \intersect Paths(a) = {}
           /\ \A f, g \in a.fields : f.path = g.path => f = g
           /\ a.group # NotGiven => \E j \in Members(args, a.group) : j # i

\* A command that declares a lang declares the targets it chooses between, and
\* a page with its size (QueryInput, QueryRunInput and export's).
Targets(args) ==
  "lang" \in Named(args) =>
    {"dataset", "data_source"} \subseteq Named(args) /\ ("page" \in Named(args) => "page_size" \in Named(args))

ASSUME InputsAssumption ==
  \A c \in DOMAIN Declarations :
    LET args == Declarations[c]
    IN  args \in Seq({args[i] : i \in DOMAIN args}) /\ (Declared(args) => Targets(args))

----------------------------------------------------------------------------
(* The flags, as cobra and pflag take them. *)

IsFlag(args, f) == \E i \in DOMAIN args : f \in FlagsOf(args[i])
SetBy(args, f) == args[CHOOSE i \in DOMAIN args : f \in FlagsOf(args[i])]
TypeOf(args, f) ==
  LET a == SetBy(args, f)
  IN  IF f \in OwnFlags(a) THEN a.type ELSE (CHOOSE g \in a.fields : g.path = f).type
Taken(args, f) == IsFlag(args, f.flag) /\ (TypeOf(args, f.flag) = "int" => f.value \in Numbers)

Refusal(field, code) == [as |-> "refused", violations |-> {[field |-> field, code |-> code, arg |-> <<>>]}]

\* Where a flag was set, and what it holds: the last value, or each of a list.
Where(t, f) == {i \in DOMAIN t.flags : t.flags[i].flag = f}
Given(t, f) ==
  IF TypeOf(ArgsOf(t), f) = "strings" THEN [i \in Where(t, f) |-> t.flags[i].value] ELSE t.flags[Latest(Where(t, f))].value

Own(t, a) == {f \in OwnFlags(a) : Where(t, f) # {}}
Fields(t, a) == {f \in Paths(a) : Where(t, f) # {}}

\* pflag's Visit is in the order the flags were first set: of an arg's names the
\* one set last has it.
SetAt(t, f) == Earliest(Where(t, f))
LastNamed(t, a) == CHOOSE f \in Own(t, a) : \A g \in Own(t, a) : SetAt(t, g) <= SetAt(t, f)

\* What is no JSON object, or no array of them; and an object set both ways.
IsNoJSON(type, value) == (type = "object" /\ value # "{}") \/ (type = "objects" /\ value # "[]")
BadObjects(t) == {i \in DOMAIN t.flags : IsNoJSON(TypeOf(ArgsOf(t), t.flags[i].flag), Given(t, t.flags[i].flag))}
SetTwice(t) == {i \in DOMAIN ArgsOf(t) : Own(t, ArgsOf(t)[i]) # {} /\ Fields(t, ArgsOf(t)[i]) # {}}

\* flagValues: only what was set; an object's fields by their paths.
ValueOf(t, a) == IF Own(t, a) # {} THEN Given(t, LastNamed(t, a)) ELSE [f \in Fields(t, a) |-> Given(t, f)]
FlagValues(t) ==
  [n \in {ArgsOf(t)[i].name : i \in {j \in DOMAIN ArgsOf(t) : Own(t, ArgsOf(t)[j]) \union Fields(t, ArgsOf(t)[j]) # {}}} |->
     ValueOf(t, ArgOf(ArgsOf(t), n))]

Put(values, n, v) == [m \in DOMAIN values \union {n} |-> IF m = n THEN v ELSE values[m]]

TextFor(t, a) == IF a.type = "strings" THEN t.text ELSE t.text[1]
WithText(t, values) ==
  IF t.text = <<>> \/ Positional(ArgsOf(t)) = {} THEN values
  ELSE LET a == ArgsOf(t)[Earliest(Positional(ArgsOf(t)))] IN Put(values, a.name, TextFor(t, a))

\* applyStdin, trimmed: only where the arg is unset, and something is piped.
\* Mutant of Unset: what is piped is taken whatever is set.
UnsetEver(values, n) == n = n
Unset(values, n) == n \notin DOMAIN values \/ Blank(values[n])
WithStdin(t, values) ==
  LET unset == {i \in DOMAIN ArgsOf(t) : ArgsOf(t)[i].stdin /\ Unset(values, ArgsOf(t)[i].name)}
  IN  IF unset = {} \/ Blank(t.piped) THEN values ELSE Put(values, ArgsOf(t)[Earliest(unset)].name, t.piped)

----------------------------------------------------------------------------
(* The op's schema, then the command's defaults and its check. *)

Violation(field, code) == [field |-> field, code |-> code]

\* A group's: none set, at its first arg; more than one, at each after the first.
ExactlyOne(args, g, values) ==
  LET set == {i \in Members(args, g) : args[i].name \in DOMAIN values}
  IN  IF set = {} THEN {Violation(args[Earliest(Members(args, g))].name, "required")}
      ELSE {Violation(args[i].name, "invalid") : i \in set \ {Earliest(set)}}

\* An arg's, by what its tags ask: of no value, of its value, of its fields.
Unfit(t, a, values) ==
  {v \in {Violation(a.name, "required")} : a.required /\ a.name \notin DOMAIN values}
    \union {v \in {Violation(a.name, "too_short")} : a.required /\ a.name \in DOMAIN values /\ values[a.name] = ""}
    \union {v \in {Violation(a.name, "invalid")} :
              a.name \in DOMAIN values /\ ((a.enum # {} /\ values[a.name] \notin a.enum) \/ (a.type = "int" /\ values[a.name] = "0"))}
    \union {Violation(f.path, "invalid") : f \in {g \in a.fields : g.path \in Fields(t, a) /\ g.enum # {} /\ values[a.name][g.path] \notin g.enum}}
Violations(t, values) ==
  (UNION {Unfit(t, ArgsOf(t)[i], values) : i \in DOMAIN ArgsOf(t)}) \union (UNION {ExactlyOne(ArgsOf(t), g, values) : g \in Groups(ArgsOf(t))})

Defaulted(args, values) ==
  LET unset == {n \in Named(args) : ArgOf(args, n).default # NotGiven /\ Unset(values, n)}
  IN  [n \in DOMAIN values \union unset |-> IF n \in unset THEN ArgOf(args, n).default ELSE values[n]]

\* The check of query: the target its language runs against, and what is AQL's,
\* which a Query Input and a time zone are too and are refused alike; that a time
\* zone is none and that a query's text has a limit: are left out.
Has(in, n) == n \in DOMAIN in /\ in[n] # ""
Lacks(in, n) == n \notin DOMAIN in \/ Blank(in[n])
Check(in) ==
  IF "lang" \notin DOMAIN in THEN {}
  ELSE IF in["lang"] = "sql" THEN
    IF Has(in, "dataset") THEN {Violation("dataset", "invalid")}
    ELSE IF Lacks(in, "data_source") THEN {Violation("data_source", "required")}
    ELSE IF "page" \in DOMAIN in THEN {Violation("page", "unsupported")}
    ELSE IF "page_size" \in DOMAIN in THEN {Violation("page_size", "unsupported")} ELSE {}
  ELSE
    IF Has(in, "data_source") THEN {Violation("data_source", "unsupported")}
    ELSE IF Lacks(in, "dataset") THEN {Violation("dataset", "required")}
    ELSE IF "page" \in DOMAIN in /\ "page_size" \notin DOMAIN in THEN {Violation("page_size", "required")} ELSE {}

\* A violation's field as the user passes it: an arg's flag, the positional's
\* name; what is no arg as it is.
ArgName(args, field) ==
  IF field \notin Named(args) THEN <<"as_it_is", field>>
  ELSE IF ArgOf(args, field).positional THEN <<"positional", field>> ELSE <<"flag", field>>
Refuses(args, vs) == [as |-> "refused", violations |-> {[field |-> v.field, code |-> v.code, arg |-> ArgName(args, v.field)] : v \in vs}]

ValuesOf(t) == WithStdin(t, WithText(t, FlagValues(t)))
RunsOn(t) ==
  LET unfit == Violations(t, ValuesOf(t))
      in == Defaulted(ArgsOf(t), ValuesOf(t))
  IN  IF unfit # {} THEN Refuses(ArgsOf(t), unfit)
      ELSE IF Check(in) # {} THEN Refuses(ArgsOf(t), Check(in))
      ELSE [as |-> "input", input |-> in]

Unread(t) == {i \in DOMAIN t.flags : ~Taken(ArgsOf(t), t.flags[i])}
MostTexts(t) ==
  IF Positional(ArgsOf(t)) = {} THEN 0
  ELSE IF ArgsOf(t)[Earliest(Positional(ArgsOf(t)))].type = "strings" THEN Len(t.text) ELSE 1
\* What asks for an export's YAML without its --link, which is not an arg, is left out.
BuildCommand(t) ==
  IF Unread(t) # {} THEN
    LET f == t.flags[Earliest(Unread(t))].flag IN Refusal(f, IF IsFlag(ArgsOf(t), f) THEN "invalid" ELSE "unknown")
  ELSE IF Len(t.text) > MostTexts(t) THEN Refusal("args", "invalid")
  ELSE IF BadObjects(t) # {} THEN Refusal(t.flags[Earliest(BadObjects(t))].flag, "invalid")
  ELSE IF SetTwice(t) # {} THEN Refusal(ArgsOf(t)[Earliest(SetTwice(t))].name, "invalid")
  ELSE RunsOn(t)

Texts1 == {<<>>, <<"q">>, <<"">>, <<" ">>, <<"q", "r">>}
Typed ==
  [of : {c \in DOMAIN Declarations : Declared(Declarations[c])}, flags : UNION {[1 .. n -> FlagsTyped] : n \in 0 .. MaxFlags},
   text : Texts1, piped : {"", "p"}]
InputsInit == typed \in Typed /\ read = [as |-> "nothing"]
Read == read.as = "nothing" /\ read' = BuildCommand(typed) /\ UNCHANGED typed
InputsSpec == InputsInit /\ [][Read]_inputs
----------------------------------------------------------------------------
(* What is promised. *)

\* What was told of an arg: its text; or by flag, of its names by the one that
\* was first typed last.
ToldOf(t, a) ==
  IF a.positional THEN {TextFor(t, a) : said \in {t.text} \ {<<>>}}
  ELSE {Given(t, f) : f \in {g \in Own(t, a) : \A h \in Own(t, a) \ {g} : SetAt(t, h) < SetAt(t, g)}}
NoneTold(t, a) == \A v \in ToldOf(t, a) : Blank(v)

\* Or what was piped, for the first that reads it of which nothing was told;
\* and then its default.
IsPiped(t, i) ==
  LET Reads(j) == ArgsOf(t)[j].stdin /\ NoneTold(t, ArgsOf(t)[j])
  IN  ~Blank(t.piped) /\ Reads(i) /\ \A j \in DOMAIN ArgsOf(t) : Reads(j) => i <= j
Heard(t, i) == IF IsPiped(t, i) THEN {t.piped} ELSE ToldOf(t, ArgsOf(t)[i])
SaidOf(t, i) ==
  LET a == ArgsOf(t)[i]
  IN  IF a.default # NotGiven /\ (\A v \in Heard(t, i) : Blank(v)) THEN {a.default} ELSE Heard(t, i)

\* A command runs on what was said and nothing else.
RunsOnWhatWasSaid ==
  read.as = "input" =>
    /\ DOMAIN read.input \subseteq Named(Args)
    /\ \A i \in DOMAIN Args :
         LET a == Args[i]
         IN  IF Fields(typed, a) # {} THEN a.name \in DOMAIN read.input /\ read.input[a.name] = [f \in Fields(typed, a) |-> Given(typed, f)]
             ELSE {read.input[n] : n \in DOMAIN read.input \intersect {a.name}} = SaidOf(typed, i)

\* What runs meets what its declaration asks of it; but spaces are taken for a
\* required text, and a default beside what is set of a group.
IsOf(i, in) == Args[i].name \in DOMAIN in
RunsOnlyWhatFits ==
  read.as = "input" =>
    /\ \A i \in DOMAIN Args :
         LET a == Args[i]
         IN  /\ a.required => IsOf(i, read.input) /\ read.input[a.name] # ""
             /\ a.enum # {} /\ IsOf(i, read.input) => read.input[a.name] \in a.enum
             /\ \A f \in a.fields : f.path \in Fields(typed, a) /\ f.enum # {} => read.input[a.name][f.path] \in f.enum
    /\ \A g \in Groups(Args) :
         \E only \in Members(Args, g) : \A i \in Members(Args, g) : IsOf(i, read.input) <=> i = only \/ Args[i].default # NotGiven
    /\ "lang" \in DOMAIN read.input =>
         LET runsOn == {n \in {"dataset", "data_source"} : ~Lacks(read.input, n)}
         IN  /\ runsOn = {IF read.input["lang"] = "sql" THEN "data_source" ELSE "dataset"}
             /\ "page" \in DOMAIN read.input => "page_size" \in DOMAIN read.input /\ read.input["lang"] # "sql"

\* A refusal is of what was typed, and says the flag or the text to fix; but
\* what is refused as it is typed names none, nor does a field of an object,
\* and an alias is named as what it stands for.
IsWrong(v) ==
  IF v.code = "unknown" THEN v.field \in {typed.flags[i].flag : i \in DOMAIN typed.flags} /\ ~IsFlag(Args, v.field)
  ELSE IF v.code = "required" THEN \E i \in DOMAIN Args : Args[i].name = v.field /\ \A said \in Heard(typed, i) : Blank(said)
  ELSE IF v.code = "too_short" THEN \E i \in DOMAIN Args : Args[i].name = v.field /\ Heard(typed, i) = {""}
  ELSE \/ v.field = "args" /\ typed.text # <<>>
       \/ v.field \in {typed.flags[i].flag : i \in DOMAIN typed.flags}
       \/ \E i \in DOMAIN Args : Args[i].name = v.field /\ SaidOf(typed, i) \union Fields(typed, Args[i]) # {}
IsNamed(v) ==
  v.arg # <<>> =>
    /\ v.arg[2] = v.field
    /\ v.arg[1] = "flag" => IsFlag(Args, v.field)
    /\ v.arg[1] = "positional" => \E i \in Positional(Args) : Args[i].name = v.field
    /\ v.arg[1] = "as_it_is" => \E i \in DOMAIN Args : v.field \in Fields(typed, Args[i])
RefusesOnlyWhatIsWrong ==
  read.as = "refused" => read.violations # {} /\ \A v \in read.violations : IsWrong(v) /\ IsNamed(v)

\* A command runs on what was typed, read as its declaration says, or tells
\* what of it is wrong.
InputIsRead == RunsOnWhatWasSaid /\ RunsOnlyWhatFits /\ RefusesOnlyWhatIsWrong
=============================================================================
