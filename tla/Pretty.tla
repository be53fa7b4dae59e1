------------------------------- MODULE Pretty -------------------------------
(***************************************************************************)
(* How a result is laid out for a person (internal/pretty): which values   *)
(* are a section, a table, blocks, a grid or a tree, how wide they are and *)
(* where each part of the value is shown.  A text is its width, and where  *)
(* it comes from in the value: its path, a sequence of positions.          *)
(***************************************************************************)
EXTENDS Integers, Sequences, SequencesExt, FiniteSetsExt

CONSTANTS
  Texts,      \* the texts: [width, number, quoted, more], of one line or more, quoted in CSV or not
  Names,      \* the fields of an object, each to its label's width
  Terminals,  \* the widths of terminals; 0 is none
  PathsDrawn  \* the lists of paths a tree is drawn of, each path a sequence of names

VARIABLES subject, width, drawn

pretty == <<subject, width, drawn>>

\* A value: [is, text], [is, fields], [is, items] or null.  A field: [name, value, truncate].
Null == [is |-> "null"]
Scalar(text) == [is |-> "scalar", text |-> text]
ListOf(items) == [is |-> "list", items |-> items]
ObjectOf(fields) == [is |-> "object", fields |-> fields]

Values == {Scalar(t) : t \in Texts} \cup {Null}
Objects(values) ==
  {ObjectOf(<<[name |-> n, value |-> v]>>) : n \in DOMAIN Names, v \in values}
  \cup {ObjectOf(<<[name |-> "a", value |-> v], [name |-> "b", value |-> w]>>) : v, w \in values}
Nested == {ListOf(<<Scalar(t), v>>) : t \in Texts, v \in Values} \cup {ListOf(<<o>>) : o \in {ObjectOf(<<[name |-> "a", value |-> v]>>) : v \in Values}}
Lists ==
  {ListOf(<<o, p>>) : o \in Objects(Values), p \in Objects(Values) \cup {Null}}
  \cup {ListOf(<<o>>) : o \in Objects(Values \cup Nested)} \cup Nested \cup {ListOf(<<Null, Null>>), ListOf(<<>>)}
Grids == {ListOf(<<ListOf(<<v, w>>), ListOf(<<x, y>>)>>) : v, w, x, y \in Values}

\* A run's steps, by when they started: a child, deeper, after its parent.
Timed(n) ==
  {t \in [1 .. n -> [depth : 0 .. 1, start : 0 .. 4]] :
     t[1].depth = 0 /\ t[1].start = 0 /\ \A i \in 2 .. n : t[i - 1].start <= t[i].start}

PrettyInit ==
  /\ \/ subject \in [as : {"listing"}, value : Lists, truncate : {"a", "none"}]
     \/ subject \in [as : {"rows"}, value : Grids, labels : {<<>>, <<3, 9>>}]
     \/ subject \in [as : {"tree"}, paths : PathsDrawn]
     \/ \E n \in 1 .. 4 : subject \in [as : {"timings"}, steps : Timed(n), end : 4 .. 5]
  /\ width \in Terminals /\ drawn = <<>>

-----------------------------------------------------------------------------
(* Cells. *)

IsEmpty(v) == v.is = "null" \/ (v.is = "list" /\ v.items = <<>>)

\* A cell: its width, whether it reads as a number, and what it shows: scalars,
\* each where its first character is.
Showing(path, from) == [path |-> path, from |-> from]
NoneCell == [width |-> 6, number |-> FALSE, none |-> TRUE, shows |-> {}, head |-> ""]
TextOf(text) == IF text.more THEN text.width + 1 ELSE text.width \* firstLine: then ...
ScalarCell(v, path) == [width |-> TextOf(v.text), number |-> v.text.number, none |-> FALSE, shows |-> {Showing(path, 0)}, head |-> ""]

Sum(ns) == FoldLeft(LAMBDA a, n : a + n, 0, ns)
\* joinedCell: one line, each quoted where CSV does.
Joined(values, paths) ==
  LET widths == [i \in DOMAIN values |-> TextOf(values[i].text) + IF values[i].text.quoted THEN 2 ELSE 0]
      from(i) == Sum(SubSeq(widths, 1, i - 1)) + (i - 1) + IF values[i].text.quoted THEN 1 ELSE 0
  IN  [width |-> Sum(widths) + (IF values = <<>> THEN 0 ELSE Len(values) - 1), none |-> FALSE,
       number |-> Len(values) = 1 /\ values[1].text.number /\ ~values[1].text.quoted,
       shows |-> {Showing(paths[i], from(i)) : i \in DOMAIN paths}, head |-> ""]

\* shapeOf: what the elements that are not null share.
ShapeOf(items) ==
  LET kinds == {items[i].is : i \in DOMAIN items} \ {"null"}
  IN  IF Cardinality(kinds) = 1 THEN CHOOSE k \in kinds : TRUE ELSE "anything"
HasNull(items) == \E i \in DOMAIN items : items[i].is = "null"

At(path, i) == Append(path, i)
NotNull(fields) == SelectSeq([i \in DOMAIN fields |-> i], LAMBDA i : ~IsEmpty(fields[i].value))
\* scalarsOf: none unless they are all scalars.
AllScalars(o) == \A i \in DOMAIN o.fields : o.fields[i].value.is \in {"scalar", "null"}
ObjectCell(o, path) ==
  LET shown == NotNull(o.fields)
  IN  Joined([i \in DOMAIN shown |-> o.fields[shown[i]].value], [i \in DOMAIN shown |-> At(path, shown[i])])

\* cellOf: whether a value fits in a cell, and the cell.
InCell(v) ==
  \/ IsEmpty(v) \/ v.is = "scalar"
  \/ v.is = "object" /\ AllScalars(v)
  \/ v.is = "list" /\ ShapeOf(v.items) = "scalar"
  \/ v.is = "list" /\ ShapeOf(v.items) = "object" /\ Len(v.items) = 1 /\ AllScalars(v.items[1])
CellOf(v, path) ==
  CASE IsEmpty(v) -> NoneCell
    [] v.is = "scalar" -> ScalarCell(v, path)
    [] v.is = "object" -> ObjectCell(v, path)
    [] ShapeOf(v.items) = "scalar" -> Joined(v.items, [i \in DOMAIN v.items |-> At(path, i)])
    [] OTHER -> ObjectCell(v.items[1], At(path, 1))

-----------------------------------------------------------------------------
(* What a value is laid out as. *)

Columns(cells) == Max({Len(cells[i]) : i \in DOMAIN cells} \cup {0})
\* columnWidths
Widths(heads, rows) ==
  [c \in 1 .. Max({Len(heads), Columns(rows)}) |->
     Max({IF c \in DOMAIN heads THEN heads[c] ELSE 0} \cup {rows[i][c].width : i \in {r \in DOMAIN rows : c \in DOMAIN rows[r]}})]
Total(indent, widths) == indent + 3 * (Len(widths) - 1) + Sum(widths)

\* prettyListOf: the columns are the first item's fields.
Row(o, path) == [c \in DOMAIN o.fields |-> [CellOf(o.fields[c].value, At(path, c)) EXCEPT !.head = o.fields[c].name]]
Table(items, path, truncate) ==
  LET first == items[1].fields
  IN  [heads |-> [c \in DOMAIN first |-> first[c].name],
       labels |-> [c \in DOMAIN first |-> Names[first[c].name]],
       rows |-> [i \in DOMAIN items |-> Row(items[i], At(path, i))],
       truncate |-> Max({c \in DOMAIN first : first[c].name = truncate} \cup {0})]
Tabular(items) == \A i \in DOMAIN items : \A c \in DOMAIN items[i].fields : InCell(items[i].fields[c].value)

\* A bug to catch: a table that is too wide is cut, whichever column may be.
FitsCut(t, indent) ==
  LET widths == Widths(t.labels, t.rows)
  IN  width = 0 \/ Total(indent, widths) <= width \/ t.truncate > 0
\* fits: as it is, or with its truncatable column cut to no less than 8.
Fits(t, indent) ==
  LET widths == Widths(t.labels, t.rows)
      total == Total(indent, widths)
  IN  width = 0 \/ total <= width \/ (t.truncate > 0 /\ total - widths[t.truncate] + 8 <= width)

\* table: the columns' widths as drawn.
DrawnWidths(t, indent) ==
  LET widths == Widths(t.labels, t.rows)
      over == Total(indent, widths) - width
  IN  IF width > 0 /\ t.truncate > 0 /\ over > 0
      THEN [widths EXCEPT ![t.truncate] = Max({@ - over, 8})] ELSE widths
\* A cell wider than its column is cut, an ellipsis last.
ShownIn(cell, w) == {s.path : s \in {x \in cell.shows : cell.width <= w \/ x.from < w - 1}}
\* The header is not cut: a label is drawn whole.
HeadWidths(t, widths) == [c \in DOMAIN widths |-> Max({widths[c]} \cup {t.labels[i] : i \in DOMAIN t.labels \cap {c}})]

\* numericColumns: of every row's value that is not <none>.
Numeric(rows, c) ==
  LET cells == {rows[i][c] : i \in {r \in DOMAIN rows : c \in DOMAIN rows[r]}}
      known == {x \in cells : ~x.none}
  IN  known # {} /\ \A x \in known : x.number

\* A block's heading: the first scalar that is not empty.
Heading(o) == Min({c \in DOMAIN o.fields : o.fields[c].value.is = "scalar"} \cup {Len(o.fields) + 1})

\* prettyValueOf and entries: the paths shown, and the widest line where it is bounded.
RECURSIVE Shown(_, _, _, _)
Shown(v, path, truncate, indent) ==
  CASE IsEmpty(v) -> {}
    [] v.is = "scalar" -> {path}
    [] v.is = "object" -> UNION {Shown(v.fields[c].value, At(path, c), truncate, indent + 2) : c \in DOMAIN v.fields}
    [] ShapeOf(v.items) = "scalar" -> {At(path, i) : i \in DOMAIN v.items}
    [] ShapeOf(v.items) = "object" /\ Tabular(v.items) /\ Fits(Table(v.items, path, truncate), indent) ->
         LET t == Table(v.items, path, truncate)
             widths == DrawnWidths(t, indent)
         IN  UNION {UNION {ShownIn(t.rows[i][c], widths[c]) : c \in DOMAIN t.rows[i]} : i \in DOMAIN t.rows}
    [] ShapeOf(v.items) = "object" ->
         UNION {(IF Heading(v.items[i]) \in DOMAIN v.items[i].fields THEN {At(At(path, i), Heading(v.items[i]))} ELSE {})
                \cup UNION {Shown(v.items[i].fields[c].value, At(At(path, i), c), truncate, indent + 4) :
                              c \in DOMAIN v.items[i].fields \ {Heading(v.items[i])}} : i \in DOMAIN v.items}
    [] OTHER -> {path} \* as it prints, whole

\* What cannot be drawn: a null among scalars or objects ends the program.
Panics(v) ==
  /\ v.is = "list" /\ v.items # <<>>
  /\ \/ HasNull(v.items) /\ ShapeOf(v.items) \in {"scalar", "object"}
     \/ ShapeOf(v.items) = "object" /\ \E i \in DOMAIN v.items : v.items[i].is = "object" /\
          \E c \in DOMAIN v.items[i].fields :
            LET w == v.items[i].fields[c].value IN w.is = "list" /\ HasNull(w.items) /\ ShapeOf(w.items) = "scalar"

-----------------------------------------------------------------------------
(* Rows, and trees. *)

\* prettyRows: a cell's lists are their JSON, a null <none>.
GridRows(items) ==
  [i \in DOMAIN items |-> [c \in DOMAIN items[i].items |-> CellOf(items[i].items[c], <<i, c>>)]]
GridWidth(rows, labels, indent) == indent + 1 + Sum([c \in DOMAIN Widths(labels, rows) |-> Widths(labels, rows)[c] + 3])
\* grid: or one block a row, where the terminal is narrower.
Blocks(rows, labels, indent) == width > 0 /\ GridWidth(rows, labels, indent) > width

\* treeLines: the folders and files under a folder, which is the path to it.
Under(paths, dir) == SelectSeq(paths, LAMBDA p : Len(p) > Len(dir) /\ SubSeq(p, 1, Len(dir)) = dir)
Dirs(paths, dir) == {p[Len(dir) + 1] : p \in {q \in ToSet(Under(paths, dir)) : Len(q) > Len(dir) + 1}}
Files(paths, dir) == SelectSeq(Under(paths, dir), LAMBDA p : Len(p) = Len(dir) + 1)
Entries(paths, dir) == Cardinality(Dirs(paths, dir)) + Len(Files(paths, dir))
\* A folder of one entry joins it on one line, down to a file or a folder of more.
RECURSIVE Joins(_, _)
Joins(paths, dir) ==
  IF Entries(paths, dir) # 1 THEN [names |-> dir, file |-> FALSE]
  ELSE IF Len(Files(paths, dir)) = 1 THEN [names |-> Files(paths, dir)[1], file |-> TRUE]
  ELSE Joins(paths, Append(dir, CHOOSE d \in Dirs(paths, dir) : TRUE))
\* A line: how deep, the names on it, and whether it is a file's.
RECURSIVE TreeLines(_, _, _)
TreeLines(paths, dir, depth) ==
  LET line(to) == [depth |-> depth, names |-> SubSeq(to.names, Len(dir) + 1, Len(to.names)), file |-> to.file]
      folder(d) == LET to == Joins(paths, Append(dir, d))
                   IN  <<line(to)>> \o IF to.file THEN <<>> ELSE TreeLines(paths, to.names, depth + 1)
      files == Files(paths, dir)
  IN  FoldLeft(LAMBDA lines, d : lines \o folder(d), <<>>, SetToSeq(Dirs(paths, dir)))
      \o [i \in DOMAIN files |-> line([names |-> files[i], file |-> TRUE])]

\* timingsView: a step lasts until the next at its level or above, or the end.
Lasts(steps, end) ==
  [i \in DOMAIN steps |->
     LET next == {j \in DOMAIN steps : i < j /\ steps[j].depth <= steps[i].depth}
     IN  (IF next = {} THEN end ELSE steps[Min(next)].start) - steps[i].start]

\* A value drawn: how, or that it is not.
DrawListing ==
  LET v == subject.value
      t == Table(v.items, <<>>, subject.truncate)
  IN  IF Panics(v) THEN [as |-> "panic"]
      ELSE IF v.items # <<>> /\ ShapeOf(v.items) = "object" /\ Tabular(v.items) /\ Fits(t, 2)
      THEN [as |-> "table", table |-> t, widths |-> DrawnWidths(t, 2), heads |-> HeadWidths(t, DrawnWidths(t, 2)), shows |-> Shown(v, <<>>, subject.truncate, 2)]
      ELSE [as |-> "blocks", shows |-> Shown(v, <<>>, subject.truncate, 2)]
DrawRows ==
  LET rows == GridRows(subject.value.items)
  IN  [as |-> IF Blocks(rows, subject.labels, 2) THEN "row blocks" ELSE "grid", rows |-> rows, wide |-> GridWidth(rows, subject.labels, 2),
       right |-> {c \in 1 .. Columns(rows) : Numeric(rows, c)}]
Draw ==
  /\ drawn = <<>>
  /\ drawn' = << CASE subject.as = "listing" -> DrawListing
                   [] subject.as = "rows" -> DrawRows
                   [] subject.as = "tree" -> [as |-> "tree", lines |-> TreeLines(subject.paths, <<>>, 0)]
                   [] subject.as = "timings" -> [as |-> "timings", lasts |-> Lasts(subject.steps, subject.end)] >>
  /\ UNCHANGED <<subject, width>>

-----------------------------------------------------------------------------
Is(what) == drawn # <<>> /\ drawn[1].as = what

\* The scalars of a value, by their paths.
RECURSIVE ScalarsIn(_, _)
ScalarsIn(v, path) ==
  CASE v.is = "scalar" -> {path}
    [] v.is = "object" -> UNION {ScalarsIn(v.fields[c].value, At(path, c)) : c \in DOMAIN v.fields}
    [] v.is = "list" -> UNION {ScalarsIn(v.items[i], At(path, i)) : i \in DOMAIN v.items}
    [] OTHER -> {}

HasNullIn(v) ==
  HasNull(v.items) \/ \E i \in DOMAIN v.items : v.items[i].is = "object" /\
    \E c \in DOMAIN v.items[i].fields : v.items[i].fields[c].value.is = "list" /\ HasNull(v.items[i].fields[c].value.items)

\* The values a column that may be cut has, by their paths.
RECURSIVE Cuttable(_, _)
Cuttable(v, path) ==
  CASE v.is = "object" -> {At(path, c) : c \in {f \in DOMAIN v.fields : v.fields[f].name = subject.truncate}}
                          \cup UNION {Cuttable(v.fields[c].value, At(path, c)) : c \in DOMAIN v.fields}
    [] v.is = "list" -> UNION {Cuttable(v.items[i], At(path, i)) : i \in DOMAIN v.items}
    [] OTHER -> {}

\* "Nothing hidden" (docs/designs/cli-pretty.md): every scalar of a value is
\* shown once laid out, in a table's cell, a block or a heading, if only by the
\* start of its first line.  Two exceptions: a null among them ends the program;
\* and on a terminal, in the column that may be cut, a cell of several scalars
\* may lose later ones, as they are joined before it is cut, never its first.
NothingHidden ==
  \/ Is("panic") /\ HasNullIn(subject.value)
  \/ ~(Is("panic") \/ Is("table") \/ Is("blocks"))
  \/ LET scalars == ScalarsIn(subject.value, <<>>)
         shown(p) == \E q \in drawn[1].shows : IsPrefix(q, p)
         beside(p, r) == Front(r) = Front(p) /\ Last(r) < Last(p) /\ \E q \in Cuttable(subject.value, <<>>) : IsPrefix(q, Front(p))
     IN  \A p \in scalars : shown(p) \/ (width > 0 /\ \E r \in scalars : beside(p, r) /\ shown(r))

\* A table is no wider than its terminal, and cuts only the column that may be;
\* but for its header where that column's label is wider than it is cut to.
WithinTheTerminal ==
  /\ Is("table") /\ width > 0 =>
       LET t == drawn[1].table
           cut == {c \in DOMAIN drawn[1].widths : drawn[1].widths[c] < Widths(t.labels, t.rows)[c]}
       IN  /\ Total(2, drawn[1].widths) <= width /\ cut \subseteq {t.truncate} /\ \A c \in cut : drawn[1].widths[c] >= 8
           /\ Total(2, drawn[1].heads) <= width \/ \E c \in cut : t.labels[c] > drawn[1].widths[c]
  /\ Is("grid") => width = 0 \/ drawn[1].wide <= width

\* A value of a table is under its own field's name, where every item has the
\* fields of the first one: the columns are those of the first alone.
NamesOf(o) == [c \in DOMAIN o.fields |-> o.fields[c].name]
Alike(items) == \A i, k \in DOMAIN items : NamesOf(items[i]) = NamesOf(items[k])
UnderItsHead ==
  Is("table") /\ Alike(subject.value.items) =>
    \A i \in DOMAIN drawn[1].table.rows : [c \in DOMAIN drawn[1].table.rows[i] |-> drawn[1].table.rows[i][c].head] = drawn[1].table.heads

\* A tree's lines read back to its paths, whichever folders were joined on one.
PathAt(lines, i) ==
  LET above(d) == Max({j \in 1 .. i : lines[j].depth = d})
  IN  FoldLeft(LAMBDA p, d : p \o lines[above(d)].names, <<>>, [d \in 1 .. lines[i].depth + 1 |-> d - 1])
TreeReadsBack ==
  Is("tree") =>
    LET lines == drawn[1].lines
        leaves == SelectSeq([i \in DOMAIN lines |-> i], LAMBDA i : lines[i].file)
        read == [k \in DOMAIN leaves |-> PathAt(lines, leaves[k])]
    IN  \A p \in ToSet(subject.paths) \cup ToSet(read) :
          Len(SelectSeq(read, LAMBDA r : r = p)) = Len(SelectSeq(subject.paths, LAMBDA r : r = p))

\* The steps of one level fill the step above them, from the first one's start
\* on: none is counted twice, or missed, and no time is negative.
StepsAddUp ==
  Is("timings") =>
    LET steps == subject.steps
        lasts == drawn[1].lasts
        ends(i) == steps[i].start + lasts[i]
        children(i) == {j \in DOMAIN steps : i < j /\ steps[j].depth > steps[i].depth /\ \A k \in i + 1 .. j : steps[k].depth > steps[i].depth}
    IN  /\ Sum([i \in DOMAIN steps |-> IF steps[i].depth = 0 THEN lasts[i] ELSE 0]) = subject.end
        /\ \A i \in DOMAIN steps : lasts[i] >= 0 /\
             (children(i) # {} => steps[Min(children(i))].start + Sum([j \in DOMAIN steps |-> IF j \in children(i) THEN lasts[j] ELSE 0]) = ends(i))

PrettyIsRead == StepsAddUp /\ NothingHidden /\ WithinTheTerminal /\ UnderItsHead /\ TreeReadsBack
=============================================================================
