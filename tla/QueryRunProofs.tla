--------------------------- MODULE QueryRunProofs ---------------------------
(***************************************************************************)
(* A query's run, of any result, limits and client: what is answered is    *)
(* the whole of what was asked, a stream is framed, and the observer is    *)
(* told of what was answered.  And the sidecars it needs, of any runs and  *)
(* versions: a run that ends leaves nothing of them, and one no other      *)
(* extracts beside runs a whole binary.                                    *)
(***************************************************************************)
EXTENDS QueryRun, Sidecars, SequenceTheorems, TLAPS

EventTypes == {"start", "status", "compiled", "header", "rows", "summary", "ping", "end"}
EventRows == Seq(Nat) \cup {<<"ok">>, <<"failed">>} \cup (Nat \X BOOLEAN)
Events == [type : EventTypes, rows : EventRows]

Over == {"stop", "end", "done"}
Before == {"handle", "run", "compile"}

Typed == TypeOK /\ out \in Seq(Events)

\* Where the call is tells what was read, and how it goes.
Phased ==
  /\ pc = "handle" => out = <<>> /\ conn # "broken"
  /\ ~IsStream => out = <<>>
  /\ IsStream /\ out = <<>> /\ pc \notin {"handle", "done"} => conn = "broken"
  /\ pc \in Before => ~canal.headed
  /\ ~canal.headed => canal.read = 0 /\ ~canal.ended
  /\ pc \in {"handle", "summary"} => batch = <<>>
  /\ pc \in {"flush", "summary"} => IsStream /\ canal.ended
  /\ pc \in Over /\ ~err /\ answer # "refused" => canal.ended /\ (IsStream => batch = <<>>)
  /\ pc \notin Over => ~err
  /\ answer # "none" <=> pc = "done"
  /\ answer = "ok" => ~err
  /\ answer = "refused" => out = <<>>

\* The rows read are those asked for, within the host's maximum.
Bounded ==
  /\ canal.read <= ToSend
  /\ Capped => canal.read <= ask.max
  /\ canal.ended => canal.read = ToSend
  /\ ask.size > 0 => Len(result) <= ask.size

\* What was made of the rows read.
RowsKept ==
  /\ ask.form = "page" => kept = First(AtMost(Keep, canal.read))
  /\ ask.form = "page" /\ pc \notin {"end", "done"} => more = (canal.read > Keep)
  /\ ask.form = "page" /\ pc \in {"end", "done"} /\ ~err /\ answer # "refused" =>
       more = IF ask.size > 0 THEN Len(kept) = ask.size ELSE canal.read > Keep
  /\ ask.form = "export" => kept = First(canal.read)

RowsSent ==
  IsStream =>
    /\ Len(batch) <= canal.read
    /\ \A k \in 1 .. Len(batch) : batch[k] = canal.read - Len(batch) + k
    /\ InOrder(Sent, canal.read - Len(batch))

\* The events of a stream, in their order.
Framed ==
  /\ \A i \in At("start") : i = 1
  /\ out # <<>> => 1 \in At("start")
  /\ \A i \in At("rows"), j \in At("header") \cup At("compiled") : j < i
  /\ \A i \in At("summary") : \A j \in At("rows") \cup At("header") \cup At("status") : j < i
  /\ \A i \in At("end") : i = Len(out) /\ (out[i].rows = <<"ok">> <=> At("summary") # {})

Once == \A type \in {"compiled", "header", "summary", "end"} : \A i, j \in At(type) : i = j

\* The events written, by where the call is.
Reached ==
  /\ canal.headed /\ IsStream => At("header") # {} /\ At("compiled") # {}
  /\ ~canal.headed => At("header") = {} /\ At("rows") = {}
  /\ pc = "canal" /\ IsStream => At("compiled") # {}
  /\ pc \in Before => At("compiled") = {}
  /\ pc \notin Over => At("summary") = {}
  /\ pc \in Over /\ IsStream /\ answer # "refused" => (At("summary") # {} <=> ~err)
  /\ \A i \in At("summary") : out[i].rows = <<canal.read, ask.size > 0 /\ canal.read = ask.size>>
  /\ pc # "done" => At("end") = {}

Observed ==
  /\ pc \in Before => told.compiled = 0
  /\ told.compiled = 0 => told.finished = 0 /\ ~told.ok
  /\ pc = "canal" => told.compiled = 1 /\ told.finished = 0 /\ ~told.ok
  /\ pc \in {"flush", "summary"} \cup Over => told.finished = told.compiled
  /\ pc \in {"flush", "summary"} => told.ok
  /\ pc \in Over /\ answer # "refused" /\ ~err => told.ok
  /\ pc \in Over /\ ~IsStream /\ told.ok => ~err
  /\ answer = "refused" => told.compiled = 0
  /\ pc = "done" /\ told.ok /\ answer # "ok" => IsStream \/ ctx = "gone"
  /\ told.finished = 1 => told.rows <= ask.max \/ ask.form = "export"

QueryInv == Typed /\ Phased /\ Bounded /\ RowsKept /\ RowsSent /\ Framed /\ Once /\ Reached /\ Observed

-----------------------------------------------------------------------------

LEMMA EventsAre ==
  ASSUME NEW t \in EventTypes, NEW r \in EventRows
  PROVE  Event(t, r) \in Events /\ Event(t, r).type = t /\ Event(t, r).rows = r
  BY DEF Event, Events

LEMMA RowsAre ==
  /\ <<>> \in EventRows /\ <<"ok">> \in EventRows /\ <<"failed">> \in EventRows
  /\ \A r \in Seq(Nat) : r \in EventRows
  /\ \A n \in Nat, b \in BOOLEAN : <<n, b>> \in EventRows
  BY DEF EventRows

LEMMA AskKept ==
  ASSUME ask' = ask, result' = result
  PROVE  /\ IsStream' <=> IsStream
         /\ Keep' = Keep /\ ToSend' = ToSend /\ (Capped' <=> Capped)
  BY DEF IsStream, Keep, WithinPage, ToSend, RowCap, Capped, Truncate

LEMMA OutKept ==
  ASSUME out' = out
  PROVE  Sent' = Sent /\ \A type : At(type)' = At(type)
  BY DEF At, Sent

LEMMA Appended ==
  ASSUME Typed, NEW e \in Events, out' = Append(out, e)
  PROVE  /\ out' \in Seq(Events) /\ out' # <<>> /\ Len(out') = Len(out) + 1 /\ Len(out) \in Nat
         /\ out'[Len(out) + 1] = e
         /\ \A i \in 1 .. Len(out) : out'[i] = out[i]
         /\ \A type : At(type) \subseteq 1 .. Len(out)
         /\ \A type : At(type)' = IF e.type = type THEN At(type) \cup {Len(out) + 1} ELSE At(type)
<1>1. out \in Seq(Events)
  BY DEF Typed
<1>2. /\ out' \in Seq(Events) /\ Len(out') = Len(out) + 1 /\ Len(out) \in Nat
      /\ out'[Len(out) + 1] = e /\ \A i \in 1 .. Len(out) : out'[i] = out[i]
      /\ DOMAIN out = 1 .. Len(out) /\ DOMAIN out' = 1 .. Len(out) + 1
  BY <1>1
<1> QED
  BY <1>2 DEF At

\* What is not rows leaves the rows sent.
LEMMA NoRowsAppended ==
  ASSUME Typed, NEW e \in Events, e.type # "rows", out' = Append(out, e)
  PROVE  Sent' = Sent
<1>1. At("rows")' = At("rows") /\ \A i \in At("rows") : out'[i] = out[i]
  BY Appended
<1> QED
  BY <1>1 DEF Sent

\* What is neither a summary nor of canal-query's answer leaves the summary true.
LEMMA SummaryKept ==
  ASSUME \A i \in At("summary") : out[i].rows = <<canal.read, ask.size > 0 /\ canal.read = ask.size>>,
         At("summary")' = At("summary"), \A i \in At("summary") : out'[i] = out[i],
         At("summary") = {} \/ canal' = canal, ask' = ask
  PROVE  (\A i \in At("summary") : out[i].rows = <<canal.read, ask.size > 0 /\ canal.read = ask.size>>)'
  OBVIOUS

LEMMA RowsAppended ==
  ASSUME Typed, NEW e \in Events, e.type = "rows", out' = Append(out, e)
  PROVE  /\ DOMAIN Sent' = DOMAIN Sent \cup {Len(out) + 1} /\ DOMAIN Sent \subseteq 1 .. Len(out) /\ Len(out) \in Nat
         /\ Sent'[Len(out) + 1] = e.rows /\ \A i \in DOMAIN Sent : Sent'[i] = Sent[i]
<1>1. At("rows")' = At("rows") \cup {Len(out) + 1} /\ \A i \in At("rows") : out'[i] = out[i] /\ i \in 1 .. Len(out)
  BY Appended
<1>2. out'[Len(out) + 1] = e /\ Len(out) \in Nat
  BY Appended
<1> QED
  BY <1>1, <1>2 DEF Sent

\* A part, and the numbers from n to m in it, as the last of the parts.
Adds(more1, parts, last, part) ==
  /\ last \in Nat /\ DOMAIN parts \subseteq 1 .. last /\ DOMAIN more1 = DOMAIN parts \cup {last + 1}
  /\ more1[last + 1] = part /\ \A i \in DOMAIN parts : more1[i] = parts[i]
GoesOn(part, n, m) ==
  /\ n \in Nat /\ m \in Nat /\ n <= m
  /\ DOMAIN part = 1 .. m - n /\ \A k \in 1 .. m - n : part[k] = n + k

LEMMA PartAdded ==
  ASSUME NEW parts, NEW more1, NEW last, NEW part, NEW n, NEW m,
         InOrder(parts, n), Adds(more1, parts, last, part), GoesOn(part, n, m)
  PROVE  InOrder(more1, m)
<1> USE DEF Adds, GoesOn
<1>0. /\ \A i \in DOMAIN more1 : i = last + 1 \/ (i \in DOMAIN parts /\ i < last + 1)
      /\ last + 1 \notin DOMAIN parts
  OBVIOUS
<1>1. ASSUME NEW i \in DOMAIN more1, NEW k \in DOMAIN more1[i]
      PROVE  /\ more1[i][k] \in 1 .. m
             /\ i # last + 1 => more1[i][k] \in 1 .. n
             /\ i = last + 1 => k \in 1 .. m - n /\ more1[i][k] = n + k
  <2>1. CASE i = last + 1
    BY <2>1
  <2>2. CASE i \in DOMAIN parts
    BY <1>0, <2>2 DEF InOrder
  <2> QED
    BY <1>0, <2>1, <2>2
<1>2. ASSUME NEW i \in DOMAIN more1, NEW k \in DOMAIN more1[i], NEW j \in DOMAIN more1, NEW l \in DOMAIN more1[j],
             i < j \/ (i = j /\ k < l)
      PROVE  more1[i][k] < more1[j][l]
  <2>1. CASE i = last + 1
    <3>1. j = last + 1 /\ k < l
      BY <1>0, <1>2, <2>1
    <3> QED
      BY <1>1, <2>1, <3>1
  <2>2. CASE i # last + 1 /\ j = last + 1
    <3>1. more1[i][k] \in 1 .. n /\ l \in 1 .. m - n /\ more1[j][l] = n + l
      BY <1>1, <2>2
    <3> QED
      BY <3>1
  <2>3. CASE i # last + 1 /\ j # last + 1
    <3>1. i \in DOMAIN parts /\ j \in DOMAIN parts /\ more1[i] = parts[i] /\ more1[j] = parts[j]
      BY <1>0, <2>3
    <3> QED
      BY <1>2, <3>1 DEF InOrder
  <2> QED
    BY <2>1, <2>2, <2>3
<1>3. ASSUME NEW x \in 1 .. m PROVE \E i \in DOMAIN more1 : \E k \in DOMAIN more1[i] : more1[i][k] = x
  <2>1. CASE x \in 1 .. n
    <3>1. PICK i \in DOMAIN parts : \E k \in DOMAIN parts[i] : parts[i][k] = x
      BY <2>1 DEF InOrder
    <3> QED
      BY <3>1
  <2>2. CASE x \notin 1 .. n
    <3>1. x - n \in 1 .. m - n
      BY <2>2
    <3>2. part[x - n] = x /\ x - n \in DOMAIN part
      BY <3>1
    <3> QED
      BY <3>2
  <2> QED
    BY <2>1, <2>2
<1> QED
  BY <1>1, <1>2, <1>3 DEF InOrder

LEMMA TypesHold ==
  ASSUME Typed
  PROVE  /\ ask \in Asks /\ ask.form \in {"page", "stream", "export"} /\ ask.size \in 0 .. MaxPageSize
         /\ ask.limit \in Nat \cup {NoLimit} /\ ask.max \in Nat \ {0}
         /\ canal.read \in Nat /\ canal.headed \in BOOLEAN /\ canal.ended \in BOOLEAN
         /\ told.compiled \in 0 .. 1 /\ told.finished \in 0 .. 1 /\ told.ok \in BOOLEAN /\ told.rows \in Nat
         /\ Len(result) \in Nat /\ Len(batch) \in Nat
<1>1. ask \in [form : {"page", "stream", "export"}, size : 0 .. MaxPageSize, limit : Limits \cup {NoLimit}, max : HostRows]
  BY DEF Typed, TypeOK, Asks
<1>2. told \in [compiled : 0 .. 1, finished : 0 .. 1, ok : BOOLEAN, rows : Nat]
  BY DEF Typed, TypeOK
<1>3. canal \in [headed : BOOLEAN, ended : BOOLEAN, read : 0 .. Len(result)] /\ result \in Seq(RowSizes) /\ batch \in Seq(Nat)
  BY DEF Typed, TypeOK
<1>4. canal.read \in Nat /\ canal.headed \in BOOLEAN /\ canal.ended \in BOOLEAN /\ Len(result) \in Nat /\ Len(batch) \in Nat
  BY <1>3
<1>5. told.compiled \in 0 .. 1 /\ told.finished \in 0 .. 1 /\ told.ok \in BOOLEAN /\ told.rows \in Nat
  BY <1>2
<1>6. ask.form \in {"page", "stream", "export"} /\ ask.size \in 0 .. MaxPageSize /\ ask.limit \in Limits \cup {NoLimit} /\ ask.max \in HostRows
  BY <1>1
<1>7. ask \in Asks
  BY DEF Typed, TypeOK
<1> QED
  BY <1>4, <1>5, <1>6, <1>7, QueryConstants

\* A query asked for no more rows than the host's maximum has no more.
LEMMA WithinMaximum ==
  ASSUME Typed, Bounded
  PROVE  ask.form # "export" => canal.read <= ask.max
<1>1. CASE Capped
  BY <1>1 DEF Bounded
<1>2. CASE ask.form # "export" /\ ~Capped
  <2>1. Truncate # NoLimit /\ Truncate <= ask.max /\ RowCap = Truncate
    BY <1>2 DEF Capped, RowCap
  <2>2. ToSend <= Truncate
    BY <2>1, TypesHold, QueryConstants, SMTT(30) DEF ToSend, AtMost, Truncate, WithinPage, NoLimit
  <2> QED
    BY <2>1, <2>2, TypesHold, QueryConstants, SMTT(30) DEF Bounded, ToSend, AtMost, Truncate, WithinPage, NoLimit
<1> QED
  BY <1>1, <1>2

LEMMA CompiledTells ==
  ASSUME Typed, told.compiled = 0
  PROVE  LET t == [told EXCEPT !.compiled = @ + 1] IN
         /\ t \in [compiled : 0 .. 1, finished : 0 .. 1, ok : BOOLEAN, rows : Nat]
         /\ t.compiled = 1 /\ t.finished = told.finished /\ t.ok = told.ok
<1>1. told \in [compiled : 0 .. 1, finished : 0 .. 1, ok : BOOLEAN, rows : Nat]
  BY DEF Typed, TypeOK
<1>2. [told EXCEPT !.compiled = @ + 1] = [told EXCEPT !.compiled = 1]
  <2>1. told.compiled + 1 = 1
    OBVIOUS
  <2> QED
    BY <2>1
<1> QED
  BY <1>1, <1>2

LEMMA FinishedTells ==
  ASSUME Typed, NEW ok \in BOOLEAN, Finished(ok), told.compiled = 1 => told.finished = 0
  PROVE  /\ told' \in [compiled : 0 .. 1, finished : 0 .. 1, ok : BOOLEAN, rows : Nat]
         /\ told.compiled = 0 => told' = told
         /\ told.compiled = 1 => /\ told'.compiled = 1 /\ told'.finished = 1 /\ told'.ok = ok
                                 /\ told'.rows = IF Capped THEN AtMost(canal.read, ask.max) ELSE canal.read
<1>1. told \in [compiled : 0 .. 1, finished : 0 .. 1, ok : BOOLEAN, rows : Nat]
  BY DEF Typed, TypeOK
<1>2. CASE told.compiled = 0
  BY <1>1, <1>2 DEF Finished
<1>3. CASE told.compiled = 1
  <2> DEFINE rows == IF Capped THEN AtMost(canal.read, ask.max) ELSE canal.read
  <2>1. rows \in Nat
    BY TypesHold DEF AtMost
  <2>2. told' = [told EXCEPT !.finished = 1, !.ok = ok, !.rows = rows]
    <3>1. told.finished + 1 = 1
      BY <1>3
    <3>2. told' = [told EXCEPT !.finished = told.finished + 1, !.ok = ok, !.rows = rows]
      BY <1>3 DEF Finished
    <3> QED
      BY <3>1, <3>2
  <2> HIDE DEF rows
  <2>3. told' \in [compiled : 0 .. 1, finished : 0 .. 1, ok : BOOLEAN, rows : Nat]
        /\ told'.compiled = 1 /\ told'.finished = 1 /\ told'.ok = ok /\ told'.rows = rows
    BY <1>1, <1>3, <2>1, <2>2
  <2> QED
    BY <1>3, <2>3 DEF rows
<1> QED
  BY <1>1, <1>2, <1>3

LEMMA FailsKeeps ==
  ASSUME QueryInv, pc \in {"run", "compile", "canal"}, Failed,
         UNCHANGED <<ask, result, ctx, answer, out>>, conn' = conn \/ conn' = "broken"
  PROVE  QueryInv'
<1> USE DEF QueryInv, Failed, Over, Before
<1>0. ask' = ask /\ result' = result
  OBVIOUS
<1>t. /\ told' \in [compiled : 0 .. 1, finished : 0 .. 1, ok : BOOLEAN, rows : Nat]
      /\ told.compiled = 0 => told' = told
      /\ told.compiled = 1 => /\ told'.compiled = 1 /\ told'.finished = 1 /\ told'.ok = FALSE
                              /\ told'.rows = IF Capped THEN AtMost(canal.read, ask.max) ELSE canal.read
  BY FinishedTells, TypesHold DEF Observed
<1>1. Typed'
  BY <1>0, OutKept, <1>t, TypesHold DEF Typed, TypeOK
<1>2. Phased'
  BY <1>0, OutKept, <1>t, AskKept, TypesHold DEF Phased
<1>3. Bounded'
  BY <1>0, OutKept, <1>t, AskKept, TypesHold DEF Bounded
<1>4. RowsKept'
  BY <1>0, OutKept, <1>t, AskKept, TypesHold DEF RowsKept
<1>5. RowsSent'
  BY <1>0, OutKept, <1>t, AskKept, TypesHold DEF RowsSent
<1>6. Framed'
  BY <1>0, OutKept, <1>t, AskKept, TypesHold DEF Framed
<1>7. Once'
  BY <1>0, OutKept, <1>t, AskKept, TypesHold, SMTT(30) DEF Once
<1>8. Reached'
  BY <1>0, OutKept, <1>t, AskKept, TypesHold DEF Reached, Phased
<1>9. Observed'
  BY <1>0, OutKept, <1>t, WithinMaximum, AskKept, TypesHold DEF Observed, AtMost
<1> QED
  BY <1>1, <1>2, <1>3, <1>4, <1>5, <1>6, <1>7, <1>8, <1>9

LEMMA RefuseKeeps ==
  ASSUME QueryInv, Refuse
  PROVE  QueryInv'
<1> USE DEF QueryInv, Refuse, Over, Before
<1>0. ask' = ask /\ result' = result
  OBVIOUS
<1>1. Typed'
  BY <1>0, OutKept, TypesHold, SMTT(30) DEF Typed, TypeOK
<1>2. Phased'
  BY <1>0, OutKept, AskKept, TypesHold DEF Phased
<1>3. Bounded'
  BY <1>0, OutKept, AskKept, TypesHold DEF Bounded
<1>4. RowsKept'
  BY <1>0, OutKept, AskKept, TypesHold DEF RowsKept
<1>5. RowsSent'
  BY <1>0, OutKept, AskKept, TypesHold DEF RowsSent
<1>6. Framed'
  BY <1>0, OutKept, AskKept, TypesHold DEF Framed
<1>7. Once'
  BY <1>0, OutKept, AskKept, TypesHold DEF Once
<1>8. Reached'
  BY <1>0, OutKept, AskKept, TypesHold DEF Reached, Phased
<1>9. Observed'
  BY <1>0, OutKept, AskKept, TypesHold DEF Observed
<1> QED
  BY <1>1, <1>2, <1>3, <1>4, <1>5, <1>6, <1>7, <1>8, <1>9

LEMMA TrailerKeeps ==
  ASSUME QueryInv, Trailer
  PROVE  QueryInv'
<1> USE DEF QueryInv, Trailer, Reading, Row, Over, Before
<1>0. ask' = ask /\ result' = result
  OBVIOUS
<1>1. Typed'
  BY <1>0, OutKept, TypesHold DEF Typed, TypeOK
<1>2. Phased'
  BY <1>0, OutKept, AskKept, TypesHold DEF Phased
<1>3. Bounded'
  BY <1>0, OutKept, AskKept, TypesHold DEF Bounded
<1>4. RowsKept'
  BY <1>0, OutKept, AskKept, TypesHold DEF RowsKept
<1>5. RowsSent'
  BY <1>0, OutKept, AskKept, TypesHold DEF RowsSent
<1>6. Framed'
  BY <1>0, OutKept, AskKept, TypesHold DEF Framed
<1>7. Once'
  BY <1>0, OutKept, AskKept, TypesHold DEF Once
<1>8. Reached'
  BY <1>0, OutKept, AskKept, TypesHold DEF Reached, Phased
<1>9. Observed'
  BY <1>0, OutKept, AskKept, TypesHold DEF Observed
<1> QED
  BY <1>1, <1>2, <1>3, <1>4, <1>5, <1>6, <1>7, <1>8, <1>9

LEMMA EndOfAnswerKeeps ==
  ASSUME QueryInv, EndOfAnswer
  PROVE  QueryInv'
<1> USE DEF QueryInv, EndOfAnswer, Reading, Complete, Over, Before
<1>0. ask' = ask /\ result' = result
  OBVIOUS
<1>t. /\ told' \in [compiled : 0 .. 1, finished : 0 .. 1, ok : BOOLEAN, rows : Nat]
      /\ told.compiled = 0 => told' = told
      /\ told.compiled = 1 => /\ told'.compiled = 1 /\ told'.finished = 1 /\ told'.ok = TRUE
                              /\ told'.rows = IF Capped THEN AtMost(canal.read, ask.max) ELSE canal.read
  BY FinishedTells, TypesHold DEF Observed
<1>1. Typed'
  BY <1>0, OutKept, <1>t, TypesHold DEF Typed, TypeOK
<1>2. Phased'
  BY <1>0, OutKept, <1>t, AskKept, TypesHold DEF Phased
<1>3. Bounded'
  BY <1>0, OutKept, <1>t, AskKept, TypesHold DEF Bounded
<1>4. RowsKept'
  BY <1>0, OutKept, <1>t, AskKept, TypesHold DEF RowsKept
<1>5. RowsSent'
  BY <1>0, OutKept, <1>t, AskKept, TypesHold DEF RowsSent
<1>6. Framed'
  BY <1>0, OutKept, <1>t, AskKept, TypesHold DEF Framed
<1>7. Once'
  BY <1>0, OutKept, <1>t, AskKept, TypesHold DEF Once
<1>8. Reached'
  BY <1>0, OutKept, <1>t, AskKept, TypesHold DEF Reached, Phased
<1>9. Observed'
  BY <1>0, OutKept, <1>t, WithinMaximum, AskKept, TypesHold DEF Observed, AtMost, Phased
<1> QED
  BY <1>1, <1>2, <1>3, <1>4, <1>5, <1>6, <1>7, <1>8, <1>9

LEMMA StopKeeps ==
  ASSUME QueryInv, Stop
  PROVE  QueryInv'
<1> USE DEF QueryInv, Stop, Over, Before
<1>0. ask' = ask /\ result' = result
  OBVIOUS
<1>1. Typed'
  BY <1>0, OutKept, TypesHold, ZenonT(60) DEF Typed, TypeOK
<1>2. Phased'
  BY <1>0, OutKept, AskKept, TypesHold DEF Phased
<1>3. Bounded'
  BY <1>0, OutKept, AskKept, TypesHold DEF Bounded
<1>4. RowsKept'
  BY <1>0, OutKept, AskKept, TypesHold DEF RowsKept
<1>5. RowsSent'
  BY <1>0, OutKept, AskKept, TypesHold DEF RowsSent
<1>6. Framed'
  BY <1>0, OutKept, AskKept, TypesHold DEF Framed
<1>7. Once'
  BY <1>0, OutKept, AskKept, TypesHold DEF Once
<1>8. Reached'
  BY <1>0, OutKept, AskKept, TypesHold DEF Reached, Phased
<1>9. Observed'
  BY <1>0, OutKept, AskKept, TypesHold DEF Observed
<1> QED
  BY <1>1, <1>2, <1>3, <1>4, <1>5, <1>6, <1>7, <1>8, <1>9

LEMMA LeaveKeeps ==
  ASSUME QueryInv, Leave
  PROVE  QueryInv'
<1> USE DEF QueryInv, Leave, ByOthers, Over, Before
<1>0. ask' = ask /\ result' = result
  OBVIOUS
<1>1. Typed'
  BY <1>0, OutKept, TypesHold DEF Typed, TypeOK
<1>2. Phased'
  BY <1>0, OutKept, AskKept, TypesHold DEF Phased
<1>3. Bounded'
  BY <1>0, OutKept, AskKept, TypesHold DEF Bounded
<1>4. RowsKept'
  BY <1>0, OutKept, AskKept, TypesHold DEF RowsKept
<1>5. RowsSent'
  BY <1>0, OutKept, AskKept, TypesHold DEF RowsSent
<1>6. Framed'
  BY <1>0, OutKept, AskKept, TypesHold DEF Framed
<1>7. Once'
  BY <1>0, OutKept, AskKept, TypesHold DEF Once
<1>8. Reached'
  BY <1>0, OutKept, AskKept, TypesHold DEF Reached, Phased
<1>9. Observed'
  BY <1>0, OutKept, AskKept, TypesHold DEF Observed
<1> QED
  BY <1>1, <1>2, <1>3, <1>4, <1>5, <1>6, <1>7, <1>8, <1>9

LEMMA StallKeeps ==
  ASSUME QueryInv, Stall
  PROVE  QueryInv'
<1> USE DEF QueryInv, Stall, ByOthers, Over, Before
<1>0. ask' = ask /\ result' = result
  OBVIOUS
<1>1. Typed'
  BY <1>0, OutKept, TypesHold DEF Typed, TypeOK
<1>2. Phased'
  BY <1>0, OutKept, AskKept, TypesHold DEF Phased
<1>3. Bounded'
  BY <1>0, OutKept, AskKept, TypesHold DEF Bounded
<1>4. RowsKept'
  BY <1>0, OutKept, AskKept, TypesHold DEF RowsKept
<1>5. RowsSent'
  BY <1>0, OutKept, AskKept, TypesHold DEF RowsSent
<1>6. Framed'
  BY <1>0, OutKept, AskKept, TypesHold DEF Framed
<1>7. Once'
  BY <1>0, OutKept, AskKept, TypesHold DEF Once
<1>8. Reached'
  BY <1>0, OutKept, AskKept, TypesHold DEF Reached, Phased
<1>9. Observed'
  BY <1>0, OutKept, AskKept, TypesHold DEF Observed
<1> QED
  BY <1>1, <1>2, <1>3, <1>4, <1>5, <1>6, <1>7, <1>8, <1>9

LEMMA LateKeeps ==
  ASSUME QueryInv, Late
  PROVE  QueryInv'
<1> USE DEF QueryInv, Late, ByOthers, Over, Before
<1>0. ask' = ask /\ result' = result
  OBVIOUS
<1>1. Typed'
  BY <1>0, OutKept, TypesHold DEF Typed, TypeOK
<1>2. Phased'
  BY <1>0, OutKept, AskKept, TypesHold DEF Phased
<1>3. Bounded'
  BY <1>0, OutKept, AskKept, TypesHold DEF Bounded
<1>4. RowsKept'
  BY <1>0, OutKept, AskKept, TypesHold DEF RowsKept
<1>5. RowsSent'
  BY <1>0, OutKept, AskKept, TypesHold DEF RowsSent
<1>6. Framed'
  BY <1>0, OutKept, AskKept, TypesHold DEF Framed
<1>7. Once'
  BY <1>0, OutKept, AskKept, TypesHold DEF Once
<1>8. Reached'
  BY <1>0, OutKept, AskKept, TypesHold DEF Reached, Phased
<1>9. Observed'
  BY <1>0, OutKept, AskKept, TypesHold DEF Observed
<1> QED
  BY <1>1, <1>2, <1>3, <1>4, <1>5, <1>6, <1>7, <1>8, <1>9

LEMMA StartKeeps ==
  ASSUME QueryInv, Start
  PROVE  QueryInv'
<1> USE DEF QueryInv, Over, Before
<1> DEFINE e == Event("start", <<>>)
<1>0. ask' = ask /\ result' = result
  BY DEF Start
<1>e. e \in Events /\ e.type = "start" /\ e.rows = <<>>
  BY TypesHold, EventsAre, RowsAre DEF EventTypes, Outcome
<1> HIDE DEF e
<1>h. pc = "handle" /\ pc' = "run" /\ UNCHANGED <<ask, result, canal, kept, more, bytes, batch, told, err, answer>>
  BY DEF Start
<1>1. CASE ~IsStream /\ UNCHANGED <<conn, out, ctx>>
  <2> USE <1>1, <1>h DEF Stays, Unwritten, Unsent
  <2>1. Typed'
    BY <1>0, OutKept, TypesHold DEF Typed, TypeOK
  <2>2. Phased'
    BY <1>0, OutKept, AskKept, TypesHold DEF Phased
  <2>3. Bounded'
    BY <1>0, OutKept, AskKept, TypesHold DEF Bounded
  <2>4. RowsKept'
    BY <1>0, OutKept, AskKept, TypesHold DEF RowsKept, Phased
  <2>5. RowsSent'
    BY <1>0, OutKept, AskKept, TypesHold DEF RowsSent
  <2>6. Framed'
    BY <1>0, OutKept, EventsAre DEF Framed, Reached, Phased
  <2>7. Once'
    BY <1>0, OutKept, EventsAre DEF Once, Reached, Phased
  <2>8. Reached'
    BY <1>0, OutKept, AskKept, TypesHold DEF Reached, Phased
  <2>9. Observed'
    BY <1>0, OutKept, AskKept, TypesHold DEF Observed, Phased
  <2> QED
    BY <2>1, <2>2, <2>3, <2>4, <2>5, <2>6, <2>7, <2>8, <2>9
<1>2. CASE IsStream /\ Written(e) /\ UNCHANGED ctx
  <2> USE <1>2, <1>h, <1>e DEF Written, Stays
  <2>0. Sent' = Sent
    BY NoRowsAppended
  <2>1. Typed'
    BY <1>0, Appended, <2>0, TypesHold DEF Typed, TypeOK
  <2>2. Phased'
    BY <1>0, Appended, <2>0, AskKept, TypesHold DEF Phased
  <2>3. Bounded'
    BY <1>0, Appended, <2>0, AskKept, TypesHold DEF Bounded
  <2>4. RowsKept'
    BY <1>0, Appended, <2>0, AskKept, TypesHold DEF RowsKept, Phased
  <2>5. RowsSent'
    BY <1>0, Appended, <2>0, AskKept, TypesHold DEF RowsSent
  <2>6. Framed'
    <3>1. (\A i \in At("start") : i = 1)'
      BY <1>0, Appended, <2>0, EventsAre DEF Framed, Reached, Phased
    <3>2. (out # <<>> => 1 \in At("start"))'
      BY <1>0, Appended, <2>0, EventsAre DEF Framed, Reached, Phased
    <3>3. (\A i \in At("rows"), j \in At("header") \cup At("compiled") : j < i)'
      BY <1>0, Appended, <2>0, EventsAre DEF Framed, Reached, Phased
    <3>4. (\A i \in At("summary") : \A j \in At("rows") \cup At("header") \cup At("status") : j < i)'
      BY <1>0, Appended, <2>0, EventsAre DEF Framed, Reached, Phased
    <3>5. (\A i \in At("end") : i = Len(out) /\ (out[i].rows = <<"ok">> <=> At("summary") # {}))'
      BY <1>0, Appended, <2>0, EventsAre DEF Framed, Reached, Phased
    <3> QED
      BY <3>1, <3>2, <3>3, <3>4, <3>5 DEF Framed
  <2>7. Once'
    BY <1>0, Appended, <2>0, EventsAre DEF Once, Reached, Phased
  <2>8. Reached'
    <3>1. (canal.headed /\ IsStream => At("header") # {} /\ At("compiled") # {})'
      BY <1>0, Appended, <2>0, AskKept, TypesHold DEF Reached, Phased
    <3>2. (~canal.headed => At("header") = {} /\ At("rows") = {})'
      BY <1>0, Appended, <2>0, AskKept, TypesHold DEF Reached, Phased
    <3>3. (pc = "canal" /\ IsStream => At("compiled") # {})'
      BY <1>0, Appended, <2>0, AskKept, TypesHold DEF Reached, Phased
    <3>4. (pc \in Before => At("compiled") = {})'
      BY <1>0, Appended, <2>0, AskKept, TypesHold DEF Reached, Phased
    <3>5. (pc \notin Over => At("summary") = {})'
      BY <1>0, Appended, <2>0, AskKept, TypesHold DEF Reached, Phased
    <3>6. (pc \in Over /\ IsStream /\ answer # "refused" => (At("summary") # {} <=> ~err))'
      BY <1>0, Appended, <2>0, AskKept, TypesHold DEF Reached, Phased
    <3>7. (\A i \in At("summary") : out[i].rows = <<canal.read, ask.size > 0 /\ canal.read = ask.size>>)'
      <4>1. At("summary")' = At("summary") /\ \A i \in At("summary") : out'[i] = out[i]
        BY Appended
      <4>2. At("summary") = {} \/ canal' = canal
        BY DEF Reached
      <4> QED
        BY <1>0, <4>1, <4>2, SummaryKept DEF Reached
    <3>8. (pc # "done" => At("end") = {})'
      BY <1>0, Appended, <2>0, AskKept, TypesHold DEF Reached, Phased
    <3> QED
      BY <3>1, <3>2, <3>3, <3>4, <3>5, <3>6, <3>7, <3>8 DEF Reached
  <2>9. Observed'
    BY <1>0, Appended, <2>0, AskKept, TypesHold DEF Observed, Phased
  <2> QED
    BY <2>1, <2>2, <2>3, <2>4, <2>5, <2>6, <2>7, <2>8, <2>9
<1>3. CASE IsStream /\ Unwritten /\ ctx' = "gone"
  <2> USE <1>3, <1>h DEF Stays, Unwritten, Unsent
  <2>1. Typed'
    BY <1>0, OutKept, TypesHold DEF Typed, TypeOK
  <2>2. Phased'
    BY <1>0, OutKept, AskKept, TypesHold DEF Phased
  <2>3. Bounded'
    BY <1>0, OutKept, AskKept, TypesHold DEF Bounded
  <2>4. RowsKept'
    BY <1>0, OutKept, AskKept, TypesHold DEF RowsKept, Phased
  <2>5. RowsSent'
    BY <1>0, OutKept, AskKept, TypesHold DEF RowsSent
  <2>6. Framed'
    BY <1>0, OutKept, EventsAre DEF Framed, Reached, Phased
  <2>7. Once'
    BY <1>0, OutKept, EventsAre DEF Once, Reached, Phased
  <2>8. Reached'
    BY <1>0, OutKept, AskKept, TypesHold DEF Reached, Phased
  <2>9. Observed'
    BY <1>0, OutKept, AskKept, TypesHold DEF Observed, Phased
  <2> QED
    BY <2>1, <2>2, <2>3, <2>4, <2>5, <2>6, <2>7, <2>8, <2>9
<1> QED
  BY <1>h, <1>1, <1>2, <1>3 DEF Start, Emits, e

LEMMA BeginKeeps ==
  ASSUME QueryInv, Begin
  PROVE  QueryInv'
<1> USE DEF QueryInv, Over, Before
<1> DEFINE e == Event("status", <<>>)
<1>0. ask' = ask /\ result' = result
  BY DEF Begin
<1>e. e \in Events /\ e.type = "status" /\ e.rows = <<>>
  BY TypesHold, EventsAre, RowsAre DEF EventTypes, Outcome
<1> HIDE DEF e
<1>h. pc = "run" /\ UNCHANGED <<ask, result, ctx, answer>>
  BY DEF Begin
<1>1. CASE ~IsStream /\ UNCHANGED <<conn, out>> /\ pc' = "compile" /\ Stays
  <2> USE <1>1, <1>h DEF Stays, Unwritten, Unsent
  <2>1. Typed'
    BY <1>0, OutKept, TypesHold DEF Typed, TypeOK
  <2>2. Phased'
    BY <1>0, OutKept, AskKept, TypesHold DEF Phased
  <2>3. Bounded'
    BY <1>0, OutKept, AskKept, TypesHold DEF Bounded
  <2>4. RowsKept'
    BY <1>0, OutKept, AskKept, TypesHold DEF RowsKept, Phased
  <2>5. RowsSent'
    BY <1>0, OutKept, AskKept, TypesHold DEF RowsSent
  <2>6. Framed'
    BY <1>0, OutKept, EventsAre DEF Framed, Reached, Phased
  <2>7. Once'
    BY <1>0, OutKept, EventsAre DEF Once, Reached, Phased
  <2>8. Reached'
    BY <1>0, OutKept, AskKept, TypesHold DEF Reached, Phased
  <2>9. Observed'
    BY <1>0, OutKept, AskKept, TypesHold DEF Observed, Phased
  <2> QED
    BY <2>1, <2>2, <2>3, <2>4, <2>5, <2>6, <2>7, <2>8, <2>9
<1>2. CASE IsStream /\ Written(e) /\ pc' = "compile" /\ Stays
  <2> USE <1>2, <1>h, <1>e DEF Written, Stays
  <2>0. Sent' = Sent
    BY NoRowsAppended
  <2>1. Typed'
    BY <1>0, Appended, <2>0, TypesHold DEF Typed, TypeOK
  <2>2. Phased'
    BY <1>0, Appended, <2>0, AskKept, TypesHold DEF Phased
  <2>3. Bounded'
    BY <1>0, Appended, <2>0, AskKept, TypesHold DEF Bounded
  <2>4. RowsKept'
    BY <1>0, Appended, <2>0, AskKept, TypesHold DEF RowsKept, Phased
  <2>5. RowsSent'
    BY <1>0, Appended, <2>0, AskKept, TypesHold DEF RowsSent
  <2>6. Framed'
    <3>1. (\A i \in At("start") : i = 1)'
      BY <1>0, Appended, <2>0, EventsAre DEF Framed, Reached, Phased
    <3>2. (out # <<>> => 1 \in At("start"))'
      BY <1>0, Appended, <2>0, EventsAre DEF Framed, Reached, Phased
    <3>3. (\A i \in At("rows"), j \in At("header") \cup At("compiled") : j < i)'
      BY <1>0, Appended, <2>0, EventsAre DEF Framed, Reached, Phased
    <3>4. (\A i \in At("summary") : \A j \in At("rows") \cup At("header") \cup At("status") : j < i)'
      BY <1>0, Appended, <2>0, EventsAre DEF Framed, Reached, Phased
    <3>5. (\A i \in At("end") : i = Len(out) /\ (out[i].rows = <<"ok">> <=> At("summary") # {}))'
      BY <1>0, Appended, <2>0, EventsAre DEF Framed, Reached, Phased
    <3> QED
      BY <3>1, <3>2, <3>3, <3>4, <3>5 DEF Framed
  <2>7. Once'
    BY <1>0, Appended, <2>0, EventsAre DEF Once, Reached, Phased
  <2>8. Reached'
    <3>1. (canal.headed /\ IsStream => At("header") # {} /\ At("compiled") # {})'
      BY <1>0, Appended, <2>0, AskKept, TypesHold DEF Reached, Phased
    <3>2. (~canal.headed => At("header") = {} /\ At("rows") = {})'
      BY <1>0, Appended, <2>0, AskKept, TypesHold DEF Reached, Phased
    <3>3. (pc = "canal" /\ IsStream => At("compiled") # {})'
      BY <1>0, Appended, <2>0, AskKept, TypesHold DEF Reached, Phased
    <3>4. (pc \in Before => At("compiled") = {})'
      BY <1>0, Appended, <2>0, AskKept, TypesHold DEF Reached, Phased
    <3>5. (pc \notin Over => At("summary") = {})'
      BY <1>0, Appended, <2>0, AskKept, TypesHold DEF Reached, Phased
    <3>6. (pc \in Over /\ IsStream /\ answer # "refused" => (At("summary") # {} <=> ~err))'
      BY <1>0, Appended, <2>0, AskKept, TypesHold DEF Reached, Phased
    <3>7. (\A i \in At("summary") : out[i].rows = <<canal.read, ask.size > 0 /\ canal.read = ask.size>>)'
      <4>1. At("summary")' = At("summary") /\ \A i \in At("summary") : out'[i] = out[i]
        BY Appended
      <4>2. At("summary") = {} \/ canal' = canal
        BY DEF Reached
      <4> QED
        BY <1>0, <4>1, <4>2, SummaryKept DEF Reached
    <3>8. (pc # "done" => At("end") = {})'
      BY <1>0, Appended, <2>0, AskKept, TypesHold DEF Reached, Phased
    <3> QED
      BY <3>1, <3>2, <3>3, <3>4, <3>5, <3>6, <3>7, <3>8 DEF Reached
  <2>9. Observed'
    BY <1>0, Appended, <2>0, AskKept, TypesHold DEF Observed, Phased
  <2> QED
    BY <2>1, <2>2, <2>3, <2>4, <2>5, <2>6, <2>7, <2>8, <2>9
<1>3. CASE IsStream /\ Unwritten /\ Failed
  BY <1>3, <1>h, FailsKeeps DEF Unwritten
<1> QED
  BY <1>h, <1>1, <1>2, <1>3 DEF Begin, Emits, e

LEMMA CompileKeeps ==
  ASSUME QueryInv, Compile
  PROVE  QueryInv'
<1> USE DEF QueryInv, Over, Before
<1> DEFINE e == Event("compiled", <<>>)
<1>0. ask' = ask /\ result' = result
  BY DEF Compile
<1>e. e \in Events /\ e.type = "compiled" /\ e.rows = <<>>
  BY TypesHold, EventsAre, RowsAre DEF EventTypes, Outcome
<1> HIDE DEF e
<1>h. pc = "compile" /\ UNCHANGED <<ask, result, ctx, answer>>
      /\ LET t == [told EXCEPT !.compiled = @ + 1] IN
           t \in [compiled : 0 .. 1, finished : 0 .. 1, ok : BOOLEAN, rows : Nat] /\ t.compiled = 1 /\ t.finished = 0 /\ t.ok = FALSE
  BY CompiledTells, TypesHold DEF Compile, Observed
<1>1. CASE ~IsStream /\ UNCHANGED <<conn, out>> /\ pc' = "canal" /\ told' = [told EXCEPT !.compiled = @ + 1] /\ UNCHANGED <<canal, kept, more, bytes, batch, err>>
  <2> USE <1>1, <1>h DEF Stays, Unwritten, Unsent
  <2>1. Typed'
    BY <1>0, OutKept, TypesHold DEF Typed, TypeOK
  <2>2. Phased'
    BY <1>0, OutKept, AskKept, TypesHold DEF Phased
  <2>3. Bounded'
    BY <1>0, OutKept, AskKept, TypesHold DEF Bounded
  <2>4. RowsKept'
    BY <1>0, OutKept, AskKept, TypesHold DEF RowsKept, Phased
  <2>5. RowsSent'
    BY <1>0, OutKept, AskKept, TypesHold DEF RowsSent
  <2>6. Framed'
    BY <1>0, OutKept, EventsAre DEF Framed, Reached, Phased
  <2>7. Once'
    BY <1>0, OutKept, EventsAre DEF Once, Reached, Phased
  <2>8. Reached'
    BY <1>0, OutKept, AskKept, TypesHold DEF Reached, Phased
  <2>9. Observed'
    BY <1>0, OutKept, AskKept, TypesHold DEF Observed, Phased
  <2> QED
    BY <2>1, <2>2, <2>3, <2>4, <2>5, <2>6, <2>7, <2>8, <2>9
<1>2. CASE IsStream /\ Written(e) /\ pc' = "canal" /\ told' = [told EXCEPT !.compiled = @ + 1] /\ UNCHANGED <<canal, kept, more, bytes, batch, err>>
  <2> USE <1>2, <1>h, <1>e DEF Written, Stays
  <2>0. Sent' = Sent
    BY NoRowsAppended
  <2>1. Typed'
    BY <1>0, Appended, <2>0, TypesHold DEF Typed, TypeOK
  <2>2. Phased'
    BY <1>0, Appended, <2>0, AskKept, TypesHold DEF Phased
  <2>3. Bounded'
    BY <1>0, Appended, <2>0, AskKept, TypesHold DEF Bounded
  <2>4. RowsKept'
    BY <1>0, Appended, <2>0, AskKept, TypesHold DEF RowsKept, Phased
  <2>5. RowsSent'
    BY <1>0, Appended, <2>0, AskKept, TypesHold DEF RowsSent
  <2>6. Framed'
    <3>1. (\A i \in At("start") : i = 1)'
      BY <1>0, Appended, <2>0, EventsAre DEF Framed, Reached, Phased
    <3>2. (out # <<>> => 1 \in At("start"))'
      BY <1>0, Appended, <2>0, EventsAre DEF Framed, Reached, Phased
    <3>3. (\A i \in At("rows"), j \in At("header") \cup At("compiled") : j < i)'
      BY <1>0, Appended, <2>0, EventsAre DEF Framed, Reached, Phased
    <3>4. (\A i \in At("summary") : \A j \in At("rows") \cup At("header") \cup At("status") : j < i)'
      BY <1>0, Appended, <2>0, EventsAre DEF Framed, Reached, Phased
    <3>5. (\A i \in At("end") : i = Len(out) /\ (out[i].rows = <<"ok">> <=> At("summary") # {}))'
      BY <1>0, Appended, <2>0, EventsAre DEF Framed, Reached, Phased
    <3> QED
      BY <3>1, <3>2, <3>3, <3>4, <3>5 DEF Framed
  <2>7. Once'
    BY <1>0, Appended, <2>0, EventsAre DEF Once, Reached, Phased
  <2>8. Reached'
    <3>1. (canal.headed /\ IsStream => At("header") # {} /\ At("compiled") # {})'
      BY <1>0, Appended, <2>0, AskKept, TypesHold DEF Reached, Phased
    <3>2. (~canal.headed => At("header") = {} /\ At("rows") = {})'
      BY <1>0, Appended, <2>0, AskKept, TypesHold DEF Reached, Phased
    <3>3. (pc = "canal" /\ IsStream => At("compiled") # {})'
      BY <1>0, Appended, <2>0, AskKept, TypesHold, ZenonT(60) DEF Reached, Phased
    <3>4. (pc \in Before => At("compiled") = {})'
      BY <1>0, Appended, <2>0, AskKept, TypesHold DEF Reached, Phased
    <3>5. (pc \notin Over => At("summary") = {})'
      BY <1>0, Appended, <2>0, AskKept, TypesHold DEF Reached, Phased
    <3>6. (pc \in Over /\ IsStream /\ answer # "refused" => (At("summary") # {} <=> ~err))'
      BY <1>0, Appended, <2>0, AskKept, TypesHold DEF Reached, Phased
    <3>7. (\A i \in At("summary") : out[i].rows = <<canal.read, ask.size > 0 /\ canal.read = ask.size>>)'
      <4>1. At("summary")' = At("summary") /\ \A i \in At("summary") : out'[i] = out[i]
        BY Appended
      <4>2. At("summary") = {} \/ canal' = canal
        BY DEF Reached
      <4> QED
        BY <1>0, <4>1, <4>2, SummaryKept DEF Reached
    <3>8. (pc # "done" => At("end") = {})'
      BY <1>0, Appended, <2>0, AskKept, TypesHold DEF Reached, Phased
    <3> QED
      BY <3>1, <3>2, <3>3, <3>4, <3>5, <3>6, <3>7, <3>8 DEF Reached
  <2>9. Observed'
    BY <1>0, Appended, <2>0, AskKept, TypesHold DEF Observed, Phased
  <2> QED
    BY <2>1, <2>2, <2>3, <2>4, <2>5, <2>6, <2>7, <2>8, <2>9
<1>3. CASE IsStream /\ Unwritten /\ Failed
  BY <1>3, <1>h, FailsKeeps DEF Unwritten
<1> QED
  BY <1>h, <1>1, <1>2, <1>3 DEF Compile, Emits, e

LEMMA ProgressKeeps ==
  ASSUME QueryInv, Progress
  PROVE  QueryInv'
<1> USE DEF QueryInv, Over, Before
<1> DEFINE e == Event("status", <<>>)
<1>0. ask' = ask /\ result' = result
  BY DEF Progress, Reading
<1>e. e \in Events /\ e.type = "status" /\ e.rows = <<>>
  BY TypesHold, EventsAre, RowsAre DEF EventTypes, Outcome
<1> HIDE DEF e
<1>h. pc = "canal" /\ UNCHANGED <<ask, result, ctx, answer>>
  BY DEF Progress, Reading
<1>1. CASE ~IsStream /\ UNCHANGED <<conn, out>> /\ Stays /\ UNCHANGED pc
  <2> USE <1>1, <1>h DEF Stays, Unwritten, Unsent
  <2>1. Typed'
    BY <1>0, OutKept, TypesHold DEF Typed, TypeOK
  <2>2. Phased'
    BY <1>0, OutKept, AskKept, TypesHold DEF Phased
  <2>3. Bounded'
    BY <1>0, OutKept, AskKept, TypesHold DEF Bounded
  <2>4. RowsKept'
    BY <1>0, OutKept, AskKept, TypesHold DEF RowsKept, Phased
  <2>5. RowsSent'
    BY <1>0, OutKept, AskKept, TypesHold DEF RowsSent
  <2>6. Framed'
    BY <1>0, OutKept, EventsAre DEF Framed, Reached, Phased
  <2>7. Once'
    BY <1>0, OutKept, EventsAre DEF Once, Reached, Phased
  <2>8. Reached'
    BY <1>0, OutKept, AskKept, TypesHold DEF Reached, Phased
  <2>9. Observed'
    BY <1>0, OutKept, AskKept, TypesHold DEF Observed, Phased
  <2> QED
    BY <2>1, <2>2, <2>3, <2>4, <2>5, <2>6, <2>7, <2>8, <2>9
<1>2. CASE IsStream /\ Written(e) /\ Stays /\ UNCHANGED pc
  <2> USE <1>2, <1>h, <1>e DEF Written, Stays
  <2>0. Sent' = Sent
    BY NoRowsAppended
  <2>1. Typed'
    BY <1>0, Appended, <2>0, TypesHold DEF Typed, TypeOK
  <2>2. Phased'
    BY <1>0, Appended, <2>0, AskKept, TypesHold DEF Phased
  <2>3. Bounded'
    BY <1>0, Appended, <2>0, AskKept, TypesHold DEF Bounded
  <2>4. RowsKept'
    BY <1>0, Appended, <2>0, AskKept, TypesHold DEF RowsKept, Phased
  <2>5. RowsSent'
    BY <1>0, Appended, <2>0, AskKept, TypesHold DEF RowsSent
  <2>6. Framed'
    <3>1. (\A i \in At("start") : i = 1)'
      BY <1>0, Appended, <2>0, EventsAre DEF Framed, Reached, Phased
    <3>2. (out # <<>> => 1 \in At("start"))'
      BY <1>0, Appended, <2>0, EventsAre DEF Framed, Reached, Phased
    <3>3. (\A i \in At("rows"), j \in At("header") \cup At("compiled") : j < i)'
      BY <1>0, Appended, <2>0, EventsAre DEF Framed, Reached, Phased
    <3>4. (\A i \in At("summary") : \A j \in At("rows") \cup At("header") \cup At("status") : j < i)'
      BY <1>0, Appended, <2>0, EventsAre DEF Framed, Reached, Phased
    <3>5. (\A i \in At("end") : i = Len(out) /\ (out[i].rows = <<"ok">> <=> At("summary") # {}))'
      BY <1>0, Appended, <2>0, EventsAre DEF Framed, Reached, Phased
    <3> QED
      BY <3>1, <3>2, <3>3, <3>4, <3>5 DEF Framed
  <2>7. Once'
    BY <1>0, Appended, <2>0, EventsAre DEF Once, Reached, Phased
  <2>8. Reached'
    <3>1. (canal.headed /\ IsStream => At("header") # {} /\ At("compiled") # {})'
      BY <1>0, Appended, <2>0, AskKept, TypesHold DEF Reached, Phased
    <3>2. (~canal.headed => At("header") = {} /\ At("rows") = {})'
      BY <1>0, Appended, <2>0, AskKept, TypesHold DEF Reached, Phased
    <3>3. (pc = "canal" /\ IsStream => At("compiled") # {})'
      BY <1>0, Appended, <2>0, AskKept, TypesHold DEF Reached, Phased
    <3>4. (pc \in Before => At("compiled") = {})'
      BY <1>0, Appended, <2>0, AskKept, TypesHold DEF Reached, Phased
    <3>5. (pc \notin Over => At("summary") = {})'
      BY <1>0, Appended, <2>0, AskKept, TypesHold DEF Reached, Phased
    <3>6. (pc \in Over /\ IsStream /\ answer # "refused" => (At("summary") # {} <=> ~err))'
      BY <1>0, Appended, <2>0, AskKept, TypesHold DEF Reached, Phased
    <3>7. (\A i \in At("summary") : out[i].rows = <<canal.read, ask.size > 0 /\ canal.read = ask.size>>)'
      <4>1. At("summary")' = At("summary") /\ \A i \in At("summary") : out'[i] = out[i]
        BY Appended
      <4>2. At("summary") = {} \/ canal' = canal
        BY DEF Reached
      <4> QED
        BY <1>0, <4>1, <4>2, SummaryKept DEF Reached
    <3>8. (pc # "done" => At("end") = {})'
      BY <1>0, Appended, <2>0, AskKept, TypesHold DEF Reached, Phased
    <3> QED
      BY <3>1, <3>2, <3>3, <3>4, <3>5, <3>6, <3>7, <3>8 DEF Reached
  <2>9. Observed'
    BY <1>0, Appended, <2>0, AskKept, TypesHold DEF Observed, Phased
  <2> QED
    BY <2>1, <2>2, <2>3, <2>4, <2>5, <2>6, <2>7, <2>8, <2>9
<1>3. CASE IsStream /\ Unwritten /\ Failed
  BY <1>3, <1>h, FailsKeeps DEF Unwritten
<1> QED
  BY <1>h, <1>1, <1>2, <1>3 DEF Progress, Emits, e, Reading

LEMMA HeaderKeeps ==
  ASSUME QueryInv, Header
  PROVE  QueryInv'
<1> USE DEF QueryInv, Over, Before
<1> DEFINE e == Event("header", <<>>)
<1>0. ask' = ask /\ result' = result
  BY DEF Header, Reading
<1>e. e \in Events /\ e.type = "header" /\ e.rows = <<>>
  BY TypesHold, EventsAre, RowsAre DEF EventTypes, Outcome
<1> HIDE DEF e
<1>h. pc = "canal" /\ ~canal.headed /\ ~canal.ended /\ UNCHANGED <<ask, result, ctx, answer>>
  BY DEF Header, Reading
<1>1. CASE ~IsStream /\ UNCHANGED <<conn, out>> /\ canal' = [canal EXCEPT !.headed = TRUE] /\ UNCHANGED <<pc, kept, more, bytes, batch, told, err>>
  <2> USE <1>1, <1>h DEF Stays, Unwritten, Unsent
  <2>1. Typed'
    BY <1>0, OutKept, TypesHold DEF Typed, TypeOK
  <2>2. Phased'
    BY <1>0, OutKept, AskKept, TypesHold DEF Phased
  <2>3. Bounded'
    BY <1>0, OutKept, AskKept, TypesHold DEF Bounded
  <2>4. RowsKept'
    BY <1>0, OutKept, AskKept, TypesHold DEF RowsKept, Phased
  <2>5. RowsSent'
    BY <1>0, OutKept, AskKept, TypesHold DEF RowsSent
  <2>6. Framed'
    BY <1>0, OutKept, EventsAre DEF Framed, Reached, Phased
  <2>7. Once'
    BY <1>0, OutKept, EventsAre DEF Once, Reached, Phased
  <2>8. Reached'
    BY <1>0, OutKept, AskKept, TypesHold DEF Reached, Phased
  <2>9. Observed'
    BY <1>0, OutKept, AskKept, TypesHold DEF Observed, Phased
  <2> QED
    BY <2>1, <2>2, <2>3, <2>4, <2>5, <2>6, <2>7, <2>8, <2>9
<1>2. CASE IsStream /\ Written(e) /\ canal' = [canal EXCEPT !.headed = TRUE] /\ UNCHANGED <<pc, kept, more, bytes, batch, told, err>>
  <2> USE <1>2, <1>h, <1>e DEF Written, Stays
  <2>0. Sent' = Sent
    BY NoRowsAppended
  <2>1. Typed'
    BY <1>0, Appended, <2>0, TypesHold DEF Typed, TypeOK
  <2>2. Phased'
    BY <1>0, Appended, <2>0, AskKept, TypesHold DEF Phased
  <2>3. Bounded'
    BY <1>0, Appended, <2>0, AskKept, TypesHold DEF Bounded
  <2>4. RowsKept'
    BY <1>0, Appended, <2>0, AskKept, TypesHold DEF RowsKept, Phased
  <2>5. RowsSent'
    BY <1>0, Appended, <2>0, AskKept, TypesHold DEF RowsSent
  <2>6. Framed'
    <3>1. (\A i \in At("start") : i = 1)'
      BY <1>0, Appended, <2>0, EventsAre DEF Framed, Reached, Phased
    <3>2. (out # <<>> => 1 \in At("start"))'
      BY <1>0, Appended, <2>0, EventsAre DEF Framed, Reached, Phased
    <3>3. (\A i \in At("rows"), j \in At("header") \cup At("compiled") : j < i)'
      BY <1>0, Appended, <2>0, EventsAre DEF Framed, Reached, Phased
    <3>4. (\A i \in At("summary") : \A j \in At("rows") \cup At("header") \cup At("status") : j < i)'
      BY <1>0, Appended, <2>0, EventsAre DEF Framed, Reached, Phased
    <3>5. (\A i \in At("end") : i = Len(out) /\ (out[i].rows = <<"ok">> <=> At("summary") # {}))'
      BY <1>0, Appended, <2>0, EventsAre DEF Framed, Reached, Phased
    <3> QED
      BY <3>1, <3>2, <3>3, <3>4, <3>5 DEF Framed
  <2>7. Once'
    BY <1>0, Appended, <2>0, EventsAre DEF Once, Reached, Phased
  <2>8. Reached'
    <3>1. (canal.headed /\ IsStream => At("header") # {} /\ At("compiled") # {})'
      BY <1>0, Appended, <2>0, AskKept, TypesHold, SMTT(30) DEF Reached, Phased
    <3>2. (~canal.headed => At("header") = {} /\ At("rows") = {})'
      BY <1>0, Appended, <2>0, AskKept, TypesHold DEF Reached, Phased
    <3>3. (pc = "canal" /\ IsStream => At("compiled") # {})'
      BY <1>0, Appended, <2>0, AskKept, TypesHold DEF Reached, Phased
    <3>4. (pc \in Before => At("compiled") = {})'
      BY <1>0, Appended, <2>0, AskKept, TypesHold DEF Reached, Phased
    <3>5. (pc \notin Over => At("summary") = {})'
      BY <1>0, Appended, <2>0, AskKept, TypesHold DEF Reached, Phased
    <3>6. (pc \in Over /\ IsStream /\ answer # "refused" => (At("summary") # {} <=> ~err))'
      BY <1>0, Appended, <2>0, AskKept, TypesHold DEF Reached, Phased
    <3>7. (\A i \in At("summary") : out[i].rows = <<canal.read, ask.size > 0 /\ canal.read = ask.size>>)'
      <4>1. At("summary")' = At("summary") /\ \A i \in At("summary") : out'[i] = out[i]
        BY Appended
      <4>2. At("summary") = {} \/ canal' = canal
        BY DEF Reached
      <4> QED
        BY <1>0, <4>1, <4>2, SummaryKept DEF Reached
    <3>8. (pc # "done" => At("end") = {})'
      BY <1>0, Appended, <2>0, AskKept, TypesHold DEF Reached, Phased
    <3> QED
      BY <3>1, <3>2, <3>3, <3>4, <3>5, <3>6, <3>7, <3>8 DEF Reached
  <2>9. Observed'
    BY <1>0, Appended, <2>0, AskKept, TypesHold DEF Observed, Phased
  <2> QED
    BY <2>1, <2>2, <2>3, <2>4, <2>5, <2>6, <2>7, <2>8, <2>9
<1>3. CASE IsStream /\ Unwritten /\ Failed
  BY <1>3, <1>h, FailsKeeps DEF Unwritten
<1> QED
  BY <1>h, <1>1, <1>2, <1>3 DEF Header, Emits, e, Reading

LEMMA SummaryKeeps ==
  ASSUME QueryInv, Summary
  PROVE  QueryInv'
<1> USE DEF QueryInv, Over, Before
<1> DEFINE e == Event("summary", <<canal.read, ask.size > 0 /\ canal.read = ask.size>>)
<1>0. ask' = ask /\ result' = result
  BY DEF Summary
<1>e. e \in Events /\ e.type = "summary" /\ e.rows = <<canal.read, ask.size > 0 /\ canal.read = ask.size>>
  BY TypesHold, EventsAre, RowsAre DEF EventTypes, Outcome
<1> HIDE DEF e
<1>h. pc = "summary" /\ IsStream /\ UNCHANGED <<ask, result, ctx, answer>>
  BY DEF Summary, Phased
<1>1. CASE Written(e) /\ pc' = "stop" /\ Stays
  <2> USE <1>1, <1>h, <1>e DEF Written, Stays
  <2>0. Sent' = Sent
    BY NoRowsAppended
  <2>1. Typed'
    BY <1>0, Appended, <2>0, TypesHold DEF Typed, TypeOK
  <2>2. Phased'
    BY <1>0, Appended, <2>0, AskKept, TypesHold DEF Phased
  <2>3. Bounded'
    BY <1>0, Appended, <2>0, AskKept, TypesHold DEF Bounded
  <2>4. RowsKept'
    BY <1>0, Appended, <2>0, AskKept, TypesHold DEF RowsKept, Phased
  <2>5. RowsSent'
    BY <1>0, Appended, <2>0, AskKept, TypesHold DEF RowsSent
  <2>6. Framed'
    <3>1. (\A i \in At("start") : i = 1)'
      BY <1>0, Appended, <2>0, EventsAre, SMTT(30) DEF Framed, Reached, Phased
    <3>2. (out # <<>> => 1 \in At("start"))'
      BY <1>0, Appended, <2>0, EventsAre, SMTT(30) DEF Framed, Reached, Phased
    <3>3. (\A i \in At("rows"), j \in At("header") \cup At("compiled") : j < i)'
      BY <1>0, Appended, <2>0, EventsAre DEF Framed, Reached, Phased
    <3>4. (\A i \in At("summary") : \A j \in At("rows") \cup At("header") \cup At("status") : j < i)'
      BY <1>0, Appended, <2>0, EventsAre, SMTT(30) DEF Framed, Reached, Phased
    <3>5. (\A i \in At("end") : i = Len(out) /\ (out[i].rows = <<"ok">> <=> At("summary") # {}))'
      BY <1>0, Appended, <2>0, EventsAre DEF Framed, Reached, Phased
    <3> QED
      BY <3>1, <3>2, <3>3, <3>4, <3>5 DEF Framed
  <2>7. Once'
    BY <1>0, Appended, <2>0, EventsAre DEF Once, Reached, Phased
  <2>8. Reached'
    <3>1. (canal.headed /\ IsStream => At("header") # {} /\ At("compiled") # {})'
      BY <1>0, Appended, <2>0, AskKept, TypesHold DEF Reached, Phased
    <3>2. (~canal.headed => At("header") = {} /\ At("rows") = {})'
      BY <1>0, Appended, <2>0, AskKept, TypesHold DEF Reached, Phased
    <3>3. (pc = "canal" /\ IsStream => At("compiled") # {})'
      BY <1>0, Appended, <2>0, AskKept, TypesHold DEF Reached, Phased
    <3>4. (pc \in Before => At("compiled") = {})'
      BY <1>0, Appended, <2>0, AskKept, TypesHold DEF Reached, Phased
    <3>5. (pc \notin Over => At("summary") = {})'
      BY <1>0, Appended, <2>0, AskKept, TypesHold DEF Reached, Phased
    <3>6. (pc \in Over /\ IsStream /\ answer # "refused" => (At("summary") # {} <=> ~err))'
      BY <1>0, Appended, <2>0, AskKept, TypesHold, SMTT(30) DEF Reached, Phased
    <3>7. (\A i \in At("summary") : out[i].rows = <<canal.read, ask.size > 0 /\ canal.read = ask.size>>)'
      <4>1. \A i \in At("summary") : out'[i] = out[i]
        BY Appended
      <4> QED
        BY <4>1, <1>0, Appended, <2>0, AskKept, TypesHold, SMTT(30) DEF Reached, Phased
    <3>8. (pc # "done" => At("end") = {})'
      BY <1>0, Appended, <2>0, AskKept, TypesHold DEF Reached, Phased
    <3> QED
      BY <3>1, <3>2, <3>3, <3>4, <3>5, <3>6, <3>7, <3>8 DEF Reached
  <2>9. Observed'
    BY <1>0, Appended, <2>0, AskKept, TypesHold DEF Observed, Phased
  <2> QED
    BY <2>1, <2>2, <2>3, <2>4, <2>5, <2>6, <2>7, <2>8, <2>9
<1>2. CASE Unwritten /\ Unsent
  <2> USE <1>2, <1>h DEF Stays, Unwritten, Unsent
  <2>1. Typed'
    BY <1>0, OutKept, TypesHold DEF Typed, TypeOK
  <2>2. Phased'
    BY <1>0, OutKept, AskKept, TypesHold DEF Phased
  <2>3. Bounded'
    BY <1>0, OutKept, AskKept, TypesHold DEF Bounded
  <2>4. RowsKept'
    BY <1>0, OutKept, AskKept, TypesHold DEF RowsKept, Phased
  <2>5. RowsSent'
    BY <1>0, OutKept, AskKept, TypesHold DEF RowsSent
  <2>6. Framed'
    BY <1>0, OutKept, EventsAre DEF Framed, Reached, Phased
  <2>7. Once'
    BY <1>0, OutKept, EventsAre DEF Once, Reached, Phased
  <2>8. Reached'
    BY <1>0, OutKept, AskKept, TypesHold DEF Reached, Phased
  <2>9. Observed'
    BY <1>0, OutKept, AskKept, TypesHold DEF Observed, Phased
  <2> QED
    BY <2>1, <2>2, <2>3, <2>4, <2>5, <2>6, <2>7, <2>8, <2>9
<1> QED
  BY <1>h, <1>1, <1>2 DEF Summary, Emits, e

LEMMA PingKeeps ==
  ASSUME QueryInv, Ping
  PROVE  QueryInv'
<1> USE DEF QueryInv, Over, Before
<1> DEFINE e == Event("ping", <<>>)
<1>0. ask' = ask /\ result' = result
  BY DEF Ping
<1>e. e \in Events /\ e.type = "ping" /\ e.rows = <<>>
  BY TypesHold, EventsAre, RowsAre DEF EventTypes, Outcome
<1> HIDE DEF e
<1>h. IsStream /\ Pinging /\ Begun /\ UNCHANGED <<ask, result, pc, ctx, canal, kept, more, bytes, batch, told, err, answer>>
  BY DEF Ping
<1>1. CASE Written(e)
  <2> USE <1>1, <1>h, <1>e DEF Written, Pinging, Begun
  <2>0. Sent' = Sent
    BY NoRowsAppended
  <2>1. Typed'
    BY <1>0, Appended, <2>0, TypesHold DEF Typed, TypeOK
  <2>2. Phased'
    BY <1>0, Appended, <2>0, AskKept, TypesHold DEF Phased
  <2>3. Bounded'
    BY <1>0, Appended, <2>0, AskKept, TypesHold DEF Bounded
  <2>4. RowsKept'
    BY <1>0, Appended, <2>0, AskKept, TypesHold DEF RowsKept, Phased
  <2>5. RowsSent'
    BY <1>0, Appended, <2>0, AskKept, TypesHold DEF RowsSent
  <2>6. Framed'
    <3>1. (\A i \in At("start") : i = 1)'
      BY <1>0, Appended, <2>0, EventsAre DEF Framed, Reached, Phased
    <3>2. (out # <<>> => 1 \in At("start"))'
      BY <1>0, Appended, <2>0, EventsAre DEF Framed, Reached, Phased
    <3>3. (\A i \in At("rows"), j \in At("header") \cup At("compiled") : j < i)'
      BY <1>0, Appended, <2>0, EventsAre DEF Framed, Reached, Phased
    <3>4. (\A i \in At("summary") : \A j \in At("rows") \cup At("header") \cup At("status") : j < i)'
      <4>1. /\ At("summary")' = At("summary") /\ At("rows")' = At("rows")
            /\ At("header")' = At("header") /\ At("status")' = At("status")
        BY Appended
      <4> QED
        BY <4>1 DEF Framed
    <3>5. (\A i \in At("end") : i = Len(out) /\ (out[i].rows = <<"ok">> <=> At("summary") # {}))'
      BY <1>0, Appended, <2>0, EventsAre DEF Framed, Reached, Phased
    <3> QED
      BY <3>1, <3>2, <3>3, <3>4, <3>5 DEF Framed
  <2>7. Once'
    BY <1>0, Appended, <2>0, EventsAre DEF Once, Reached, Phased
  <2>8. Reached'
    <3>1. (canal.headed /\ IsStream => At("header") # {} /\ At("compiled") # {})'
      BY <1>0, Appended, <2>0, AskKept, TypesHold DEF Reached, Phased
    <3>2. (~canal.headed => At("header") = {} /\ At("rows") = {})'
      BY <1>0, Appended, <2>0, AskKept, TypesHold DEF Reached, Phased
    <3>3. (pc = "canal" /\ IsStream => At("compiled") # {})'
      BY <1>0, Appended, <2>0, AskKept, TypesHold DEF Reached, Phased
    <3>4. (pc \in Before => At("compiled") = {})'
      BY <1>0, Appended, <2>0, AskKept, TypesHold DEF Reached, Phased
    <3>5. (pc \notin Over => At("summary") = {})'
      BY <1>0, Appended, <2>0, AskKept, TypesHold DEF Reached, Phased
    <3>6. (pc \in Over /\ IsStream /\ answer # "refused" => (At("summary") # {} <=> ~err))'
      BY <1>0, Appended, <2>0, AskKept, TypesHold DEF Reached, Phased
    <3>7. (\A i \in At("summary") : out[i].rows = <<canal.read, ask.size > 0 /\ canal.read = ask.size>>)'
      <4>1. At("summary")' = At("summary") /\ \A i \in At("summary") : out'[i] = out[i]
        BY Appended
      <4>2. At("summary") = {} \/ canal' = canal
        BY DEF Reached
      <4> QED
        BY <1>0, <4>1, <4>2, SummaryKept DEF Reached
    <3>8. (pc # "done" => At("end") = {})'
      BY <1>0, Appended, <2>0, AskKept, TypesHold DEF Reached, Phased
    <3> QED
      BY <3>1, <3>2, <3>3, <3>4, <3>5, <3>6, <3>7, <3>8 DEF Reached
  <2>9. Observed'
    BY <1>0, Appended, <2>0, AskKept, TypesHold DEF Observed, Phased
  <2> QED
    BY <2>1, <2>2, <2>3, <2>4, <2>5, <2>6, <2>7, <2>8, <2>9
<1>2. CASE Unwritten
  <2> USE <1>2, <1>h DEF Unwritten, Pinging, Begun
  <2>1. Typed'
    BY <1>0, OutKept, TypesHold DEF Typed, TypeOK
  <2>2. Phased'
    BY <1>0, OutKept, AskKept, TypesHold DEF Phased
  <2>3. Bounded'
    BY <1>0, OutKept, AskKept, TypesHold DEF Bounded
  <2>4. RowsKept'
    BY <1>0, OutKept, AskKept, TypesHold DEF RowsKept, Phased
  <2>5. RowsSent'
    BY <1>0, OutKept, AskKept, TypesHold DEF RowsSent
  <2>6. Framed'
    BY <1>0, OutKept, EventsAre DEF Framed, Reached, Phased
  <2>7. Once'
    BY <1>0, OutKept, EventsAre DEF Once, Reached, Phased
  <2>8. Reached'
    BY <1>0, OutKept, AskKept, TypesHold DEF Reached, Phased
  <2>9. Observed'
    BY <1>0, OutKept, AskKept, TypesHold DEF Observed, Phased
  <2> QED
    BY <2>1, <2>2, <2>3, <2>4, <2>5, <2>6, <2>7, <2>8, <2>9
<1> QED
  BY <1>h, <1>1, <1>2 DEF Ping, Emits, e

LEMMA AnswerKeeps ==
  ASSUME QueryInv, Answer
  PROVE  QueryInv'
<1> USE DEF QueryInv, Over, Before
<1> DEFINE e == Event("end", <<Outcome>>)
<1>0. ask' = ask /\ result' = result
  BY DEF Answer
<1>e. e \in Events /\ e.type = "end" /\ e.rows = <<Outcome>>
  BY TypesHold, EventsAre, RowsAre DEF EventTypes, Outcome
<1> HIDE DEF e
<1>h. pc = "end" /\ pc' = "done" /\ UNCHANGED <<ask, result, ctx, canal, kept, more, bytes, batch, told, err>>
  BY DEF Answer
<1>1. CASE ctx = "gone" /\ (IsStream \/ err) /\ answer' = "canceled" /\ UNCHANGED <<conn, out>>
  <2> USE <1>1, <1>h DEF Unwritten, Outcome
  <2>1. Typed'
    BY <1>0, OutKept, TypesHold DEF Typed, TypeOK
  <2>2. Phased'
    BY <1>0, OutKept, AskKept, TypesHold DEF Phased
  <2>3. Bounded'
    BY <1>0, OutKept, AskKept, TypesHold DEF Bounded
  <2>4. RowsKept'
    BY <1>0, OutKept, AskKept, TypesHold DEF RowsKept, Phased
  <2>5. RowsSent'
    BY <1>0, OutKept, AskKept, TypesHold DEF RowsSent
  <2>6. Framed'
    BY <1>0, OutKept, EventsAre DEF Framed, Reached, Phased
  <2>7. Once'
    BY <1>0, OutKept, EventsAre DEF Once, Reached, Phased
  <2>8. Reached'
    BY <1>0, OutKept, AskKept, TypesHold DEF Reached, Phased
  <2>9. Observed'
    BY <1>0, OutKept, AskKept, TypesHold DEF Observed, Phased
  <2> QED
    BY <2>1, <2>2, <2>3, <2>4, <2>5, <2>6, <2>7, <2>8, <2>9
<1>2. CASE ctx # "gone" /\ IsStream /\ Written(e) /\ answer' = Outcome
  <2> USE <1>2, <1>h, <1>e DEF Written, Outcome
  <2>0. Sent' = Sent
    BY NoRowsAppended
  <2>1. Typed'
    BY <1>0, Appended, <2>0, TypesHold DEF Typed, TypeOK
  <2>2. Phased'
    BY <1>0, Appended, <2>0, AskKept, TypesHold DEF Phased
  <2>3. Bounded'
    BY <1>0, Appended, <2>0, AskKept, TypesHold DEF Bounded
  <2>4. RowsKept'
    BY <1>0, Appended, <2>0, AskKept, TypesHold DEF RowsKept, Phased
  <2>5. RowsSent'
    BY <1>0, Appended, <2>0, AskKept, TypesHold DEF RowsSent
  <2>6. Framed'
    <3>1. (\A i \in At("start") : i = 1)'
      BY <1>0, Appended, <2>0, EventsAre DEF Framed, Reached, Phased
    <3>2. (out # <<>> => 1 \in At("start"))'
      BY <1>0, Appended, <2>0, EventsAre DEF Framed, Reached, Phased
    <3>3. (\A i \in At("rows"), j \in At("header") \cup At("compiled") : j < i)'
      BY <1>0, Appended, <2>0, EventsAre DEF Framed, Reached, Phased
    <3>4. (\A i \in At("summary") : \A j \in At("rows") \cup At("header") \cup At("status") : j < i)'
      BY <1>0, Appended, <2>0, EventsAre, SMTT(30) DEF Framed, Reached, Phased
    <3>5. (\A i \in At("end") : i = Len(out) /\ (out[i].rows = <<"ok">> <=> At("summary") # {}))'
      BY <1>0, Appended, <2>0, EventsAre DEF Framed, Reached, Phased
    <3> QED
      BY <3>1, <3>2, <3>3, <3>4, <3>5 DEF Framed
  <2>7. Once'
    BY <1>0, Appended, <2>0, EventsAre DEF Once, Reached, Phased
  <2>8. Reached'
    <3>1. (canal.headed /\ IsStream => At("header") # {} /\ At("compiled") # {})'
      BY <1>0, Appended, <2>0, AskKept, TypesHold DEF Reached, Phased
    <3>2. (~canal.headed => At("header") = {} /\ At("rows") = {})'
      BY <1>0, Appended, <2>0, AskKept, TypesHold DEF Reached, Phased
    <3>3. (pc = "canal" /\ IsStream => At("compiled") # {})'
      BY <1>0, Appended, <2>0, AskKept, TypesHold DEF Reached, Phased
    <3>4. (pc \in Before => At("compiled") = {})'
      BY <1>0, Appended, <2>0, AskKept, TypesHold DEF Reached, Phased
    <3>5. (pc \notin Over => At("summary") = {})'
      BY <1>0, Appended, <2>0, AskKept, TypesHold DEF Reached, Phased
    <3>6. (pc \in Over /\ IsStream /\ answer # "refused" => (At("summary") # {} <=> ~err))'
      BY <1>0, Appended, <2>0, AskKept, TypesHold DEF Reached, Phased
    <3>7. (\A i \in At("summary") : out[i].rows = <<canal.read, ask.size > 0 /\ canal.read = ask.size>>)'
      <4>1. At("summary")' = At("summary") /\ \A i \in At("summary") : out'[i] = out[i]
        BY Appended
      <4>2. At("summary") = {} \/ canal' = canal
        BY DEF Reached
      <4> QED
        BY <1>0, <4>1, <4>2, SummaryKept DEF Reached
    <3>8. (pc # "done" => At("end") = {})'
      BY <1>0, Appended, <2>0, AskKept, TypesHold DEF Reached, Phased
    <3> QED
      BY <3>1, <3>2, <3>3, <3>4, <3>5, <3>6, <3>7, <3>8 DEF Reached
  <2>9. Observed'
    BY <1>0, Appended, <2>0, AskKept, TypesHold DEF Observed, Phased
  <2> QED
    BY <2>1, <2>2, <2>3, <2>4, <2>5, <2>6, <2>7, <2>8, <2>9
<1>3. CASE ctx # "gone" /\ IsStream /\ Unwritten /\ answer' = "cut"
  <2> USE <1>3, <1>h DEF Unwritten, Outcome
  <2>1. Typed'
    BY <1>0, OutKept, TypesHold DEF Typed, TypeOK
  <2>2. Phased'
    BY <1>0, OutKept, AskKept, TypesHold DEF Phased
  <2>3. Bounded'
    BY <1>0, OutKept, AskKept, TypesHold DEF Bounded
  <2>4. RowsKept'
    BY <1>0, OutKept, AskKept, TypesHold DEF RowsKept, Phased
  <2>5. RowsSent'
    BY <1>0, OutKept, AskKept, TypesHold DEF RowsSent
  <2>6. Framed'
    BY <1>0, OutKept, EventsAre DEF Framed, Reached, Phased
  <2>7. Once'
    BY <1>0, OutKept, EventsAre DEF Once, Reached, Phased
  <2>8. Reached'
    BY <1>0, OutKept, AskKept, TypesHold DEF Reached, Phased
  <2>9. Observed'
    BY <1>0, OutKept, AskKept, TypesHold DEF Observed, Phased
  <2> QED
    BY <2>1, <2>2, <2>3, <2>4, <2>5, <2>6, <2>7, <2>8, <2>9
<1>4. CASE (ctx # "gone" \/ ~err) /\ ~IsStream /\ answer' = Outcome /\ UNCHANGED <<conn, out>>
  <2> USE <1>4, <1>h DEF Unwritten, Outcome
  <2>1. Typed'
    BY <1>0, OutKept, TypesHold DEF Typed, TypeOK
  <2>2. Phased'
    BY <1>0, OutKept, AskKept, TypesHold DEF Phased
  <2>3. Bounded'
    BY <1>0, OutKept, AskKept, TypesHold DEF Bounded
  <2>4. RowsKept'
    BY <1>0, OutKept, AskKept, TypesHold DEF RowsKept, Phased
  <2>5. RowsSent'
    BY <1>0, OutKept, AskKept, TypesHold DEF RowsSent
  <2>6. Framed'
    BY <1>0, OutKept, EventsAre DEF Framed, Reached, Phased
  <2>7. Once'
    BY <1>0, OutKept, EventsAre DEF Once, Reached, Phased
  <2>8. Reached'
    BY <1>0, OutKept, AskKept, TypesHold DEF Reached, Phased
  <2>9. Observed'
    BY <1>0, OutKept, AskKept, TypesHold DEF Observed, Phased
  <2> QED
    BY <2>1, <2>2, <2>3, <2>4, <2>5, <2>6, <2>7, <2>8, <2>9
<1> QED
  BY <1>h, <1>1, <1>2, <1>3, <1>4 DEF Answer, Emits, e

LEMMA CompileFailsKeeps ==
  ASSUME QueryInv, CompileFails
  PROVE  QueryInv'
  BY FailsKeeps DEF CompileFails, Quietly

LEMMA AnswerFailsKeeps ==
  ASSUME QueryInv, AnswerFails
  PROVE  QueryInv'
  BY FailsKeeps DEF AnswerFails, Quietly

LEMMA RowTooLargeKeeps ==
  ASSUME QueryInv, RowTooLarge
  PROVE  QueryInv'
  BY FailsKeeps DEF RowTooLarge, HasRow, Reading, Quietly

LEMMA RowUnwrittenKeeps ==
  ASSUME QueryInv, RowUnwritten
  PROVE  QueryInv'
  BY FailsKeeps DEF RowUnwritten, HasRow, Reading, Unwritten

LEMMA FirstAppends ==
  ASSUME NEW n \in Nat
  PROVE  First(n) \in Seq(Nat) /\ Len(First(n)) = n /\ Append(First(n), n + 1) = First(n + 1)
<1>1. First(n) \in Seq(Nat) /\ Len(First(n)) = n
  BY DEF First
<1>2. First(n + 1) \in Seq(Nat) /\ Len(First(n + 1)) = n + 1
  BY DEF First
<1>3. \A i \in 1 .. n + 1 : Append(First(n), n + 1)[i] = First(n + 1)[i]
  BY <1>1 DEF First
<1>4. Append(First(n), n + 1) \in Seq(Nat) /\ Len(Append(First(n), n + 1)) = n + 1
  BY <1>1
<1> QED
  BY <1>1, <1>2, <1>3, <1>4

LEMMA KeepIsNat ==
  ASSUME Typed
  PROVE  Keep \in Nat /\ ToSend \in Nat /\ ToSend <= Len(result)
<1>1. Keep \in Nat
  BY TypesHold, QueryConstants DEF Keep, WithinPage, NoLimit
<1>2. RowCap = NoLimit \/ RowCap \in Nat
  <2>1. Truncate \in Nat \cup {NoLimit}
    BY TypesHold, QueryConstants DEF Truncate, WithinPage
  <2>2. ask.max + 1 \in Nat
    BY TypesHold
  <2> QED
    BY <2>1, <2>2 DEF RowCap
<1> QED
  BY <1>1, <1>2, TypesHold DEF ToSend, AtMost

\* A row of the answer, read.
LEMMA RowRead ==
  ASSUME QueryInv, HasRow
  PROVE  /\ pc = "canal" /\ canal.headed /\ ~canal.ended /\ UNCHANGED <<ask, result, ctx, answer>>
         /\ canal.read + 1 \in 0 .. Len(result) /\ canal.read + 1 <= ToSend /\ result[canal.read + 1] \in Nat
         /\ LET c == [canal EXCEPT !.read = @ + 1] IN
            /\ c \in [headed : BOOLEAN, ended : BOOLEAN, read : 0 .. Len(result)]
            /\ c.headed /\ ~c.ended /\ c.read = canal.read + 1
<1>0. Typed
  BY DEF QueryInv
<1>1. pc = "canal" /\ canal.headed /\ ~canal.ended /\ UNCHANGED <<ask, result, ctx, answer>> /\ canal.read < ToSend
  BY DEF HasRow, Reading
<1>2. canal.read + 1 \in 0 .. Len(result) /\ canal.read + 1 <= ToSend
  BY <1>0, <1>1, TypesHold, KeepIsNat
<1>3. result \in Seq(RowSizes) /\ RowSizes \subseteq Nat
  BY <1>0, QueryConstants DEF Typed, TypeOK
<1>4. result[canal.read + 1] \in Nat
  <2>1. canal.read + 1 \in 1 .. Len(result)
    BY <1>0, <1>2, TypesHold
  <2>2. result[canal.read + 1] \in RowSizes
    BY <1>3, <2>1
  <2> QED
    BY <1>3, <2>2
<1>5. canal \in [headed : BOOLEAN, ended : BOOLEAN, read : 0 .. Len(result)]
  BY <1>0 DEF Typed, TypeOK
<1> QED
  BY <1>1, <1>2, <1>4, <1>5

LEMMA PageRowKeeps ==
  ASSUME QueryInv, HasRow, ~TooMany, PageRow, canal' = [canal EXCEPT !.read = @ + 1], UNCHANGED <<pc, told, err>>
  PROVE  QueryInv'
<1> USE DEF QueryInv, Over, Before
<1>0. ask' = ask /\ result' = result
  BY DEF HasRow, Reading
<1>h. /\ pc = "canal" /\ canal.headed /\ ~canal.ended /\ UNCHANGED <<ask, result, ctx, answer, pc, told, err>>
      /\ canal.read + 1 \in 0 .. Len(result) /\ canal.read + 1 <= ToSend /\ result[canal.read + 1] \in Nat
      /\ canal' \in [headed : BOOLEAN, ended : BOOLEAN, read : 0 .. Len(result)]
      /\ canal'.headed /\ ~canal'.ended /\ canal'.read = canal.read + 1
      /\ Capped => canal.read + 1 <= ask.max
  BY RowRead, TypesHold DEF TooMany, Next1
<1> USE <1>h
<1>j. bytes \in Nat /\ kept \in Seq(Nat) /\ more \in BOOLEAN /\ canal.read \in Nat
  BY TypesHold DEF Typed, TypeOK
<1>i. bytes + result[canal.read + 1] \in Nat /\ Append(kept, canal.read + 1) \in Seq(Nat)
  BY <1>j
<1>k. /\ ask.form = "page" /\ UNCHANGED <<batch, conn, out>>
      /\ bytes' \in Nat /\ kept' \in Seq(Nat) /\ more' \in BOOLEAN
      /\ \/ Len(kept) = Keep /\ more' = TRUE /\ kept' = kept
         \/ Len(kept) # Keep /\ kept' = Append(kept, canal.read + 1) /\ more' = more
  BY <1>j, <1>i DEF PageRow, Next1
<1>1. Typed'
  BY <1>0, <1>k, OutKept, TypesHold DEF Typed, TypeOK
<1>2. Phased'
  BY <1>0, <1>k, OutKept, AskKept, TypesHold DEF Phased
<1>3. Bounded'
  BY <1>0, <1>k, OutKept, AskKept, TypesHold DEF Bounded
<1>4. RowsKept'
  <2>1. /\ Keep \in Nat /\ Keep' = Keep /\ kept = First(AtMost(Keep, canal.read)) /\ more = (canal.read > Keep)
        /\ canal'.read = canal.read + 1 /\ ask'.form = "page" /\ pc' = "canal"
    BY <1>0, <1>j, <1>k, AskKept, KeepIsNat DEF RowsKept
  <2>2. Len(kept) = AtMost(Keep, canal.read)
    BY <1>j, <2>1, FirstAppends DEF AtMost
  <2>3. CASE Len(kept) = Keep
    <3>1. AtMost(Keep, canal.read + 1) = AtMost(Keep, canal.read) /\ canal.read + 1 > Keep
      BY <1>j, <2>1, <2>2, <2>3 DEF AtMost
    <3> QED
      BY <1>k, <2>1, <2>3, <3>1 DEF RowsKept
  <2>4. CASE Len(kept) # Keep
    <3>1. AtMost(Keep, canal.read + 1) = canal.read + 1 /\ AtMost(Keep, canal.read) = canal.read /\ ~(canal.read + 1 > Keep) /\ ~(canal.read > Keep)
      BY <1>j, <2>1, <2>2, <2>4 DEF AtMost
    <3>2. kept' = First(canal.read + 1)
      BY <1>j, <1>k, <2>1, <2>4, <3>1, FirstAppends
    <3> QED
      BY <1>k, <2>1, <2>4, <3>1, <3>2 DEF RowsKept
  <2> QED
    BY <2>3, <2>4
<1>5. RowsSent'
  BY <1>0, <1>k, OutKept, AskKept, TypesHold DEF RowsSent, IsStream
<1>6. Framed'
  BY <1>0, <1>k, OutKept, EventsAre DEF Framed, Reached, Phased
<1>7. Once'
  BY <1>0, <1>k, OutKept, EventsAre DEF Once, Reached, Phased
<1>8. Reached'
  BY <1>0, <1>k, OutKept, AskKept, TypesHold, SMTT(30) DEF Reached, Phased
<1>9. Observed'
  BY <1>0, <1>k, OutKept, AskKept, TypesHold DEF Observed, Phased
<1> QED
  BY <1>1, <1>2, <1>3, <1>4, <1>5, <1>6, <1>7, <1>8, <1>9

LEMMA FileRowKeeps ==
  ASSUME QueryInv, HasRow, ~TooMany, FileRow, canal' = [canal EXCEPT !.read = @ + 1], UNCHANGED <<pc, told, err>>
  PROVE  QueryInv'
<1> USE DEF QueryInv, Over, Before
<1>0. ask' = ask /\ result' = result
  BY DEF HasRow, Reading
<1>h. /\ pc = "canal" /\ canal.headed /\ ~canal.ended /\ UNCHANGED <<ask, result, ctx, answer, pc, told, err>>
      /\ canal.read + 1 \in 0 .. Len(result) /\ canal.read + 1 <= ToSend /\ result[canal.read + 1] \in Nat
      /\ canal' \in [headed : BOOLEAN, ended : BOOLEAN, read : 0 .. Len(result)]
      /\ canal'.headed /\ ~canal'.ended /\ canal'.read = canal.read + 1
      /\ Capped => canal.read + 1 <= ask.max
  BY RowRead, TypesHold DEF TooMany, Next1
<1> USE <1>h
<1>k. ask.form = "export" /\ kept' = Append(kept, canal.read + 1) /\ kept' \in Seq(Nat) /\ UNCHANGED <<more, bytes, batch, conn, out>>
  BY TypesHold DEF FileRow, Next1, Typed, TypeOK
<1>1. Typed'
  BY <1>0, <1>k, OutKept, TypesHold DEF Typed, TypeOK
<1>2. Phased'
  BY <1>0, <1>k, OutKept, AskKept, TypesHold DEF Phased
<1>3. Bounded'
  BY <1>0, <1>k, OutKept, AskKept, TypesHold DEF Bounded
<1>4. RowsKept'
  BY <1>0, <1>k, AskKept, TypesHold, FirstAppends DEF RowsKept
<1>5. RowsSent'
  BY <1>0, <1>k, OutKept, AskKept, TypesHold DEF RowsSent, IsStream
<1>6. Framed'
  BY <1>0, <1>k, OutKept, EventsAre DEF Framed, Reached, Phased
<1>7. Once'
  BY <1>0, <1>k, OutKept, EventsAre DEF Once, Reached, Phased
<1>8. Reached'
  BY <1>0, <1>k, OutKept, AskKept, TypesHold DEF Reached, Phased
<1>9. Observed'
  BY <1>0, <1>k, OutKept, AskKept, TypesHold DEF Observed, Phased
<1> QED
  BY <1>1, <1>2, <1>3, <1>4, <1>5, <1>6, <1>7, <1>8, <1>9

LEMMA BatchGrows ==
  ASSUME NEW b \in Seq(Nat), NEW r \in Nat, Len(b) <= r, \A k \in 1 .. Len(b) : b[k] = r - Len(b) + k
  PROVE  /\ Append(b, r + 1) \in Seq(Nat) /\ Len(Append(b, r + 1)) = Len(b) + 1 /\ Len(b) \in Nat
         /\ \A k \in 1 .. Len(b) + 1 : Append(b, r + 1)[k] = r - Len(b) + k
<1>1. Append(b, r + 1) \in Seq(Nat) /\ Len(Append(b, r + 1)) = Len(b) + 1 /\ Len(b) \in Nat
  OBVIOUS
<1>2. ASSUME NEW k \in 1 .. Len(b) PROVE Append(b, r + 1)[k] = r - Len(b) + k
  BY <1>1
<1>3. Append(b, r + 1)[Len(b) + 1] = r - Len(b) + (Len(b) + 1)
  BY <1>1
<1> QED
  BY <1>1, <1>2, <1>3

\* A rows event goes on where the rows sent end.
LEMMA SentOn ==
  ASSUME Typed, NEW e \in Events, e.type = "rows", out' = Append(out, e),
         NEW n \in Nat, NEW m \in Nat, n <= m, InOrder(Sent, n),
         e.rows \in Seq(Nat), Len(e.rows) = m - n, \A k \in 1 .. m - n : e.rows[k] = n + k
  PROVE  InOrder(Sent', m)
<1>1. /\ DOMAIN Sent' = DOMAIN Sent \cup {Len(out) + 1} /\ DOMAIN Sent \subseteq 1 .. Len(out) /\ Len(out) \in Nat
      /\ Sent'[Len(out) + 1] = e.rows /\ \A i \in DOMAIN Sent : Sent'[i] = Sent[i]
  BY RowsAppended
<1>2. DOMAIN e.rows = 1 .. m - n
  OBVIOUS
<1>3. Adds(Sent', Sent, Len(out), e.rows) /\ GoesOn(e.rows, n, m)
  BY <1>1, <1>2 DEF Adds, GoesOn
<1> QED
  BY <1>3, PartAdded

LEMMA FullBatchSent ==
  ASSUME Typed, NEW e \in Events, e.type = "rows", out' = Append(out, e), e.rows = Append(batch, canal.read + 1),
         Len(batch) <= canal.read, \A k \in 1 .. Len(batch) : batch[k] = canal.read - Len(batch) + k,
         InOrder(Sent, canal.read - Len(batch))
  PROVE  InOrder(Sent', canal.read + 1)
<1> DEFINE r == canal.read
           b == batch
<1>1. r \in Nat /\ b \in Seq(Nat) /\ Len(b) \in Nat
  BY TypesHold DEF Typed, TypeOK
<1>2. Len(b) <= r /\ (\A k \in 1 .. Len(b) : b[k] = r - Len(b) + k) /\ InOrder(Sent, r - Len(b)) /\ e.rows = Append(b, r + 1)
  OBVIOUS
<1> HIDE DEF r, b
<1>3. e.rows \in Seq(Nat) /\ Len(e.rows) = Len(b) + 1 /\ \A k \in 1 .. Len(b) + 1 : e.rows[k] = r - Len(b) + k
  <2>1. \A q \in Seq(Nat), n \in Nat :
          Len(q) <= n /\ (\A k \in 1 .. Len(q) : q[k] = n - Len(q) + k) =>
            /\ Append(q, n + 1) \in Seq(Nat) /\ Len(Append(q, n + 1)) = Len(q) + 1
            /\ \A k \in 1 .. Len(q) + 1 : Append(q, n + 1)[k] = n - Len(q) + k
    BY BatchGrows
  <2>2. \A k \in 1 .. Len(b) : b[k] = r - Len(b) + k
    BY <1>2
  <2>3. /\ Append(b, r + 1) \in Seq(Nat) /\ Len(Append(b, r + 1)) = Len(b) + 1
        /\ \A k \in 1 .. Len(b) + 1 : Append(b, r + 1)[k] = r - Len(b) + k
    BY <1>1, <1>2, <2>1, <2>2
  <2> QED
    BY <1>2, <2>3
<1>4. r - Len(b) \in Nat /\ r + 1 \in Nat /\ r - Len(b) <= r + 1 /\ (r + 1) - (r - Len(b)) = Len(b) + 1
  BY <1>1, <1>2
<1>5. ASSUME NEW n, NEW m, n = r - Len(b), m = r + 1 PROVE InOrder(Sent', m)
  <2>1. n \in Nat /\ m \in Nat /\ n <= m /\ InOrder(Sent, n) /\ m - n = Len(b) + 1
    BY <1>2, <1>4, <1>5
  <2>2. Len(e.rows) = m - n /\ \A k \in 1 .. m - n : e.rows[k] = n + k
    BY <1>3, <1>5, <2>1
  <2> QED
    BY <1>3, <2>1, <2>2, SentOn
<1> QED
  BY <1>5 DEF r, b

\* Rows follow the header and the compiled event, and are followed by the summary.
LEMMA RowsWritten ==
  ASSUME Typed, Framed, Once, NEW e \in Events, e.type = "rows", out' = Append(out, e),
         out # <<>>, At("summary") = {}, At("end") = {}
  PROVE  /\ Framed' /\ Once' /\ Len(out) \in Nat
         /\ \A type \in {"start", "status", "compiled", "header", "summary", "ping", "end"} : At(type)' = At(type)
<1>1. /\ Len(out) \in Nat
      /\ At("rows")' = At("rows") \cup {Len(out) + 1}
      /\ At("start")' = At("start") /\ At("status")' = At("status") /\ At("compiled")' = At("compiled") /\ At("header")' = At("header")
      /\ At("summary")' = {} /\ At("ping")' = At("ping") /\ At("end")' = {}
      /\ At("header") \cup At("compiled") \subseteq 1 .. Len(out) /\ out' # <<>>
  BY Appended
<1>2. Framed'
  BY <1>1 DEF Framed
<1>3. Once'
  BY <1>1 DEF Once
<1> QED
  BY <1>1, <1>2, <1>3

LEMMA BatchRowKeeps ==
  ASSUME QueryInv, HasRow, ~TooMany, BatchRow, canal' = [canal EXCEPT !.read = @ + 1], UNCHANGED <<pc, told, err>>
  PROVE  QueryInv'
<1> USE DEF QueryInv, Over, Before
<1>0. ask' = ask /\ result' = result
  BY DEF HasRow, Reading
<1>h. /\ pc = "canal" /\ canal.headed /\ ~canal.ended /\ UNCHANGED <<ask, result, ctx, answer, pc, told, err>>
      /\ canal.read + 1 \in 0 .. Len(result) /\ canal.read + 1 <= ToSend /\ result[canal.read + 1] \in Nat
      /\ canal' \in [headed : BOOLEAN, ended : BOOLEAN, read : 0 .. Len(result)]
      /\ canal'.headed /\ ~canal'.ended /\ canal'.read = canal.read + 1
      /\ Capped => canal.read + 1 <= ask.max
  BY RowRead, TypesHold DEF TooMany, Next1
<1> USE <1>h
<1> DEFINE e == Event("rows", Append(batch, canal.read + 1))
<1>k. IsStream /\ UNCHANGED <<kept, more>> /\ batch \in Seq(Nat) /\ Append(batch, canal.read + 1) \in Seq(Nat) /\ bytes \in Nat /\ canal.read \in Nat
  BY TypesHold DEF BatchRow, Typed, TypeOK
<1>b. /\ Len(batch) \in Nat /\ Len(batch) <= canal.read /\ canal.read - Len(batch) \in Nat /\ InOrder(Sent, canal.read - Len(batch))
      /\ Append(batch, canal.read + 1) \in Seq(Nat) /\ Len(Append(batch, canal.read + 1)) = Len(batch) + 1
      /\ \A k \in 1 .. Len(batch) + 1 : Append(batch, canal.read + 1)[k] = canal.read - Len(batch) + k
      /\ \A k \in 1 .. Len(batch) : batch[k] = canal.read - Len(batch) + k
  BY <1>k, BatchGrows DEF RowsSent
<1>e. e \in Events /\ e.type = "rows" /\ e.rows = Append(batch, canal.read + 1)
  BY <1>k, EventsAre, RowsAre DEF EventTypes
<1> HIDE DEF e
<1>1. CASE Written(e) /\ batch' = <<>> /\ bytes' = 0
  <2>o. out # <<>> /\ At("summary") = {} /\ At("end") = {} /\ (canal.headed => At("header") # {} /\ At("compiled") # {})
    BY <1>1, <1>k DEF Written,  Phased, Reached, Framed
  <2> USE <1>1, <1>e DEF Written
  <2>w. /\ Framed' /\ Once' /\ Len(out) \in Nat
        /\ \A type \in {"start", "status", "compiled", "header", "summary", "ping", "end"} : At(type)' = At(type)
    BY <2>o, RowsWritten
  <2>1. Typed'
    BY <1>0, <1>k, Appended, TypesHold DEF Typed, TypeOK
  <2>2. Phased'
    BY <1>0, <1>k, Appended, AskKept, TypesHold DEF Phased
  <2>3. Bounded'
    BY <1>0, <1>k, Appended, AskKept, TypesHold DEF Bounded
  <2>4. RowsKept'
    BY <1>0, <1>k, Appended, AskKept, TypesHold DEF IsStream, RowsKept, Phased
  <2>5. RowsSent'
    <3>1. InOrder(Sent', canal.read + 1)
      BY <1>b, FullBatchSent
    <3>2. Len(batch') = 0 /\ canal'.read - Len(batch') = canal.read + 1
      BY TypesHold
    <3> QED
      BY <3>1, <3>2, TypesHold DEF RowsSent, InOrder
  <2>6. Framed'
    BY <2>w
  <2>7. Once'
    BY <2>w
  <2>8. Reached'
    BY <1>0, <2>o, <2>w, AskKept DEF Reached
  <2>9. Observed'
    BY <1>0, <1>k, Appended, AskKept, TypesHold DEF Observed, Phased
  <2> QED
    BY <2>1, <2>2, <2>3, <2>4, <2>5, <2>6, <2>7, <2>8, <2>9
<1>2. CASE batch' = Append(batch, canal.read + 1) /\ bytes' = bytes + result[canal.read + 1] /\ UNCHANGED <<conn, out>>
  <2> USE <1>2
  <2>1. Typed'
    BY <1>0, <1>k, OutKept, TypesHold, SMTT(30) DEF Typed, TypeOK
  <2>2. Phased'
    BY <1>0, <1>k, OutKept, AskKept, TypesHold DEF Phased
  <2>3. Bounded'
    BY <1>0, <1>k, OutKept, AskKept, TypesHold DEF Bounded
  <2>4. RowsKept'
    BY <1>0, <1>k, OutKept, AskKept, TypesHold DEF IsStream, RowsKept, Phased
  <2>5. RowsSent'
    <3>1. Len(batch') = Len(batch) + 1 /\ canal'.read - Len(batch') = canal.read - Len(batch)
      BY <1>b, TypesHold
    <3> QED
      BY <1>0, <1>b, <3>1, OutKept, AskKept, TypesHold, SMTT(30) DEF RowsSent
  <2>6. Framed'
    BY <1>0, <1>k, OutKept, EventsAre DEF Framed, Reached, Phased
  <2>7. Once'
    BY <1>0, <1>k, OutKept, EventsAre DEF Once, Reached, Phased
  <2>8. Reached'
    BY <1>0, <1>k, OutKept, AskKept, TypesHold DEF Reached, Phased
  <2>9. Observed'
    BY <1>0, <1>k, OutKept, AskKept, TypesHold DEF Observed, Phased
  <2> QED
    BY <2>1, <2>2, <2>3, <2>4, <2>5, <2>6, <2>7, <2>8, <2>9
<1> QED
  BY <1>1, <1>2 DEF BatchRow, Next1, e

LEMMA RowKeeps ==
  ASSUME QueryInv, Row
  PROVE  QueryInv'
  BY PageRowKeeps, FileRowKeeps, BatchRowKeeps DEF Row

LEMMA FlushKeeps ==
  ASSUME QueryInv, Flush
  PROVE  QueryInv'
<1> USE DEF QueryInv, Over, Before
<1> DEFINE e == Event("rows", batch)
<1>0. ask' = ask /\ result' = result
  BY DEF Flush
<1>h. pc = "flush" /\ IsStream /\ batch \in Seq(Nat) /\ canal.ended /\ canal.headed /\ UNCHANGED <<ask, result, ctx, answer>>
  BY DEF Flush, Phased, Typed, TypeOK
<1>b. /\ Len(batch) \in Nat /\ Len(batch) <= canal.read /\ canal.read \in Nat /\ canal.read - Len(batch) \in Nat /\ InOrder(Sent, canal.read - Len(batch))
      /\ \A k \in 1 .. Len(batch) : batch[k] = canal.read - Len(batch) + k
  BY <1>h, TypesHold DEF RowsSent
<1>e. e \in Events /\ e.type = "rows" /\ e.rows = batch
  BY <1>h, EventsAre, RowsAre DEF EventTypes
<1> HIDE DEF e
<1>1. CASE batch = <<>> /\ pc' = "summary" /\ Stays /\ UNCHANGED <<conn, out>>
  <2> USE <1>1, <1>h DEF Stays
  <2>1. Typed'
    BY <1>0, OutKept, TypesHold DEF Typed, TypeOK
  <2>2. Phased'
    BY <1>0, OutKept, AskKept, TypesHold DEF Phased
  <2>3. Bounded'
    BY <1>0, OutKept, AskKept, TypesHold DEF Bounded
  <2>4. RowsKept'
    BY <1>0, OutKept, AskKept, TypesHold DEF RowsKept, Phased
  <2>5. RowsSent'
    BY <1>0, OutKept, AskKept, TypesHold DEF RowsSent
  <2>6. Framed'
    BY <1>0, OutKept, EventsAre DEF Framed, Reached, Phased
  <2>7. Once'
    BY <1>0, OutKept, EventsAre DEF Once, Reached, Phased
  <2>8. Reached'
    BY <1>0, OutKept, AskKept, TypesHold DEF Reached, Phased
  <2>9. Observed'
    BY <1>0, OutKept, AskKept, TypesHold DEF Observed, Phased
  <2> QED
    BY <2>1, <2>2, <2>3, <2>4, <2>5, <2>6, <2>7, <2>8, <2>9
<1>2. CASE Written(e) /\ batch' = <<>> /\ bytes' = 0 /\ pc' = "summary" /\ UNCHANGED <<canal, kept, more, told, err>>
  <2>o. out # <<>> /\ At("summary") = {} /\ At("end") = {} /\ (canal.headed => At("header") # {} /\ At("compiled") # {})
    BY <1>2, <1>h DEF Written,  Phased, Reached, Framed
  <2> USE <1>2, <1>h, <1>e DEF Written
  <2>w. /\ Framed' /\ Once' /\ Len(out) \in Nat
        /\ \A type \in {"start", "status", "compiled", "header", "summary", "ping", "end"} : At(type)' = At(type)
    BY <2>o, RowsWritten
  <2>1. Typed'
    BY <1>0, <1>h, Appended, TypesHold DEF Typed, TypeOK
  <2>2. Phased'
    BY <1>0, <1>h, Appended, AskKept, TypesHold DEF Phased
  <2>3. Bounded'
    BY <1>0, <1>h, Appended, AskKept, TypesHold DEF Bounded
  <2>4. RowsKept'
    BY <1>0, <1>h, Appended, AskKept, TypesHold DEF IsStream, RowsKept, Phased
  <2>5. RowsSent'
    <3>n. canal.read - (canal.read - Len(batch)) = Len(batch)
      BY <1>b
    <3>1. InOrder(Sent', canal.read)
      <4>1. canal.read \in Nat /\ canal.read - Len(batch) <= canal.read /\ e.rows \in Seq(Nat) /\ Len(e.rows) = canal.read - (canal.read - Len(batch))
            /\ \A k \in 1 .. canal.read - (canal.read - Len(batch)) : e.rows[k] = canal.read - Len(batch) + k
        BY <1>b, <3>n
      <4>2. canal.read - Len(batch) \in Nat /\ InOrder(Sent, canal.read - Len(batch)) /\ e \in Events /\ e.type = "rows" /\ out' = Append(out, e) /\ Typed
        BY <1>b
      <4> QED
        BY <4>1, <4>2, SentOn
    <3>2. Len(batch') = 0 /\ canal'.read - Len(batch') = canal.read
      BY TypesHold
    <3> QED
      BY <3>1, <3>2, TypesHold DEF RowsSent, InOrder
  <2>6. Framed'
    BY <2>w
  <2>7. Once'
    BY <2>w
  <2>8. Reached'
    BY <1>0, <2>o, <2>w, AskKept DEF Reached
  <2>9. Observed'
    BY <1>0, <1>h, Appended, AskKept, TypesHold DEF Observed, Phased
  <2> QED
    BY <2>1, <2>2, <2>3, <2>4, <2>5, <2>6, <2>7, <2>8, <2>9
<1>3. CASE Unwritten /\ Unsent
  <2> USE <1>3, <1>h DEF Unwritten, Unsent
  <2>1. Typed'
    BY <1>0, OutKept, TypesHold DEF Typed, TypeOK
  <2>2. Phased'
    BY <1>0, OutKept, AskKept, TypesHold DEF Phased
  <2>3. Bounded'
    BY <1>0, OutKept, AskKept, TypesHold DEF Bounded
  <2>4. RowsKept'
    BY <1>0, OutKept, AskKept, TypesHold DEF RowsKept, Phased
  <2>5. RowsSent'
    BY <1>0, OutKept, AskKept, TypesHold DEF RowsSent
  <2>6. Framed'
    BY <1>0, OutKept, EventsAre DEF Framed, Reached, Phased
  <2>7. Once'
    BY <1>0, OutKept, EventsAre DEF Once, Reached, Phased
  <2>8. Reached'
    BY <1>0, OutKept, AskKept, TypesHold DEF Reached, Phased
  <2>9. Observed'
    BY <1>0, OutKept, AskKept, TypesHold DEF Observed, Phased
  <2> QED
    BY <2>1, <2>2, <2>3, <2>4, <2>5, <2>6, <2>7, <2>8, <2>9
<1> QED
  BY <1>h, <1>1, <1>2, <1>3 DEF Flush, Emits, e

LEMMA QueryInit ==
  ASSUME Init
  PROVE  QueryInv
<1> USE DEF Over, Before
<1>1. result \in Seq(RowSizes) /\ Len(result) \in Nat
  <2>1. PICK n \in 0 .. MaxResult : result \in [1 .. n -> RowSizes]
    BY DEF Init
  <2>2. n \in Nat
    BY QueryConstants
  <2> QED
    BY <2>1, <2>2, SeqDef
<1>2. Typed
  <2>1. ask \in Asks /\ out \in Seq(Events) /\ kept \in Seq(Nat) /\ batch \in Seq(Nat)
    BY DEF Init
  <2>2. canal \in [headed : BOOLEAN, ended : BOOLEAN, read : 0 .. Len(result)]
    BY <1>1 DEF Init
  <2>3. told \in [compiled : 0 .. 1, finished : 0 .. 1, ok : BOOLEAN, rows : Nat]
    BY DEF Init
  <2> QED
    BY <1>1, <2>1, <2>2, <2>3 DEF Init, Typed, TypeOK
<1>3. canal.read = 0 /\ ~canal.headed /\ ~canal.ended /\ told.compiled = 0 /\ told.finished = 0 /\ ~told.ok
  BY DEF Init
<1>4. \A type : At(type) = {}
  BY DEF Init, At
<1>5. Phased
  BY <1>3 DEF Init, Phased
<1>6. Bounded
  BY <1>2, <1>3, TypesHold, KeepIsNat DEF Init, Bounded
<1>7. RowsKept
  <2>1. First(0) = <<>> /\ AtMost(Keep, 0) = 0
    BY <1>2, KeepIsNat, FirstAppends DEF AtMost, First
  <2>2. (canal.read > Keep) = FALSE /\ kept = <<>> /\ more = FALSE /\ pc = "handle"
    BY <1>2, <1>3, KeepIsNat DEF Init
  <2> QED
    BY <1>3, <2>1, <2>2 DEF RowsKept
<1>8. RowsSent
  <2>1. Len(batch) = 0
    BY DEF Init
  <2>2. DOMAIN Sent = {}
    BY <1>4 DEF Sent
  <2> QED
    BY <1>3, <2>1, <2>2 DEF RowsSent, InOrder
<1>9. Framed /\ Once
  BY <1>4 DEF Init, Framed, Once
<1>10. Reached
  BY <1>3, <1>4 DEF Init, Reached
<1>11. Observed
  BY <1>3 DEF Init, Observed
<1> QED
  BY <1>2, <1>5, <1>6, <1>7, <1>8, <1>9, <1>10, <1>11 DEF QueryInv

LEMMA QueryStep ==
  ASSUME QueryInv, [Next]_vars
  PROVE  QueryInv'
<1>1. CASE Run
  BY <1>1, RefuseKeeps, StartKeeps, BeginKeeps, CompileFailsKeeps, CompileKeeps, AnswerFailsKeeps, ProgressKeeps, HeaderKeeps,
     RowKeeps, RowTooLargeKeeps, RowUnwrittenKeeps, TrailerKeeps, EndOfAnswerKeeps, FlushKeeps, SummaryKeeps, PingKeeps,
     StopKeeps, AnswerKeeps DEF Run
<1>2. CASE Leave \/ Stall \/ Late
  BY <1>2, LeaveKeeps, StallKeeps, LateKeeps
<1>3. CASE UNCHANGED vars
  <2> USE <1>3 DEF vars, QueryInv, Over, Before
  <2>0. ask' = ask /\ result' = result
    OBVIOUS
  <2>1. Typed'
    BY <2>0, OutKept, TypesHold DEF Typed, TypeOK
  <2>2. Phased'
    BY <2>0, OutKept, AskKept, TypesHold DEF Phased
  <2>3. Bounded'
    BY <2>0, OutKept, AskKept, TypesHold DEF Bounded
  <2>4. RowsKept'
    BY <2>0, OutKept, AskKept, TypesHold DEF RowsKept, Phased
  <2>5. RowsSent'
    BY <2>0, OutKept, AskKept, TypesHold DEF RowsSent
  <2>6. Framed'
    BY <2>0, OutKept, EventsAre DEF Framed, Reached, Phased
  <2>7. Once'
    BY <2>0, OutKept, EventsAre DEF Once, Reached, Phased
  <2>8. Reached'
    BY <2>0, OutKept, AskKept, TypesHold DEF Reached, Phased
  <2>9. Observed'
    BY <2>0, OutKept, AskKept, TypesHold DEF Observed, Phased
  <2> QED
    BY <2>1, <2>2, <2>3, <2>4, <2>5, <2>6, <2>7, <2>8, <2>9
<1> QED
  BY <1>1, <1>2, <1>3 DEF Next

LEMMA QueryInvariant == Spec => []QueryInv
<1>1. Init => QueryInv
  BY QueryInit
<1>2. QueryInv /\ [Next]_vars => QueryInv'
  BY QueryStep
<1> QED
  BY <1>1, <1>2, PTL DEF Spec

\* A stream, or a page within its limit, has read all that was asked for.
LEMMA ReadIsAsked ==
  ASSUME Typed, Bounded, canal.read = ToSend
  PROVE  /\ Asked \in Nat
         /\ ask.form = "export" => canal.read = Asked
         /\ ask.form # "export" /\ (IsStream \/ ask.size > 0 \/ WithinPage) => canal.read = Asked /\ Asked <= ask.max
         /\ ask.form = "page" /\ ask.size = 0 /\ ~WithinPage =>
              AtMost(Keep, canal.read) = AtMost(Keep, Asked) /\ (canal.read > Keep <=> Asked > Keep)
<1> DEFINE len == Len(result)
           r == canal.read
<1>1. /\ len \in Nat /\ r \in Nat /\ ask.max \in Nat /\ ask.size \in Nat /\ MaxPageSize \in Nat
      /\ ask.limit \in Nat \cup {-1} /\ (ask.size > 0 => ask.limit = -1)
      /\ ask.form \in {"page", "stream", "export"} /\ (ask.form # "export" => r <= ask.max)
  <2>1. ask.size > 0 => ask.limit = -1
    BY DEF Typed, TypeOK, Asks, NoLimit
  <2> QED
    BY <2>1, TypesHold, WithinMaximum, QueryConstants DEF NoLimit
<1>2. r = IF RowCap = -1 THEN len ELSE AtMost(RowCap, len)
  BY DEF ToSend, NoLimit
<1>3. Asked = IF ask.limit = -1 THEN len ELSE AtMost(ask.limit, len)
  BY DEF Asked, NoLimit
<1>4. RowCap = IF Capped THEN ask.max + 1 ELSE Truncate
  BY DEF RowCap
<1>5. Capped <=> ask.form # "export" /\ ~(Truncate # -1 /\ Truncate <= ask.max)
  BY DEF Capped, NoLimit
<1> HIDE DEF len, r
<1>6. Asked \in Nat
  BY <1>1, <1>3 DEF AtMost
<1>7. CASE ask.form = "export"
  <2>1. Truncate = ask.limit /\ ~Capped
    <3>1. ask.form # "page" /\ ~Capped
      BY <1>5, <1>7
    <3> QED
      BY <1>1, <3>1 DEF Truncate, NoLimit
  <2> QED
    BY <1>1, <1>2, <1>3, <1>4, <1>6, <1>7, <2>1 DEF r, IsStream
<1>8. CASE ask.form # "export" /\ (IsStream \/ ask.size > 0 \/ WithinPage)
  <2>1. Truncate = ask.limit
    BY <1>1, <1>8 DEF Truncate, IsStream, NoLimit
  <2>2. r = Asked /\ Asked <= ask.max
    BY <1>1, <1>2, <1>3, <1>4, <1>5, <1>8, <2>1 DEF AtMost
  <2> QED
    BY <1>6, <1>8, <2>2 DEF r
<1>9. CASE ask.form = "page" /\ ask.size = 0 /\ ~WithinPage
  <2>1. Truncate = MaxPageSize + 1 /\ Keep = MaxPageSize /\ (ask.limit = -1 \/ ask.limit > MaxPageSize)
    BY <1>1, <1>9 DEF Truncate, Keep, WithinPage, NoLimit
  <2>2. AtMost(MaxPageSize, r) = AtMost(MaxPageSize, Asked) /\ (r > MaxPageSize <=> Asked > MaxPageSize)
    <3>1. CASE Capped
      BY <1>1, <1>2, <1>3, <1>4, <1>5, <1>9, <2>1, <3>1 DEF AtMost
    <3>2. CASE ~Capped
      BY <1>1, <1>2, <1>3, <1>4, <2>1, <3>2 DEF AtMost
    <3> QED
      BY <3>1, <3>2
  <2> QED
    BY <1>6, <1>9, <2>1, <2>2 DEF r, IsStream
<1> QED
  BY <1>1, <1>7, <1>8, <1>9 DEF IsStream

LEMMA WholeIsAnswered ==
  ASSUME QueryInv
  PROVE  AnswersTheWhole
<1> SUFFICES ASSUME pc = "done", answer = "ok"
             PROVE  CASE ask.form = "export" -> kept = First(Asked)
                      [] IsStream -> /\ InOrder(Sent, Asked) /\ Asked <= ask.max
                                     /\ Sum = <<Asked, ask.size > 0 /\ Asked = ask.size>>
                      [] OTHER -> /\ kept = First(AtMost(Keep, Asked))
                                  /\ more = IF ask.size > 0 THEN Asked = ask.size ELSE Asked > Len(kept)
  BY DEF AnswersTheWhole
<1>0. Typed /\ Bounded /\ RowsKept /\ RowsSent /\ Reached /\ Phased
  BY DEF QueryInv
<1>1. ~err /\ canal.ended /\ canal.read = ToSend /\ (IsStream => batch = <<>>)
  BY <1>0 DEF Phased, Bounded, Over
<1>2. ask.form \in {"page", "stream", "export"} /\ canal.read \in Nat /\ ask.size \in Nat /\ Keep \in Nat /\ Asked \in Nat
  BY <1>0, <1>1, TypesHold, KeepIsNat, ReadIsAsked, QueryConstants
<1>3. CASE ask.form = "export"
  BY <1>0, <1>1, <1>3, ReadIsAsked DEF RowsKept, IsStream
<1>4. CASE IsStream
  <2>1. ask.form = "stream" /\ canal.read = Asked /\ Asked <= ask.max
    BY <1>0, <1>1, <1>4, ReadIsAsked DEF IsStream
  <2>2. InOrder(Sent, Asked)
    <3>1. Len(batch) = 0 /\ canal.read - Len(batch) = Asked
      BY <1>1, <1>2, <1>4, <2>1
    <3> QED
      BY <1>0, <1>4, <3>1 DEF RowsSent, InOrder
  <2>3. At("summary") # {}
    BY <1>0, <1>1, <1>4 DEF Reached, Over
  <2>4. PICK i \in At("summary") : Sum = out[i].rows
    BY <2>3 DEF Sum
  <2>5. Sum = <<canal.read, ask.size > 0 /\ canal.read = ask.size>>
    BY <1>0, <2>4 DEF Reached
  <2> QED
    BY <1>4, <2>1, <2>2, <2>5
<1>5. CASE ask.form = "page"
  <2>1. kept = First(AtMost(Keep, canal.read)) /\ more = IF ask.size > 0 THEN Len(kept) = ask.size ELSE canal.read > Keep
    BY <1>0, <1>1, <1>5 DEF RowsKept
  <2>2. Len(kept) = AtMost(Keep, canal.read) /\ Len(kept) \in Nat
    BY <1>2, <2>1, FirstAppends DEF AtMost
  <2>3. CASE ask.size > 0
    <3>1. canal.read = Asked /\ Keep = ask.size /\ Asked <= ask.size
      BY <1>0, <1>1, <1>2, <1>5, <2>3, ReadIsAsked, KeepIsNat, TypesHold DEF Keep, Bounded
    <3> QED
      BY <1>2, <1>5, <2>1, <2>2, <2>3, <3>1 DEF AtMost, IsStream
  <2>4. CASE ~(ask.size > 0) /\ WithinPage
    <3>1. canal.read = Asked /\ Keep = ask.limit /\ Asked <= Keep
      BY <1>0, <1>1, <1>2, <1>5, <2>4, ReadIsAsked, TypesHold DEF Keep, Asked, AtMost, WithinPage
    <3> QED
      BY <1>2, <1>5, <2>1, <2>2, <2>4, <3>1 DEF AtMost, IsStream
  <2>5. CASE ~(ask.size > 0) /\ ~WithinPage
    <3>1. ask.size = 0
      BY <1>2, <2>5
    <3>2. AtMost(Keep, canal.read) = AtMost(Keep, Asked) /\ (canal.read > Keep <=> Asked > Keep)
      BY <1>0, <1>1, <1>5, <2>5, <3>1, ReadIsAsked
    <3> QED
      BY <1>2, <1>5, <2>1, <2>2, <2>5, <3>2 DEF AtMost, IsStream
  <2> QED
    BY <2>3, <2>4, <2>5
<1> QED
  BY <1>2, <1>3, <1>4, <1>5 DEF IsStream

LEMMA FramedIsStreamed ==
  ASSUME QueryInv
  PROVE  StreamIsFramed
<1>0. Typed /\ Phased /\ Framed /\ Once /\ Reached
  BY DEF QueryInv
<1>1. \A i \in DOMAIN out : Types[i] = "start" <=> i \in At("start")
  BY DEF Types, At
<1>2. \A i \in DOMAIN out : (Types[i] = "start") <=> (i = 1)
  BY <1>0, <1>1 DEF Framed
<1>3. At("rows") # {} => At("header") # {} /\ At("compiled") # {}
  <2>1. ~IsStream => At("rows") = {}
    BY <1>0 DEF Phased, At
  <2> QED
    BY <1>0, <2>1 DEF Reached
<1>4. \A type \in {"start", "compiled", "header", "summary", "end"} : \A i, j \in At(type) : i = j
  BY <1>0 DEF Once, Framed
<1> QED
  BY <1>0, <1>2, <1>3, <1>4 DEF StreamIsFramed, Framed

\* For any result, limits and maximum, whatever canal-query answers and the
\* client does: an answer that succeeded (AnswersTheWhole) is all the rows asked
\* for, and a stream's events (StreamIsFramed) come in run.go's order.
THEOREM QueryIsAnsweredInFull == Spec => []AnsweredInFull
<1>1. QueryInv => AnsweredInFull
  BY WholeIsAnswered, FramedIsStreamed DEF AnsweredInFull
<1> QED
  BY <1>1, QueryInvariant, PTL

\* The observer (observers.go) is told of each query's end once, and of success
\* as its caller is, but for a stream whose end could not be sent.
THEOREM ObserverIsToldAsAnswered == Spec => []ToldAsAnswered
<1>1. QueryInv => ToldAsAnswered
  <2> SUFFICES ASSUME QueryInv PROVE ToldAsAnswered
    OBVIOUS
  <2>1. Typed /\ Observed /\ Phased
    BY DEF QueryInv
  <2> QED
    BY <2>1, TypesHold DEF Observed, Phased, ToldAsAnswered, Over
<1> QED
  BY <1>1, QueryInvariant, PTL

\* The state of a query's run (run.go, stream.go) keeps its type.
THEOREM QueryIsTyped == Spec => []TypeOK
<1>1. QueryInv => TypeOK
  BY DEF QueryInv, Typed
<1> QED
  BY <1>1, QueryInvariant, PTL

-----------------------------------------------------------------------------
(* The sidecars. *)

Steps == {"stat", "open", "write", "rename", "list", "prune", "socket", "exec"}

\* What was started is behind its socket's directory, and at or before the
\* sidecar the run is at; one being extracted is not at a URL.
Behind(r) ==
  /\ \A n \in Names \ Remote : proc[r][n] # "none" => \E i \in 1 .. at[r] : Need[i] = n
  /\ \A n \in sock[r] : n \notin Remote /\ \E i \in 1 .. at[r] : Need[i] = n
  /\ phase[r] \notin Ends => \A n \in Names : Alive(r, n) => n \in sock[r]
  /\ phase[r] \in Steps => Name(r) \notin Remote
  /\ phase[r] = "exec" => Name(r) \in sock[r]

\* A file is open to a run that is writing.
Opened(r) == fd[r] # Closed => phase[r] = "write"

\* A run no other extracts beside has its files to itself.
Apart(r) ==
  r \in alone /\ phase[r] \in Steps =>
    /\ Extracting = {r}
    /\ phase[r] = "write" => fd[r] = Tmp(r)
    /\ phase[r] = "rename" => dir[Tmp(r)] = Whole
    /\ phase[r] \in {"list", "prune", "socket", "exec"} => dir[Path(r)] = Whole
    /\ phase[r] = "prune" => Path(r) \notin listed[r]

SidecarsInv == SidecarsTypeOK /\ LeavesNothing /\ \A r \in Runs : Behind(r) /\ Opened(r) /\ Apart(r)

LEMMA FilesHaveNames ==
  /\ Closed \notin Files /\ Unlinked \notin Files /\ Closed # Unlinked
  /\ \A r \in Runs : Path(r) # Closed /\ Path(r) # Unlinked /\ Tmp(r) # Closed /\ Tmp(r) # Unlinked /\ Path(r) # Tmp(r)
  BY DEF Closed, Unlinked, Files, Path, Tmp

LEMMA NamesAreNeeded ==
  ASSUME SidecarsTypeOK, NEW r \in Runs
  PROVE  /\ at[r] \in 1 .. Len(Need) /\ Name(r) \in Names /\ version[r] \in Versions
         /\ Name(r) \notin Remote => Path(r) \in Files /\ Tmp(r) \in Files
  BY SidecarsConstants DEF SidecarsTypeOK, Name, Names, Path, Tmp, Files

-----------------------------------------------------------------------------

\* A run whose own state a step leaves alone keeps what it had.
LEMMA OthersBehind ==
  ASSUME SidecarsInv, NEW q \in Runs,
         phase'[q] = phase[q], at'[q] = at[q], proc'[q] = proc[q], sock'[q] = sock[q]
  PROVE  Behind(q)'
  BY DEF SidecarsInv, Behind, Name, Alive, Ends, Steps

\* A run alone and extracting after another's step, or its own, was so before.
LEMMA AloneBefore ==
  ASSUME SidecarsInv, NEW r \in Runs, NEW s, phase' = [phase EXCEPT ![r] = s], alone' = alone,
         s \in Steps => phase[r] \in Steps,
         NEW q \in Runs, q \in alone', phase'[q] \in Steps
  PROVE  /\ q \in alone /\ phase[q] \in Steps /\ Extracting = {q} /\ Extracting' = {q}
         /\ phase[r] \in Steps => q = r
<1>1. phase \in [Runs -> Ends \cup Steps \cup {"wait", "running", "close"}]
  BY DEF SidecarsInv, SidecarsTypeOK, Ends, Steps
<1>2. q \in alone /\ phase[q] \in Steps
  BY <1>1
<1>3. Extracting = {q}
  BY <1>2 DEF SidecarsInv, Apart
<1>4. Extracting = {p \in Runs : phase[p] \in Steps} /\ Extracting' = {p \in Runs : phase'[p] \in Steps}
  BY DEF Extracting, Steps
<1>5. Extracting' = {q}
  BY <1>1, <1>2, <1>3, <1>4
<1> QED
  BY <1>2, <1>3, <1>4, <1>5

-----------------------------------------------------------------------------

LEMMA StatKeeps ==
  ASSUME SidecarsInv, NEW r \in Runs, Stat(r)
  PROVE  SidecarsInv'
<1> USE DEF SidecarsInv, Stat, Absent, Go, FilesKept, RunKept, Missing, Empty, Part, Whole
<1>0. Name(r) \notin Remote /\ Path(r) \in Files /\ Tmp(r) \in Files
  BY NamesAreNeeded DEF Behind, Steps
<1>1. SidecarsTypeOK'
  BY DEF SidecarsTypeOK, Ends
<1>2. ASSUME NEW q \in Runs PROVE Behind(q)'
  BY OthersBehind, <1>0 DEF Behind, SidecarsTypeOK, Name, Alive, Ends, Steps
<1>3. ASSUME NEW q \in Runs PROVE Opened(q)'
  BY DEF Opened, SidecarsTypeOK
<1>4. ASSUME NEW q \in Runs, q \in alone', phase'[q] \in Steps PROVE Apart(q)'
  <2>1. q \in alone /\ phase[q] \in Steps /\ Extracting' = {q} /\ q = r
    BY <1>4, AloneBefore DEF Steps
  <2> QED
    BY <2>1, <1>0 DEF Apart, SidecarsTypeOK, Steps, Name, Path, Tmp
<1>5. LeavesNothing'
  BY DEF LeavesNothing, SidecarsTypeOK, Alive
<1> QED
  BY <1>1, <1>2, <1>3, <1>4, <1>5 DEF Apart

LEMMA OpenKeeps ==
  ASSUME SidecarsInv, NEW r \in Runs, Open(r)
  PROVE  SidecarsInv'
<1> USE DEF SidecarsInv, Open, Go, FilesKept, RunKept, Missing, Empty, Part, Whole
<1>0. Name(r) \notin Remote /\ Path(r) \in Files /\ Tmp(r) \in Files
  BY NamesAreNeeded DEF Behind, Steps
<1>1. SidecarsTypeOK'
  BY <1>0 DEF SidecarsTypeOK, Ends
<1>2. ASSUME NEW q \in Runs PROVE Behind(q)'
  BY OthersBehind, <1>0 DEF Behind, SidecarsTypeOK, Name, Alive, Ends, Steps
<1>3. ASSUME NEW q \in Runs PROVE Opened(q)'
  BY DEF Opened, SidecarsTypeOK
<1>4. ASSUME NEW q \in Runs, q \in alone', phase'[q] \in Steps PROVE Apart(q)'
  <2>1. q \in alone /\ phase[q] \in Steps /\ Extracting' = {q} /\ q = r
    BY <1>4, AloneBefore DEF Steps
  <2> QED
    BY <2>1, <1>0 DEF Apart, SidecarsTypeOK, Steps, Name, Path, Tmp
<1>5. LeavesNothing'
  BY DEF LeavesNothing, SidecarsTypeOK, Alive
<1> QED
  BY <1>1, <1>2, <1>3, <1>4, <1>5 DEF Apart
LEMMA WriteKeeps ==
  ASSUME SidecarsInv, NEW r \in Runs, Write(r)
  PROVE  SidecarsInv'
<1> USE DEF SidecarsInv, Write, Put, Go, FilesKept, RunKept, Missing, Empty, Part, Whole
<1>0. Name(r) \notin Remote /\ Path(r) \in Files /\ Tmp(r) \in Files
  BY NamesAreNeeded DEF Behind, Steps
<1>1. SidecarsTypeOK'
  BY <1>0 DEF SidecarsTypeOK, Ends
<1>2. ASSUME NEW q \in Runs PROVE Behind(q)'
  BY OthersBehind, <1>0 DEF Behind, SidecarsTypeOK, Name, Alive, Ends, Steps
<1>3. ASSUME NEW q \in Runs PROVE Opened(q)'
  BY DEF Opened, SidecarsTypeOK
<1>4. ASSUME NEW q \in Runs, q \in alone', phase'[q] \in Steps PROVE Apart(q)'
  <2>1. q \in alone /\ phase[q] \in Steps /\ Extracting' = {q} /\ q = r
    BY <1>4, AloneBefore DEF Steps
  <2> QED
    BY <2>1, <1>0 DEF Apart, SidecarsTypeOK, Steps, Name, Path, Tmp
<1>5. LeavesNothing'
  BY DEF LeavesNothing, SidecarsTypeOK, Alive
<1> QED
  BY <1>1, <1>2, <1>3, <1>4, <1>5 DEF Apart
LEMMA WriteFailsKeeps ==
  ASSUME SidecarsInv, NEW r \in Runs, WriteFails(r)
  PROVE  SidecarsInv'
<1> USE DEF SidecarsInv, WriteFails, Put, Fail, Go, FilesKept, RunKept, Missing, Empty, Part, Whole
<1>0. Name(r) \notin Remote /\ Path(r) \in Files /\ Tmp(r) \in Files
  BY NamesAreNeeded DEF Behind, Steps
<1>1. SidecarsTypeOK'
  BY <1>0 DEF SidecarsTypeOK, Ends
<1>2. ASSUME NEW q \in Runs PROVE Behind(q)'
  BY OthersBehind, <1>0 DEF Behind, SidecarsTypeOK, Name, Alive, Ends, Steps
<1>3. ASSUME NEW q \in Runs PROVE Opened(q)'
  BY DEF Opened, SidecarsTypeOK
<1>4. ASSUME NEW q \in Runs, q \in alone', phase'[q] \in Steps PROVE Apart(q)'
  <2>1. q \in alone /\ phase[q] \in Steps /\ Extracting' = {q} /\ q = r
    BY <1>4, AloneBefore DEF Steps
  <2> QED
    BY <2>1, <1>0 DEF Apart, SidecarsTypeOK, Steps, Name, Path, Tmp
<1>5. LeavesNothing'
  BY DEF LeavesNothing, SidecarsTypeOK, Alive
<1> QED
  BY <1>1, <1>2, <1>3, <1>4, <1>5 DEF Apart
LEMMA RenameKeeps ==
  ASSUME SidecarsInv, NEW r \in Runs, Rename(r)
  PROVE  SidecarsInv'
<1> USE DEF SidecarsInv, Rename, Go, FilesKept, RunKept, Missing, Empty, Part, Whole
<1>0. Name(r) \notin Remote /\ Path(r) \in Files /\ Tmp(r) \in Files
  BY NamesAreNeeded DEF Behind, Steps
<1>1. SidecarsTypeOK'
  BY <1>0 DEF SidecarsTypeOK, Ends
<1>2. ASSUME NEW q \in Runs PROVE Behind(q)'
  BY OthersBehind, <1>0 DEF Behind, SidecarsTypeOK, Name, Alive, Ends, Steps
<1>3. ASSUME NEW q \in Runs PROVE Opened(q)'
  BY FilesHaveNames DEF Opened, SidecarsTypeOK
<1>4. ASSUME NEW q \in Runs, q \in alone', phase'[q] \in Steps PROVE Apart(q)'
  <2>1. q \in alone /\ phase[q] \in Steps /\ Extracting' = {q} /\ q = r
    BY <1>4, AloneBefore DEF Steps
  <2> QED
    BY <2>1, <1>0 DEF Apart, SidecarsTypeOK, Steps, Name, Path, Tmp
<1>5. LeavesNothing'
  BY DEF LeavesNothing, SidecarsTypeOK, Alive
<1> QED
  BY <1>1, <1>2, <1>3, <1>4, <1>5 DEF Apart
LEMMA RenameFailsKeeps ==
  ASSUME SidecarsInv, NEW r \in Runs, RenameFails(r)
  PROVE  SidecarsInv'
<1> USE DEF SidecarsInv, RenameFails, Fail, Go, FilesKept, RunKept, Missing, Empty, Part, Whole
<1>0. Name(r) \notin Remote /\ Path(r) \in Files /\ Tmp(r) \in Files
  BY NamesAreNeeded DEF Behind, Steps
<1>1. SidecarsTypeOK'
  BY <1>0 DEF SidecarsTypeOK, Ends
<1>2. ASSUME NEW q \in Runs PROVE Behind(q)'
  BY OthersBehind, <1>0 DEF Behind, SidecarsTypeOK, Name, Alive, Ends, Steps
<1>3. ASSUME NEW q \in Runs PROVE Opened(q)'
  BY DEF Opened, SidecarsTypeOK
<1>4. ASSUME NEW q \in Runs, q \in alone', phase'[q] \in Steps PROVE Apart(q)'
  <2>1. q \in alone /\ phase[q] \in Steps /\ Extracting' = {q} /\ q = r
    BY <1>4, AloneBefore DEF Steps
  <2> QED
    BY <2>1, <1>0 DEF Apart, SidecarsTypeOK, Steps, Name, Path, Tmp
<1>5. LeavesNothing'
  BY DEF LeavesNothing, SidecarsTypeOK, Alive
<1> QED
  BY <1>1, <1>2, <1>3, <1>4, <1>5 DEF Apart
LEMMA ListKeeps ==
  ASSUME SidecarsInv, NEW r \in Runs, List(r)
  PROVE  SidecarsInv'
<1> USE DEF SidecarsInv, List, Go, FilesKept, RunKept, Missing, Empty, Part, Whole
<1>0. Name(r) \notin Remote /\ Path(r) \in Files /\ Tmp(r) \in Files
  BY NamesAreNeeded DEF Behind, Steps
<1>1. SidecarsTypeOK'
  BY <1>0 DEF SidecarsTypeOK, Ends
<1>2. ASSUME NEW q \in Runs PROVE Behind(q)'
  BY OthersBehind, <1>0 DEF Behind, SidecarsTypeOK, Name, Alive, Ends, Steps
<1>3. ASSUME NEW q \in Runs PROVE Opened(q)'
  BY DEF Opened, SidecarsTypeOK
<1>4. ASSUME NEW q \in Runs, q \in alone', phase'[q] \in Steps PROVE Apart(q)'
  <2>1. q \in alone /\ phase[q] \in Steps /\ Extracting' = {q} /\ q = r
    BY <1>4, AloneBefore DEF Steps
  <2> QED
    BY <2>1, <1>0 DEF Apart, SidecarsTypeOK, Steps, Name, Path, Tmp
<1>5. LeavesNothing'
  BY DEF LeavesNothing, SidecarsTypeOK, Alive
<1> QED
  BY <1>1, <1>2, <1>3, <1>4, <1>5 DEF Apart
LEMMA PruneKeeps ==
  ASSUME SidecarsInv, NEW r \in Runs, Prune(r)
  PROVE  SidecarsInv'
<1> USE DEF SidecarsInv, Prune, Go, FilesKept, RunKept, Missing, Empty, Part, Whole
<1>0. Name(r) \notin Remote /\ Path(r) \in Files /\ Tmp(r) \in Files
  BY NamesAreNeeded DEF Behind, Steps
<1>1. SidecarsTypeOK'
  BY <1>0 DEF SidecarsTypeOK, Ends
<1>2. ASSUME NEW q \in Runs PROVE Behind(q)'
  BY OthersBehind, <1>0 DEF Behind, SidecarsTypeOK, Name, Alive, Ends, Steps
<1>3. ASSUME NEW q \in Runs PROVE Opened(q)'
  BY FilesHaveNames DEF Opened, SidecarsTypeOK
<1>4. ASSUME NEW q \in Runs, q \in alone', phase'[q] \in Steps PROVE Apart(q)'
  <2>1. q \in alone /\ phase[q] \in Steps /\ Extracting' = {q} /\ q = r
    BY <1>4, AloneBefore DEF Steps
  <2> QED
    BY <2>1, <1>0 DEF Apart, SidecarsTypeOK, Steps, Name, Path, Tmp
<1>5. LeavesNothing'
  BY DEF LeavesNothing, SidecarsTypeOK, Alive
<1> QED
  BY <1>1, <1>2, <1>3, <1>4, <1>5 DEF Apart
LEMMA SocketKeeps ==
  ASSUME SidecarsInv, NEW r \in Runs, Socket(r)
  PROVE  SidecarsInv'
<1> USE DEF SidecarsInv, Socket, Go, FilesKept, RunKept, Missing, Empty, Part, Whole
<1>0. Name(r) \notin Remote /\ Path(r) \in Files /\ Tmp(r) \in Files /\ Name(r) \in Names /\ at[r] \in 1 .. at[r]
  BY NamesAreNeeded, SidecarsConstants DEF Behind, Steps
<1>1. SidecarsTypeOK'
  BY <1>0 DEF SidecarsTypeOK, Ends
<1>2. ASSUME NEW q \in Runs PROVE Behind(q)'
  <2>1. CASE q # r
    BY <2>1, OthersBehind DEF SidecarsTypeOK
  <2>2. CASE q = r
    BY <2>2, <1>0, SMTT(30) DEF Behind, SidecarsTypeOK, Name, Alive, Ends, Steps
  <2> QED
    BY <2>1, <2>2
<1>3. ASSUME NEW q \in Runs PROVE Opened(q)'
  BY DEF Opened, SidecarsTypeOK
<1>4. ASSUME NEW q \in Runs, q \in alone', phase'[q] \in Steps PROVE Apart(q)'
  <2>1. q \in alone /\ phase[q] \in Steps /\ Extracting' = {q} /\ q = r
    BY <1>4, AloneBefore DEF Steps
  <2> QED
    BY <2>1, <1>0 DEF Apart, SidecarsTypeOK, Steps, Name, Path, Tmp
<1>5. LeavesNothing'
  BY DEF LeavesNothing, SidecarsTypeOK, Alive
<1> QED
  BY <1>1, <1>2, <1>3, <1>4, <1>5 DEF Apart
LEMMA ExecKeeps ==
  ASSUME SidecarsInv, NEW r \in Runs, Exec(r)
  PROVE  SidecarsInv'
<1> USE DEF SidecarsInv, Exec, Executable, Go, FilesKept, RunKept, Missing, Empty, Part, Whole
<1>0. Name(r) \notin Remote /\ Path(r) \in Files /\ Tmp(r) \in Files
  BY NamesAreNeeded DEF Behind, Steps
<1>1. SidecarsTypeOK'
  BY <1>0 DEF SidecarsTypeOK, Ends
<1>2. ASSUME NEW q \in Runs PROVE Behind(q)'
  BY OthersBehind, <1>0 DEF Behind, SidecarsTypeOK, Name, Alive, Ends, Steps
<1>3. ASSUME NEW q \in Runs PROVE Opened(q)'
  BY DEF Opened, SidecarsTypeOK
<1>4. ASSUME NEW q \in Runs, q \in alone', phase'[q] \in Steps PROVE Apart(q)'
  <2>1. q \in alone /\ phase[q] \in Steps /\ Extracting' = {q} /\ q = r
    BY <1>4, AloneBefore DEF Steps
  <2> QED
    BY <2>1, <1>0 DEF Apart, SidecarsTypeOK, Steps, Name, Path, Tmp
<1>5. LeavesNothing'
  BY DEF LeavesNothing, SidecarsTypeOK, Alive
<1> QED
  BY <1>1, <1>2, <1>3, <1>4, <1>5 DEF Apart
LEMMA ExecFailsKeeps ==
  ASSUME SidecarsInv, NEW r \in Runs, ExecFails(r)
  PROVE  SidecarsInv'
<1> USE DEF SidecarsInv, ExecFails, Executable, Fail, Go, FilesKept, RunKept, Missing, Empty, Part, Whole
<1>0. Name(r) \notin Remote /\ Path(r) \in Files /\ Tmp(r) \in Files
  BY NamesAreNeeded DEF Behind, Steps
<1>1. SidecarsTypeOK'
  BY <1>0 DEF SidecarsTypeOK, Ends
<1>2. ASSUME NEW q \in Runs PROVE Behind(q)'
  BY OthersBehind, <1>0 DEF Behind, SidecarsTypeOK, Name, Alive, Ends, Steps
<1>3. ASSUME NEW q \in Runs PROVE Opened(q)'
  BY DEF Opened, SidecarsTypeOK
<1>4. ASSUME NEW q \in Runs, q \in alone', phase'[q] \in Steps PROVE Apart(q)'
  <2>1. q \in alone /\ phase[q] \in Steps /\ Extracting' = {q} /\ q = r
    BY <1>4, AloneBefore DEF Steps
  <2> QED
    BY <2>1, <1>0 DEF Apart, SidecarsTypeOK, Steps, Name, Path, Tmp
<1>5. LeavesNothing'
  BY DEF LeavesNothing, SidecarsTypeOK, Alive
<1> QED
  BY <1>1, <1>2, <1>3, <1>4, <1>5 DEF Apart
-----------------------------------------------------------------------------

LEMMA EnterKeepsTypes ==
  ASSUME SidecarsTypeOK, NEW r \in Runs, NEW i, Enter(r, i)
  PROVE  /\ phase' \in [Runs -> Ends \cup Steps \cup {"wait", "running", "close"}]
         /\ proc' \in [Runs -> [Names -> {"none", "starting", "healthy", "hung", "dead"}]]
         /\ alone' \subseteq Runs
<1> DEFINE States == {"none", "starting", "healthy", "hung", "dead"}
           own == [n \in Names |-> IF n = Need[i] THEN "starting" ELSE IF i = 1 THEN "none" ELSE proc[r][n]]
           file == [n \in Names |-> IF i = 1 THEN "none" ELSE proc[r][n]]
<1>0. proc \in [Runs -> [Names -> States]]
  BY DEF SidecarsTypeOK
<1>1. own \in [Names -> States] /\ file \in [Names -> States]
  BY <1>0
<1>2. proc' = [proc EXCEPT ![r] = own] \/ proc' = [proc EXCEPT ![r] = file]
  BY DEF Enter
<1> HIDE DEF own, file, States
<1>3. proc' \in [Runs -> [Names -> States]]
  BY <1>0, <1>1, <1>2
<1>4. phase \in [Runs -> Ends \cup Steps \cup {"wait", "running", "close"}] /\ alone \subseteq Runs
  BY DEF SidecarsTypeOK, Ends, Steps
<1>5. phase' = [phase EXCEPT ![r] = "wait"] \/ phase' = [phase EXCEPT ![r] = "stat"]
  BY DEF Enter, Go
<1>6. alone' \subseteq Runs
  BY <1>4 DEF Enter
<1> QED
  BY <1>3, <1>4, <1>5, <1>6 DEF Ends, Steps, States

\* Of those extracting once a run starts on a binary, only one may be alone.
LEMMA AloneEntered ==
  ASSUME SidecarsInv, NEW r \in Runs, NEW i, phase[r] \notin Steps, Enter(r, i),
         NEW q \in Runs, q \in alone', phase'[q] \in Steps
  PROVE  /\ Extracting' = {q}
         /\ q = r => phase'[q] = "stat"
         /\ q # r => q \in alone /\ phase'[q] = phase[q]
<1>1. phase \in [Runs -> Ends \cup Steps \cup {"wait", "running", "close"}]
  BY DEF SidecarsInv, SidecarsTypeOK, Ends, Steps
<1>2. Extracting = {p \in Runs : phase[p] \in Steps} /\ Extracting' = {p \in Runs : phase'[p] \in Steps}
  BY DEF Extracting, Steps
<1>3. CASE Need[i] \in Remote
  <2>1. q # r /\ q \in alone /\ phase'[q] = phase[q] /\ Extracting' = Extracting
    BY <1>1, <1>2, <1>3 DEF Enter, Go, Steps
  <2> QED
    BY <2>1 DEF SidecarsInv, Apart
<1>4. CASE Need[i] \notin Remote
  <2>1. phase' = [phase EXCEPT ![r] = "stat"] /\ Extracting' = Extracting \cup {r}
    BY <1>1, <1>2, <1>4 DEF Enter, Go, Steps
  <2>2. q \in Extracting'
    BY <1>2
  <2>3. Extracting \ {r} = {}
    <3>1. SUFFICES ASSUME Extracting \ {r} # {} PROVE FALSE
      OBVIOUS
    <3>2. q \in alone /\ q \notin Extracting /\ q # r
      BY <1>4, <3>1 DEF Enter
    <3> QED
      BY <2>1, <2>2, <3>2
  <2> QED
    BY <1>1, <2>1, <2>2, <2>3
<1> QED
  BY <1>3, <1>4

LEMMA ReadyKeeps ==
  ASSUME SidecarsInv, NEW r \in Runs, Ready(r)
  PROVE  SidecarsInv'
<1> USE DEF SidecarsInv, Ready, FilesKept, RunKept
<1>0. Name(r) \in Names /\ at[r] \in 1 .. Len(Need) /\ Len(Need) \in Nat
  BY NamesAreNeeded, SidecarsConstants
<1>1. CASE at[r] < Len(Need)
  <2> DEFINE i == at[r] + 1
  <2>0. /\ at' = [at EXCEPT ![r] = i] /\ i \in 1 .. Len(Need) /\ i # 1 /\ i - 1 = at[r] /\ i > at[r]
        /\ Need[i] \in Names /\ Need[i] = Name(r)' /\ Enter(r, i)
    BY <1>0, <1>1 DEF SidecarsTypeOK, Names, Name
  <2> HIDE DEF i
  <2>1. /\ \A q \in Runs : q # r => phase'[q] = phase[q] /\ at'[q] = at[q] /\ proc'[q] = proc[q]
        /\ phase'[r] \in {"wait", "stat"}
        /\ phase'[r] = "stat" => Need[i] \notin Remote
        /\ \A n \in Names : proc'[r][n] = proc[r][n] \/ (n = Need[i] /\ n \in Remote /\ proc'[r][n] = "starting")
    BY <2>0 DEF Enter, Go, SidecarsTypeOK
  <2>2. SidecarsTypeOK'
    BY <1>0, <2>0, EnterKeepsTypes DEF SidecarsTypeOK, Steps
  <2>3. ASSUME NEW q \in Runs PROVE Behind(q)'
    <3>1. CASE q # r
      BY <3>1, <2>1, OthersBehind DEF SidecarsTypeOK
    <3>2. CASE q = r
      <4>1. \A n \in Names \ Remote : proc'[r][n] = proc[r][n]
        BY <2>1
      <4>2. \A j \in 1 .. at[r] : j \in 1 .. at'[r]
        BY <2>0, <1>0 DEF SidecarsTypeOK
      <4>3. /\ \A n \in Names \ Remote : proc'[r][n] # "none" => \E j \in 1 .. at'[r] : Need[j] = n
            /\ \A n \in sock'[r] : n \notin Remote /\ \E j \in 1 .. at'[r] : Need[j] = n
        BY <4>1, <4>2 DEF Behind
      <4>4. \A n \in Names : Alive(r, n)' => n \in sock'[r]
        BY <2>1, <4>1 DEF Behind, Alive, Ends
      <4> QED
        BY <3>2, <2>0, <2>1, <4>3, <4>4 DEF Behind, Steps
    <3> QED
      BY <3>1, <3>2
  <2>4. ASSUME NEW q \in Runs PROVE Opened(q)'
    BY <2>1 DEF Opened
  <2>5. ASSUME NEW q \in Runs, q \in alone', phase'[q] \in Steps PROVE Apart(q)'
    BY <2>0, <2>1, <2>5, AloneEntered, ZenonT(60) DEF Apart, Name, Path, Tmp, Steps
  <2>6. LeavesNothing'
    BY <2>1 DEF LeavesNothing, Alive
  <2> QED
    BY <2>2, <2>3, <2>4, <2>5, <2>6 DEF Apart
<1>2. CASE ~ at[r] < Len(Need)
  <2> USE <1>2 DEF Go
  <2>1. SidecarsTypeOK'
    BY DEF SidecarsTypeOK, Ends
  <2>2. ASSUME NEW q \in Runs PROVE Behind(q)'
    <3>1. CASE q = r
      <4>1. UNCHANGED <<at, proc, sock>> /\ phase'[r] = "running" /\ phase[r] = "wait" /\ Behind(r)
        BY DEF SidecarsTypeOK
      <4> QED
        BY <3>1, <4>1 DEF Behind, Name, Alive, Ends, Steps
    <3>2. CASE q # r
      BY <3>2, OthersBehind DEF SidecarsTypeOK
    <3> QED
      BY <3>1, <3>2
  <2>3. ASSUME NEW q \in Runs PROVE Opened(q)'
    BY DEF Opened, SidecarsTypeOK
  <2>4. ASSUME NEW q \in Runs, q \in alone', phase'[q] \in Steps PROVE Apart(q)'
    <3>1. q \in alone /\ phase[q] \in Steps /\ Extracting' = {q} /\ q # r
      BY <2>4, AloneBefore DEF Steps, Ends, SidecarsTypeOK
    <3> QED
      BY <3>1 DEF Apart, SidecarsTypeOK, Steps, Name, Path, Tmp
  <2>5. LeavesNothing'
    BY DEF LeavesNothing, SidecarsTypeOK, Alive
  <2> QED
    BY <2>1, <2>2, <2>3, <2>4, <2>5 DEF Apart
<1> QED
  BY <1>1, <1>2

LEMMA GivesUpKeeps ==
  ASSUME SidecarsInv, NEW r \in Runs, GivesUp(r)
  PROVE  SidecarsInv'
<1> USE DEF SidecarsInv, GivesUp, Go, FilesKept, RunKept, Missing, Empty, Part, Whole
<1>0. Name(r) \in Names /\ at[r] \in 1 .. Len(Need) /\ Len(Need) \in Nat
  BY NamesAreNeeded, SidecarsConstants
<1>1. SidecarsTypeOK'
  BY <1>0, FilesHaveNames DEF SidecarsTypeOK, Ends
<1>2. ASSUME NEW q \in Runs PROVE Behind(q)'
  <2>1. CASE q # r
    BY <2>1, OthersBehind DEF SidecarsTypeOK
  <2>2. CASE q = r
    BY <2>2, <1>0 DEF Behind, SidecarsTypeOK, Name, Names, Alive, Ends, Steps
  <2> QED
    BY <2>1, <2>2
<1>3. ASSUME NEW q \in Runs PROVE Opened(q)'
  BY DEF Opened, SidecarsTypeOK
<1>4. ASSUME NEW q \in Runs, q \in alone', phase'[q] \in Steps PROVE Apart(q)'
  <2>1. q \in alone /\ phase[q] \in Steps /\ Extracting' = {q} /\ q # r
    BY <1>4, AloneBefore DEF Steps, Ends, SidecarsTypeOK
  <2> QED
    BY <2>1, <1>0 DEF Apart, SidecarsTypeOK, Steps, Name, Path, Tmp
<1>5. LeavesNothing'
  BY DEF LeavesNothing, SidecarsTypeOK, Behind, Alive, Ends
<1> QED
  BY <1>1, <1>2, <1>3, <1>4, <1>5 DEF Apart

LEMMA DoneKeeps ==
  ASSUME SidecarsInv, NEW r \in Runs, Done(r)
  PROVE  SidecarsInv'
<1> USE DEF SidecarsInv, Done, Go, FilesKept, RunKept, Missing, Empty, Part, Whole
<1>0. Name(r) \in Names /\ at[r] \in 1 .. Len(Need) /\ Len(Need) \in Nat
  BY NamesAreNeeded, SidecarsConstants
<1>1. SidecarsTypeOK'
  BY <1>0, FilesHaveNames DEF SidecarsTypeOK, Ends
<1>2. ASSUME NEW q \in Runs PROVE Behind(q)'
  <2>1. CASE q # r
    BY <2>1, OthersBehind DEF SidecarsTypeOK
  <2>2. CASE q = r
    BY <2>2, <1>0 DEF Behind, SidecarsTypeOK, Name, Names, Alive, Ends, Steps
  <2> QED
    BY <2>1, <2>2
<1>3. ASSUME NEW q \in Runs PROVE Opened(q)'
  BY DEF Opened, SidecarsTypeOK
<1>4. ASSUME NEW q \in Runs, q \in alone', phase'[q] \in Steps PROVE Apart(q)'
  <2>1. q \in alone /\ phase[q] \in Steps /\ Extracting' = {q} /\ q # r
    BY <1>4, AloneBefore DEF Steps, Ends, SidecarsTypeOK
  <2> QED
    BY <2>1, <1>0 DEF Apart, SidecarsTypeOK, Steps, Name, Path, Tmp
<1>5. LeavesNothing'
  BY DEF LeavesNothing, SidecarsTypeOK, Behind, Alive, Ends
<1> QED
  BY <1>1, <1>2, <1>3, <1>4, <1>5 DEF Apart

LEMMA CloseKeeps ==
  ASSUME SidecarsInv, NEW r \in Runs, Close(r)
  PROVE  SidecarsInv'
<1> USE DEF SidecarsInv, Close, Closing, Go, FilesKept, RunKept, Missing, Empty, Part, Whole
<1>0. Name(r) \in Names /\ at[r] \in 1 .. Len(Need) /\ Len(Need) \in Nat
  BY NamesAreNeeded, SidecarsConstants
<1>1. SidecarsTypeOK'
  BY <1>0, FilesHaveNames DEF SidecarsTypeOK, Ends
<1>2. ASSUME NEW q \in Runs PROVE Behind(q)'
  <2>1. CASE q # r
    BY <2>1, OthersBehind DEF SidecarsTypeOK
  <2>2. CASE q = r
    <3>1. PICK i \in Closing(r) : /\ Need[i] \in sock[r] /\ proc' = [proc EXCEPT ![r][Need[i]] = "dead"]
                                  /\ sock' = [sock EXCEPT ![r] = @ \ {Need[i]}]
      OBVIOUS
    <3>2. Need[i] \in Names /\ proc[r][Need[i]] # "none" /\ i \in 1 .. at[r]
      BY <3>1, <1>0 DEF Names
    <3>3. \A n \in Names : proc'[r][n] = IF n = Need[i] THEN "dead" ELSE proc[r][n]
      BY <3>1, <3>2 DEF SidecarsTypeOK
    <3>4. sock'[r] = sock[r] \ {Need[i]} /\ phase'[r] = "close"
      BY <3>1 DEF SidecarsTypeOK
    <3>5. \A n \in Names : Alive(r, n)' => Alive(r, n) /\ n # Need[i]
      BY <3>3 DEF Alive
    <3> QED
      BY <2>2, <3>2, <3>3, <3>4, <3>5 DEF Behind, Steps, Ends
  <2> QED
    BY <2>1, <2>2
<1>3. ASSUME NEW q \in Runs PROVE Opened(q)'
  BY DEF Opened, SidecarsTypeOK
<1>4. ASSUME NEW q \in Runs, q \in alone', phase'[q] \in Steps PROVE Apart(q)'
  <2>1. q \in alone /\ phase[q] \in Steps /\ Extracting' = {q} /\ q # r
    BY <1>4, AloneBefore DEF Steps, Ends, SidecarsTypeOK
  <2> QED
    BY <2>1, <1>0 DEF Apart, SidecarsTypeOK, Steps, Name, Path, Tmp
<1>5. LeavesNothing'
  BY DEF LeavesNothing, SidecarsTypeOK, Behind, Alive, Ends
<1> QED
  BY <1>1, <1>2, <1>3, <1>4, <1>5 DEF Apart

LEMMA EndKeeps ==
  ASSUME SidecarsInv, NEW r \in Runs, End(r)
  PROVE  SidecarsInv'
<1> USE DEF SidecarsInv, End, Closing, Go, FilesKept, RunKept, Missing, Empty, Part, Whole
<1>0. Name(r) \in Names /\ at[r] \in 1 .. Len(Need) /\ Len(Need) \in Nat
  BY NamesAreNeeded, SidecarsConstants
<1>1. SidecarsTypeOK'
  BY <1>0, FilesHaveNames DEF SidecarsTypeOK, Ends
<1>2. ASSUME NEW q \in Runs PROVE Behind(q)'
  <2>1. CASE q # r
    BY <2>1, OthersBehind DEF SidecarsTypeOK
  <2>2. CASE q = r
    BY <2>2, <1>0, ZenonT(60) DEF Behind, SidecarsTypeOK, Name, Names, Alive, Ends, Steps
  <2> QED
    BY <2>1, <2>2
<1>3. ASSUME NEW q \in Runs PROVE Opened(q)'
  BY DEF Opened, SidecarsTypeOK
<1>4. ASSUME NEW q \in Runs, q \in alone', phase'[q] \in Steps PROVE Apart(q)'
  <2>1. q \in alone /\ phase[q] \in Steps /\ Extracting' = {q} /\ q # r
    BY <1>4, AloneBefore DEF Steps, Ends, SidecarsTypeOK
  <2> QED
    BY <2>1, <1>0 DEF Apart, SidecarsTypeOK, Steps, Name, Path, Tmp
<1>5. LeavesNothing'
  <2>1. ASSUME NEW n \in Names PROVE ~Alive(r, n)
    <3>1. SUFFICES ASSUME Alive(r, n) PROVE FALSE
      OBVIOUS
    <3>2. n \in sock[r] /\ n \notin Remote /\ proc[r][n] # "none"
      BY <3>1 DEF Behind, Alive, Ends
    <3>3. PICK i \in 1 .. at[r] : Need[i] = n
      BY <3>2 DEF Behind
    <3> QED
      BY <3>2, <3>3
  <2>2. ASSUME NEW n \in sock[r] PROVE n \in Names /\ proc[r][n] = "none"
    <3>1. n \in Names /\ n \notin Remote
      BY DEF Behind, SidecarsTypeOK
    <3>2. PICK i \in 1 .. at[r] : Need[i] = n
      BY DEF Behind
    <3> QED
      BY <3>1, <3>2
  <2> QED
    BY <2>1, <2>2 DEF LeavesNothing, SidecarsTypeOK, Alive
<1> QED
  BY <1>1, <1>2, <1>3, <1>4, <1>5 DEF Apart

LEMMA KillKeeps ==
  ASSUME SidecarsInv, NEW r \in Runs, Kill(r)
  PROVE  SidecarsInv'
<1> USE DEF SidecarsInv, Kill, Put, Go, FilesKept, RunKept, Missing, Empty, Part, Whole
<1>0. Name(r) \in Names /\ at[r] \in 1 .. Len(Need) /\ Len(Need) \in Nat
  BY NamesAreNeeded, SidecarsConstants
<1>1. SidecarsTypeOK'
  BY <1>0, FilesHaveNames DEF SidecarsTypeOK, Ends
<1>2. ASSUME NEW q \in Runs PROVE Behind(q)'
  <2>1. CASE q # r
    BY <2>1, OthersBehind DEF SidecarsTypeOK
  <2>2. CASE q = r
    BY <2>2, <1>0, ZenonT(60) DEF Behind, SidecarsTypeOK, Name, Names, Alive, Ends, Steps
  <2> QED
    BY <2>1, <2>2
<1>3. ASSUME NEW q \in Runs PROVE Opened(q)'
  BY DEF Opened, SidecarsTypeOK
<1>4. ASSUME NEW q \in Runs, q \in alone', phase'[q] \in Steps PROVE Apart(q)'
  <2>1. q \in alone /\ phase[q] \in Steps /\ Extracting' = {q} /\ q # r /\ phase[r] \notin Steps
    BY <1>4, AloneBefore, ZenonT(60) DEF Steps, Ends, SidecarsTypeOK
  <2> QED
    <3>1. dir' = dir
      BY <2>1, FilesHaveNames DEF Opened, Steps, Apart
    <3> QED
      BY <2>1, <3>1 DEF Apart, SidecarsTypeOK, Steps, Name, Path, Tmp
<1>5. LeavesNothing'
  BY DEF LeavesNothing, SidecarsTypeOK, Behind, Alive, Ends
<1> QED
  BY <1>1, <1>2, <1>3, <1>4, <1>5 DEF Apart

LEMMA LiveKeeps ==
  ASSUME SidecarsInv, NEW r \in Runs, NEW n \in Names, Live(r, n)
  PROVE  SidecarsInv'
<1> USE DEF SidecarsInv, FilesKept, RunKept
<1>0. PICK s \in {"healthy", "hung", "dead"} :
        /\ proc[r][n] = "starting" \/ (Alive(r, n) /\ s = "dead")
        /\ proc' = [proc EXCEPT ![r][n] = s]
  BY DEF Live
<1>1. UNCHANGED <<dir, phase, version, at, fd, listed, sock, alone, starts, kills>>
  BY DEF Live
<1>2. /\ SidecarsTypeOK'
      /\ \A q \in Runs : q # r => proc'[q] = proc[q]
      /\ \A m \in Names : proc'[r][m] = IF m = n THEN s ELSE proc[r][m]
  BY <1>0, <1>1 DEF SidecarsTypeOK
<1>3. proc[r][n] \in {"starting", "healthy", "hung"}
  BY <1>0 DEF Alive
<1>4. \A q \in Runs, m \in Names : (Alive(q, m)' => Alive(q, m)) /\ (proc'[q][m] = "none" <=> proc[q][m] = "none")
  BY <1>0, <1>2, <1>3 DEF Alive
<1>5. ASSUME NEW q \in Runs PROVE Behind(q)' /\ Opened(q)' /\ Apart(q)'
  <2>1. Behind(q)'
    BY <1>1, <1>4 DEF Behind, Name
  <2> QED
    BY <1>1, <2>1 DEF Opened, Apart, Extracting, Name, Path, Tmp
<1>6. LeavesNothing'
  BY <1>1, <1>4 DEF LeavesNothing
<1> QED
  BY <1>2, <1>5, <1>6

LEMMA RunKeeps ==
  ASSUME SidecarsInv, NEW r \in Runs, NEW v \in Versions, StartRun(r, v)
  PROVE  SidecarsInv'
<1> USE DEF SidecarsInv, StartRun, FilesKept
<1>0. 1 \in DOMAIN Need /\ Need[1] \in Names /\ at'[r] = 1 /\ sock'[r] = {} /\ Name(r)' = Need[1] /\ phase[r] \notin Steps
  BY SidecarsConstants DEF SidecarsTypeOK, Name, Names, Ends, Steps
<1>1. /\ \A q \in Runs : q # r => /\ phase'[q] = phase[q] /\ at'[q] = at[q] /\ proc'[q] = proc[q]
                                  /\ sock'[q] = sock[q] /\ version'[q] = version[q]
      /\ phase'[r] \in {"wait", "stat"}
      /\ phase'[r] = "stat" => Need[1] \notin Remote
      /\ \A n \in Names : proc'[r][n] = "none" \/ (n \in Remote /\ proc'[r][n] = "starting")
  BY DEF Enter, Go, SidecarsTypeOK
<1>2. SidecarsTypeOK'
  BY <1>0, EnterKeepsTypes DEF SidecarsTypeOK, Steps
<1>3. ASSUME NEW q \in Runs PROVE Behind(q)'
  <2>1. CASE q # r
    BY <2>1, <1>1, OthersBehind
  <2>2. CASE q = r
    BY <2>2, <1>0, <1>1 DEF Behind, Alive, Steps
  <2> QED
    BY <2>1, <2>2
<1>4. ASSUME NEW q \in Runs PROVE Opened(q)'
  BY <1>1 DEF Opened, Ends
<1>5. ASSUME NEW q \in Runs, q \in alone', phase'[q] \in Steps PROVE Apart(q)'
  BY <1>0, <1>1, <1>5, AloneEntered, SMTT(30) DEF Apart, Name, Path, Tmp, Steps
<1>6. LeavesNothing'
  BY <1>1 DEF LeavesNothing, Alive
<1> QED
  BY <1>2, <1>3, <1>4, <1>5, <1>6 DEF Apart

-----------------------------------------------------------------------------

LEMMA SidecarsInitially == SidecarsInit => SidecarsInv
<1> SUFFICES ASSUME SidecarsInit PROVE SidecarsInv
  OBVIOUS
<1>1. SidecarsTypeOK
  BY SidecarsConstants DEF SidecarsInit, SidecarsTypeOK, Ends, Missing, Whole
<1>2. ASSUME NEW r \in Runs PROVE Behind(r) /\ Opened(r) /\ Apart(r)
  BY DEF SidecarsInit, Behind, Opened, Apart, Alive, Ends, Steps
<1>3. LeavesNothing
  BY DEF SidecarsInit, LeavesNothing
<1> QED
  BY <1>1, <1>2, <1>3 DEF SidecarsInv

LEMMA SidecarsSteps == SidecarsInv /\ [SidecarsNext]_sidecarVars => SidecarsInv'
<1> SUFFICES ASSUME SidecarsInv, [SidecarsNext]_sidecarVars PROVE SidecarsInv'
  OBVIOUS
<1>1. CASE UNCHANGED sidecarVars
  <2> USE <1>1 DEF sidecarVars, SidecarsInv
  <2>1. SidecarsTypeOK' /\ LeavesNothing'
    BY DEF SidecarsTypeOK, LeavesNothing, Alive
  <2>2. ASSUME NEW r \in Runs PROVE Behind(r)' /\ Opened(r)' /\ Apart(r)'
    BY DEF Behind, Opened, Apart, Alive, Extracting, Name, Path, Tmp
  <2> QED
    BY <2>1, <2>2
<1>2. CASE SidecarsNext
  <2> PICK r \in Runs : Step(r) \/ Canceled(r) \/ Done(r) \/ Kill(r) \/ (\E v \in Versions : StartRun(r, v)) \/ \E n \in Names : Live(r, n)
    BY <1>2 DEF SidecarsNext
  <2> QED
    BY StatKeeps, OpenKeeps, WriteKeeps, WriteFailsKeeps, RenameKeeps, RenameFailsKeeps, ListKeeps, PruneKeeps, SocketKeeps,
       ExecKeeps, ExecFailsKeeps, ReadyKeeps, GivesUpKeeps, DoneKeeps, CloseKeeps, EndKeeps, KillKeeps, LiveKeeps, RunKeeps
       DEF Step, Canceled, Deadline
<1> QED
  BY <1>1, <1>2

\* Any runs of any versions, overlapping and killed anywhere, keep the invariant
\* of what they share: the folder of binaries, their sockets and processes
\* (extractRuntime, Sidecar.Start, startNeededSidecars).
THEOREM SidecarsSafe == SidecarsSpec => []SidecarsInv
  BY SidecarsInitially, SidecarsSteps, PTL DEF SidecarsSpec

\* A run that ends by itself leaves no process of its sidecars and no socket
\* directory but that of one whose process did not start
\* (startNeededSidecars' close, Sidecar.Close).
THEOREM NothingIsLeft == SidecarsSpec => []LeavesNothing
<1>1. SidecarsInv => LeavesNothing
  BY DEF SidecarsInv
<1> QED
  BY <1>1, SidecarsSafe, PTL

\* A run no other extracts beside does not fail to rename its file, nor to run
\* it, whatever the runs before it left in the folder (extractRuntime).
THEOREM RunsWholeAlone == SidecarsSpec => AloneRunsWhole
<1>1. SidecarsInv /\ [SidecarsNext]_sidecarVars => [\A r \in Runs : r \in alone => ~RenameFails(r) /\ ~ExecFails(r)]_sidecarVars
  <2> SUFFICES ASSUME SidecarsInv, NEW r \in Runs, r \in alone PROVE ~RenameFails(r) /\ ~ExecFails(r)
    OBVIOUS
  <2>1. ~RenameFails(r)
    BY DEF SidecarsInv, Apart, RenameFails, Steps, Missing, Whole
  <2>2. ~ExecFails(r)
    <3>1. SUFFICES ASSUME phase[r] = "exec" PROVE Executable(r)
      BY DEF ExecFails
    <3>2. dir[Path(r)] = Whole /\ Extracting = {r}
      BY <3>1 DEF SidecarsInv, Apart, Steps
    <3>3. ASSUME NEW q \in Runs PROVE fd[q] = Closed
      BY <3>1, <3>2 DEF SidecarsInv, Opened, Extracting
    <3> QED
      BY <3>2, <3>3, FilesHaveNames DEF Executable
  <2> QED
    BY <2>1, <2>2
<1> QED
  BY <1>1, SidecarsSafe, PTL DEF SidecarsSpec, AloneRunsWhole

=============================================================================
