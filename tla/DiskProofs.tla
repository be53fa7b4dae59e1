----------------------------- MODULE DiskProofs -----------------------------
(***************************************************************************)
(* What anfra keeps on disk for other processes and people to find.        *)
(*                                                                         *)
(* The export store, for any processes and exports, any life of a link and *)
(* any jumps of the wall clock: a file that is being written, or that a    *)
(* live link names, is lost only as LostOnlySo says.                       *)
(*                                                                         *)
(* The cached update check and the agents' record, for any processes and   *)
(* releases: what a notice says is said as often as it should.  AGENTS.md, *)
(* for any lines: setup's block is its own, and the rest is not.           *)
(***************************************************************************)
EXTENDS Exports, Upkeep, Integers, SequenceTheorems, WellFoundedInduction, TLAPS

SweepRecords ==
  [at : {"idle", "forget", "unlink", "list", "judge", "removeall"},
   now : Nat, todo : SUBSET Exports, cur : Exports \cup {NoOne}]

Shape ==
  /\ mono \in Nat /\ wall \in Nat
  /\ proc \in [Procs -> {"up", "closing", "stopped", "died"}] /\ toClose \in [Procs -> SUBSET Exports]
  /\ sweep \in [Sweepers -> SweepRecords]
  /\ ex \in [Exports -> {"none", "preparing", "writing", "flushed", "finished", "gone"}]
  /\ owner \in [Exports -> Procs \cup {NoOne}] /\ lostTo \in [Exports -> Procs \cup {NoOne}]
  /\ began \in [Exports -> Nat] /\ mtime \in [Exports -> Nat] /\ until \in [Exports -> Nat]
  /\ written \in [Exports -> BOOLEAN] /\ file \in [Exports -> BOOLEAN]
  /\ linked \subseteq Exports
  /\ jumpedIn \in [Exports -> {"nothing", "writing", "life"}]

\* How far an export is says whose it is, whether there is a file yet and a
\* link, and what the clock can have done to it.
StageOf(e) ==
  /\ ex[e] # "none" => owner[e] \in Procs
  /\ ex[e] \in {"none", "preparing"} => jumpedIn[e] = "nothing" /\ lostTo[e] = NoOne /\ ~file[e]
  /\ e \in linked \/ (\E p \in Procs : e \in toClose[p]) => ex[e] \in {"finished", "gone"}
  /\ BeingWritten(e) => jumpedIn[e] # "life"

InTimeOf(e) == ex[e] \in {"preparing", "writing", "flushed"} => began[e] <= mono /\ mono <= began[e] + Timeout

\* An export the clock left alone: its file is no older, by any sweep's clock,
\* than its command or its link is.
AgeOf(e) ==
  jumpedIn[e] = "nothing" =>
    /\ BeingWritten(e) => wall + began[e] <= mtime[e] + mono
    /\ ex[e] = "flushed" /\ written[e] => mtime[e] = wall
    /\ ex[e] = "finished" /\ written[e] => wall + until[e] <= mtime[e] + mono + TTL
    /\ BeingWritten(e) \/ ex[e] = "finished" => \A s \in Sweepers : sweep[s].now <= wall

LinkOf(e) == Promised(e) /\ Running(owner[e]) => e \in linked

\* What a sweep is about to remove, by its link and by its age.
Past(e) == ex[e] \in {"finished", "gone"} /\ ~Promised(e)
MayGo(s, e) ==
  /\ ex[e] \notin {"none", "preparing"}
  /\ (BeingWritten(e) \/ Promised(e)) /\ jumpedIn[e] # "writing" =>
       Promised(e) /\ s[1] # owner[e] /\ (jumpedIn[e] = "life" \/ ~written[e])
SweepOf(s) ==
  /\ sweep[s].at # "idle" => Running(s[1])
  /\ sweep[s].at \in {"forget", "unlink"} => \A e \in sweep[s].todo : Past(e)
  /\ sweep[s].at = "unlink" => sweep[s].cur \in Exports /\ Past(sweep[s].cur)
  /\ sweep[s].at = "removeall" => sweep[s].cur \in Exports /\ MayGo(s, sweep[s].cur)

ExportInv(e) == StageOf(e) /\ InTimeOf(e) /\ AgeOf(e) /\ LinkOf(e)
ExportsInv ==
  /\ Shape
  /\ \A e \in Exports : ExportInv(e)
  /\ \A s \in Sweepers : SweepOf(s)
  /\ LostOnlySo

USE ExportsAssumption DEF Procs

LEMMA ExportsStart == Init => ExportsInv
<1> SUFFICES ASSUME Init PROVE ExportsInv
  OBVIOUS
<1>1. Shape
  BY DEF Init, Shape, SweepRecords, NoSweep, Sweepers
<1>2. \A e \in Exports : ExportInv(e)
  BY DEF Init, ExportInv, StageOf, InTimeOf, AgeOf, LinkOf, BeingWritten, Promised
<1>3. \A s \in Sweepers : SweepOf(s)
  BY DEF Init, SweepOf, NoSweep, Sweepers
<1>4. LostOnlySo
  BY DEF Init, LostOnlySo, BeingWritten, Promised
<1> QED
  BY <1>1, <1>2, <1>3, <1>4 DEF ExportsInv

LEMMA PeriodicSweepKeeps ==
  ASSUME ExportsInv, NEW s \in Sweepers, PeriodicSweep(s)
  PROVE  ExportsInv'
<1> USE DEF ExportsInv, PeriodicSweep, SweepBegins, LinksOf, clocks, procs, command, disk, links, history
<1>1. Shape'
  BY DEF Shape, SweepRecords, Sweepers
<1>2. ASSUME NEW e \in Exports PROVE ExportInv(e)'
  BY DEF Shape, SweepRecords, ExportInv, StageOf, InTimeOf, AgeOf, LinkOf, BeingWritten, Promised, Running, Past, SweepOf
<1>3. ASSUME NEW t \in Sweepers PROVE SweepOf(t)'
  BY SMTT(30) DEF Shape, SweepRecords, SweepOf, Past, MayGo, Running, ExportInv, StageOf, InTimeOf, AgeOf, LinkOf, BeingWritten, Promised, Sweepers
<1>4. LostOnlySo'
  BY DEF Shape, LostOnlySo, BeingWritten, Promised, SweepOf, MayGo, Past, ExportInv, StageOf
<1> QED
  BY <1>1, <1>2, <1>3, <1>4

LEMMA ForgetKeeps ==
  ASSUME ExportsInv, NEW s \in Sweepers, Forget(s)
  PROVE  ExportsInv'
<1> USE DEF ExportsInv, Forget, clocks, procs, command, disk, links, history
<1>1. Shape'
  BY SMTT(30) DEF Shape, SweepRecords, Sweepers
<1>2. ASSUME NEW e \in Exports PROVE ExportInv(e)'
  BY DEF Shape, SweepRecords, ExportInv, StageOf, InTimeOf, AgeOf, LinkOf, BeingWritten, Promised, Running, Past, SweepOf
<1>3. ASSUME NEW t \in Sweepers PROVE SweepOf(t)'
  <2>1. PICK e \in sweep[s].todo :
          /\ linked' = linked \ {e}
          /\ sweep' = [sweep EXCEPT ![s].todo = @ \ {e}, ![s].cur = e, ![s].at = IF e \in linked THEN "unlink" ELSE @]
    OBVIOUS
  <2>2. e \in Exports /\ Past(e)
    BY SMTT(30) DEF Shape, SweepRecords, SweepOf
  <2>3. ASSUME NEW x \in Exports PROVE (MayGo(t, x)' <=> MayGo(t, x)) /\ (Past(x)' <=> Past(x))
    BY DEF MayGo, Past, BeingWritten, Promised
  <2>4. CASE t # s
    <3>1. sweep'[t] = sweep[t] /\ sweep[t].todo \subseteq Exports
      BY <2>1, <2>4 DEF Shape, SweepRecords
    <3> QED
      BY <2>3, <3>1 DEF SweepOf, Running
  <2>5. CASE t = s
    <3>1. sweep'[s].cur = e /\ sweep'[s].todo = sweep[s].todo \ {e} /\ sweep'[s].at \in {"forget", "unlink"}
      BY <2>1 DEF Shape, SweepRecords
    <3>2. \A x \in sweep[s].todo : x \in Exports /\ Past(x)
      BY SMTT(30) DEF Shape, SweepRecords, SweepOf
    <3>3. Running(s[1])'
      BY DEF SweepOf, Running
    <3> QED
      BY <2>2, <2>3, <2>5, <3>1, <3>2, <3>3 DEF SweepOf
  <2> QED
    BY <2>4, <2>5
<1>4. LostOnlySo'
  BY DEF Shape, LostOnlySo, BeingWritten, Promised, SweepOf, MayGo, Past, ExportInv, StageOf
<1> QED
  BY <1>1, <1>2, <1>3, <1>4

LEMMA UnlinkKeeps ==
  ASSUME ExportsInv, NEW s \in Sweepers, Unlink(s)
  PROVE  ExportsInv'
<1> USE DEF ExportsInv, Unlink, clocks, procs, command, disk, links, history
<1>1. Shape'
  <2>1. file' \in [Exports -> BOOLEAN]
    BY DEF Shape
  <2>2. sweep' \in [Sweepers -> SweepRecords]
    BY DEF Shape, SweepRecords
  <2> QED
    BY <2>1, <2>2 DEF Shape
<1>2. ASSUME NEW e \in Exports PROVE ExportInv(e)'
  BY DEF Shape, SweepRecords, ExportInv, StageOf, InTimeOf, AgeOf, LinkOf, BeingWritten, Promised, Running, Past, SweepOf
<1>3. ASSUME NEW t \in Sweepers PROVE SweepOf(t)'
  BY SMTT(30) DEF Shape, SweepRecords, SweepOf, Past, MayGo, Running, ExportInv, StageOf, InTimeOf, AgeOf, LinkOf, BeingWritten, Promised, Sweepers
<1>4. LostOnlySo'
  BY DEF Shape, LostOnlySo, BeingWritten, Promised, SweepOf, MayGo, Past, ExportInv, StageOf
<1> QED
  BY <1>1, <1>2, <1>3, <1>4

LEMMA ListKeeps ==
  ASSUME ExportsInv, NEW s \in Sweepers, List(s)
  PROVE  ExportsInv'
<1> USE DEF ExportsInv, List, clocks, procs, command, disk, links, history
<1>1. Shape'
  BY DEF Shape, SweepRecords, Sweepers
<1>2. ASSUME NEW e \in Exports PROVE ExportInv(e)'
  BY DEF Shape, SweepRecords, ExportInv, StageOf, InTimeOf, AgeOf, LinkOf, BeingWritten, Promised, Running, Past, SweepOf
<1>3. ASSUME NEW t \in Sweepers PROVE SweepOf(t)'
  <2>1. CASE t = s
    BY <2>1, SMTT(30) DEF Shape, SweepRecords, SweepOf, Past, MayGo, Running, ExportInv, StageOf, InTimeOf, AgeOf, LinkOf, BeingWritten, Promised, Sweepers
  <2>2. CASE t # s
    <3>1. sweep'[t] = sweep[t]
      BY <2>2 DEF Shape
    <3>2. (Running(t[1]) => Running(t[1])') /\ \A e : Past(e) => Past(e)'
      BY DEF Past, Running, Promised
    <3>3. ASSUME NEW e \in Exports, MayGo(t, e) PROVE MayGo(t, e)'
      BY <3>3 DEF MayGo, BeingWritten, Promised
    <3> QED
      BY <3>1, <3>2, <3>3 DEF SweepOf
  <2> QED
    BY <2>1, <2>2
<1>4. LostOnlySo'
  BY DEF Shape, LostOnlySo, BeingWritten, Promised, SweepOf, MayGo, Past, ExportInv, StageOf
<1> QED
  BY <1>1, <1>2, <1>3, <1>4

LEMMA JudgeKeeps ==
  ASSUME ExportsInv, NEW s \in Sweepers, Judge(s)
  PROVE  ExportsInv'
<1> USE DEF ExportsInv, Judge, Old, LinksOf, clocks, procs, command, disk, links, history
<1>1. Shape'
  BY SMTT(30) DEF Shape, SweepRecords, Sweepers
<1>2. ASSUME NEW e \in Exports PROVE ExportInv(e)'
  BY DEF Shape, SweepRecords, ExportInv, StageOf, InTimeOf, AgeOf, LinkOf, BeingWritten, Promised, Running, Past, SweepOf
<1>3. ASSUME NEW t \in Sweepers PROVE SweepOf(t)'
  <2>1. PICK e \in sweep[s].todo :
          sweep' = [sweep EXCEPT ![s].todo = @ \ {e}, ![s].cur = e,
                                 ![s].at = IF file[e] /\ e \notin LinksOf(s[1]) /\ Old(e, sweep[s].now) THEN "removeall" ELSE @]
    OBVIOUS
  <2>2. e \in Exports /\ s[1] \in Procs
    BY DEF Shape, SweepRecords, Sweepers
  <2>3. ASSUME NEW x \in Exports PROVE (MayGo(t, x)' <=> MayGo(t, x)) /\ (Past(x)' <=> Past(x))
    BY DEF MayGo, Past, BeingWritten, Promised
  <2>4. CASE t # s
    <3>1. sweep'[t] = sweep[t] /\ sweep[t].todo \subseteq Exports
      BY <2>1, <2>4 DEF Shape, SweepRecords
    <3> QED
      BY <2>3, <3>1 DEF SweepOf, Running
  <2>5. CASE t = s
    <3> DEFINE goes == file[e] /\ e \notin LinksOf(s[1]) /\ Old(e, sweep[s].now)
    <3>1. sweep'[s].cur = e /\ sweep'[s].at = IF goes THEN "removeall" ELSE "judge"
      BY <2>1 DEF Shape, SweepRecords
    <3>2. goes => MayGo(s, e)
      <4> SUFFICES ASSUME goes PROVE MayGo(s, e)
        OBVIOUS
      <4>1. ex[e] \notin {"none", "preparing"}
        BY <2>2 DEF ExportInv, StageOf
      <4>2. ASSUME BeingWritten(e) \/ Promised(e), jumpedIn[e] = "nothing"
            PROVE  Promised(e) /\ ~written[e]
        <5>1. mtime[e] + TTL < sweep[s].now /\ sweep[s].now <= wall
          BY <2>2, <4>2 DEF ExportInv, AgeOf, Promised, Old
        <5>2. /\ {mono, wall, mtime[e], began[e], until[e], sweep[s].now, TTL, Timeout} \subseteq Nat
              /\ Timeout < TTL /\ written[e] \in BOOLEAN
          BY <2>2 DEF Shape, SweepRecords
        <5>3. ~BeingWritten(e)
          BY <2>2, <4>2, <5>1, <5>2 DEF ExportInv, AgeOf, InTimeOf, BeingWritten
        <5>4. Promised(e) /\ ex[e] = "finished" /\ mono <= until[e]
          BY <4>2, <5>3 DEF Promised
        <5>5. ~written[e]
          BY <2>2, <4>2, <5>1, <5>2, <5>4 DEF ExportInv, AgeOf
        <5> QED
          BY <5>4, <5>5
      <4>3. ASSUME Promised(e) PROVE s[1] # owner[e]
        BY <2>2, <4>3 DEF ExportInv, LinkOf, SweepOf, LinksOf
      <4>4. BeingWritten(e) => jumpedIn[e] # "life"
        BY <2>2 DEF ExportInv, StageOf
      <4>5. jumpedIn[e] \in {"nothing", "writing", "life"}
        BY <2>2 DEF Shape
      <4> QED
        BY <4>1, <4>2, <4>3, <4>4, <4>5 DEF MayGo
    <3> HIDE DEF goes
    <3>3. Running(s[1])'
      BY DEF SweepOf, Running
    <3> QED
      BY <2>2, <2>3, <2>5, <3>1, <3>2, <3>3 DEF SweepOf
  <2> QED
    BY <2>4, <2>5
<1>4. LostOnlySo'
  BY DEF Shape, LostOnlySo, BeingWritten, Promised, SweepOf, MayGo, Past, ExportInv, StageOf
<1> QED
  BY <1>1, <1>2, <1>3, <1>4

LEMMA RemoveAllKeeps ==
  ASSUME ExportsInv, NEW s \in Sweepers, RemoveAll(s)
  PROVE  ExportsInv'
<1> USE DEF ExportsInv, RemoveAll, clocks, procs, command, disk, links, history
<1>1. Shape'
  <2>1. sweep[s].cur \in Exports /\ s[1] \in Procs
    BY DEF Shape, SweepOf, Sweepers
  <2>2. file' \in [Exports -> BOOLEAN] /\ lostTo' \in [Exports -> Procs \cup {NoOne}]
    BY <2>1 DEF Shape
  <2>3. sweep' \in [Sweepers -> SweepRecords]
    BY DEF Shape, SweepRecords
  <2> QED
    BY <2>2, <2>3 DEF Shape
<1>2. ASSUME NEW e \in Exports PROVE ExportInv(e)'
  BY DEF Shape, SweepRecords, ExportInv, StageOf, InTimeOf, AgeOf, LinkOf, BeingWritten, Promised, Running, Past, SweepOf
<1>3. ASSUME NEW t \in Sweepers PROVE SweepOf(t)'
  BY SMTT(30) DEF Shape, SweepRecords, SweepOf, Past, MayGo, Running, ExportInv, StageOf, InTimeOf, AgeOf, LinkOf, BeingWritten, Promised, Sweepers
<1>4. LostOnlySo'
  <2> DEFINE x == sweep[s].cur
  <2>1. x \in Exports /\ MayGo(s, x) /\ s[1] \in Procs
    BY DEF SweepOf, Sweepers
  <2> SUFFICES ASSUME NEW e \in Exports, (BeingWritten(e) \/ Promised(e))', ~file'[e], jumpedIn'[e] # "writing"
               PROVE  /\ lostTo'[e] \notin {NoOne, owner'[e]}
                      /\ jumpedIn'[e] = "life" \/ (Promised(e)' /\ ~written'[e])
    BY DEF LostOnlySo
  <2>2. (BeingWritten(e) <=> BeingWritten(e)') /\ (Promised(e) <=> Promised(e)')
    BY DEF BeingWritten, Promised
  <2>3. CASE e # x \/ ~file[e]
    <3>1. ~file[e] /\ lostTo'[e] = lostTo[e]
      BY <2>1, <2>3 DEF Shape
    <3> QED
      BY <2>2, <3>1 DEF LostOnlySo
  <2>4. CASE e = x /\ file[e]
    <3>1. lostTo'[e] = s[1]
      BY <2>1, <2>4 DEF Shape
    <3> QED
      BY <2>1, <2>2, <2>4, <3>1, ExportsAssumption DEF MayGo
  <2> QED
    BY <2>3, <2>4
<1> QED
  BY <1>1, <1>2, <1>3, <1>4

LEMMA SweepEndsKeeps ==
  ASSUME ExportsInv, NEW s \in Sweepers, SweepEnds(s)
  PROVE  ExportsInv'
<1> USE DEF ExportsInv, SweepEnds, NoSweep, clocks, procs, command, disk, links, history
<1>1. Shape'
  BY DEF Shape, SweepRecords, Sweepers
<1>2. ASSUME NEW e \in Exports PROVE ExportInv(e)'
  BY DEF Shape, SweepRecords, ExportInv, StageOf, InTimeOf, AgeOf, LinkOf, BeingWritten, Promised, Running, Past, SweepOf
<1>3. ASSUME NEW t \in Sweepers PROVE SweepOf(t)'
  BY SMTT(30) DEF Shape, SweepRecords, SweepOf, Past, MayGo, Running, ExportInv, StageOf, InTimeOf, AgeOf, LinkOf, BeingWritten, Promised, Sweepers
<1>4. LostOnlySo'
  BY DEF Shape, LostOnlySo, BeingWritten, Promised, SweepOf, MayGo, Past, ExportInv, StageOf
<1> QED
  BY <1>1, <1>2, <1>3, <1>4

LEMMA BeginKeeps ==
  ASSUME ExportsInv, NEW p \in Procs, NEW x \in Exports, Begin(p, x)
  PROVE  ExportsInv'
<1> USE DEF ExportsInv, Begin, SweepBegins, LinksOf, clocks, procs, command, disk, links, history
<1>1. Shape'
  <2>1. <<p, "first">> \in Sweepers
    BY DEF Sweepers
  <2>2. sweep' \in [Sweepers -> SweepRecords]
    <3> DEFINE r == [at |-> "forget", now |-> wall, cur |-> NoOne, todo |-> {e \in LinksOf(p) : mono > until[e]}]
    <3>1. sweep' = sweep \/ sweep' = [sweep EXCEPT ![<<p, "first">>] = r]
      BY DEF Shape
    <3>2. r \in SweepRecords
      BY DEF Shape, SweepRecords
    <3> HIDE DEF r
    <3> QED
      BY <2>1, <3>1, <3>2 DEF Shape
  <2>3. ex' \in [Exports -> {"none", "preparing", "writing", "flushed", "finished", "gone"}]
    BY DEF Shape
  <2>4. owner' \in [Exports -> Procs \cup {NoOne}] /\ began' \in [Exports -> Nat]
    BY DEF Shape
  <2> QED
    BY <2>2, <2>3, <2>4 DEF Shape
<1>2. ASSUME NEW e \in Exports PROVE ExportInv(e)'
  <2>1. CASE e = x
    <3>1. ex'[e] = "preparing" /\ owner'[e] = p /\ began'[e] = mono
      BY <2>1 DEF Shape
    <3>2. e \notin linked /\ \A q \in Procs : e \notin toClose[q]
      BY <2>1 DEF ExportInv, StageOf
    <3>3. StageOf(e)'
      BY <2>1, <3>1, <3>2 DEF ExportInv, StageOf, BeingWritten
    <3>4. InTimeOf(e)' /\ AgeOf(e)' /\ LinkOf(e)'
      BY <3>1 DEF Shape, InTimeOf, AgeOf, LinkOf, BeingWritten, Promised
    <3> QED
      BY <3>3, <3>4 DEF ExportInv
  <2>2. CASE e # x
    <3>1. ex'[e] = ex[e] /\ owner'[e] = owner[e] /\ began'[e] = began[e]
      BY <2>2 DEF Shape
    <3>2. \A s \in Sweepers : sweep'[s].now = sweep[s].now \/ sweep'[s].now = wall
      <4> DEFINE r == [at |-> "forget", now |-> wall, cur |-> NoOne, todo |-> {y \in LinksOf(p) : mono > until[y]}]
      <4>1. sweep' = sweep \/ sweep' = [sweep EXCEPT ![<<p, "first">>] = r]
        BY DEF Shape
      <4>2. r.now = wall
        BY SMTT(30)
      <4> HIDE DEF r
      <4> QED
        BY <4>1, <4>2, SMTT(30) DEF Shape
    <3>3. StageOf(e)' /\ InTimeOf(e)' /\ LinkOf(e)'
      BY <3>1 DEF ExportInv, StageOf, InTimeOf, LinkOf, BeingWritten, Promised, Running
    <3>4. AgeOf(e)'
      BY <3>1, <3>2 DEF Shape, ExportInv, AgeOf, BeingWritten
    <3> QED
      BY <3>3, <3>4 DEF ExportInv
  <2> QED
    BY <2>1, <2>2
<1>3. ASSUME NEW t \in Sweepers PROVE SweepOf(t)'
  <2> DEFINE f == <<p, "first">>
  <2>1. f \in Sweepers /\ f[1] = p
    BY SMTT(30) DEF Sweepers
  <2>2. ASSUME NEW e \in Exports, Past(e) PROVE Past(e)'
    BY <2>2 DEF Shape, Past, Promised
  <2>3. ASSUME NEW e \in Exports, MayGo(t, e) PROVE MayGo(t, e)'
    BY <2>3 DEF Shape, MayGo, BeingWritten, Promised
  <2>4. CASE sweep'[t] = sweep[t]
    <3>1. sweep[t].todo \subseteq Exports
      BY DEF Shape, SweepRecords
    <3> QED
      BY <2>2, <2>3, <2>4, <3>1 DEF SweepOf, Running
  <2>5. CASE sweep'[t] # sweep[t]
    <3>1. t = f
      BY <2>1, <2>5 DEF Shape
    <3>2. sweep'[t] = [at |-> "forget", now |-> wall, cur |-> NoOne, todo |-> {e \in LinksOf(p) : mono > until[e]}]
      BY <2>1, <2>5, <3>1 DEF Shape
    <3>3. \A e \in sweep'[t].todo : Past(e)'
      BY <3>2 DEF Past, ExportInv, StageOf, Shape, Promised
    <3> QED
      BY <2>1, <3>1, <3>2, <3>3 DEF SweepOf, Running
  <2> QED
    BY <2>4, <2>5
<1>4. LostOnlySo'
  BY DEF Shape, LostOnlySo, BeingWritten, Promised, SweepOf, MayGo, Past, ExportInv, StageOf
<1> QED
  BY <1>1, <1>2, <1>3, <1>4

LEMMA CreateKeeps ==
  ASSUME ExportsInv, NEW x \in Exports, Create(x)
  PROVE  ExportsInv'
<1> USE DEF ExportsInv, Create, clocks, procs, command, disk, links, history
<1>1. Shape'
  <2>1. file' \in [Exports -> BOOLEAN]
    BY DEF Shape
  <2>2. mtime' \in [Exports -> Nat]
    BY DEF Shape
  <2>3. ex' \in [Exports -> {"none", "preparing", "writing", "flushed", "finished", "gone"}]
    BY DEF Shape
  <2>4. jumpedIn' \in [Exports -> {"nothing", "writing", "life"}]
    <3> DEFINE ahead == \E s \in Sweepers : sweep[s].now > wall
    <3>1. jumpedIn' = [jumpedIn EXCEPT ![x] = IF ahead THEN "writing" ELSE @] \/ jumpedIn' = jumpedIn
      OBVIOUS
    <3> HIDE DEF ahead
    <3> QED
      BY <3>1 DEF Shape
  <2> QED
    BY <2>1, <2>2, <2>3, <2>4 DEF Shape
<1>2. ASSUME NEW e \in Exports PROVE ExportInv(e)'
  BY DEF Shape, SweepRecords, ExportInv, StageOf, InTimeOf, AgeOf, LinkOf, BeingWritten, Promised, Running, Past, SweepOf
<1>3. ASSUME NEW t \in Sweepers PROVE SweepOf(t)'
  BY SMTT(30) DEF Shape, SweepRecords, SweepOf, Past, MayGo, Running, ExportInv, StageOf, InTimeOf, AgeOf, LinkOf, BeingWritten, Promised, Sweepers
<1>4. LostOnlySo'
  BY DEF Shape, LostOnlySo, BeingWritten, Promised, SweepOf, MayGo, Past, ExportInv, StageOf
<1> QED
  BY <1>1, <1>2, <1>3, <1>4

LEMMA WriteBOMKeeps ==
  ASSUME ExportsInv, NEW x \in Exports, WriteBOM(x)
  PROVE  ExportsInv'
<1> USE DEF ExportsInv, WriteBOM, clocks, procs, command, disk, links, history
<1>1. Shape'
  BY DEF Shape, SweepRecords, Sweepers
<1>2. ASSUME NEW e \in Exports PROVE ExportInv(e)'
  BY DEF Shape, SweepRecords, ExportInv, StageOf, InTimeOf, AgeOf, LinkOf, BeingWritten, Promised, Running, Past, SweepOf
<1>3. ASSUME NEW t \in Sweepers PROVE SweepOf(t)'
  BY SMTT(30) DEF Shape, SweepRecords, SweepOf, Past, MayGo, Running, ExportInv, StageOf, InTimeOf, AgeOf, LinkOf, BeingWritten, Promised, Sweepers
<1>4. LostOnlySo'
  BY DEF Shape, LostOnlySo, BeingWritten, Promised, SweepOf, MayGo, Past, ExportInv, StageOf
<1> QED
  BY <1>1, <1>2, <1>3, <1>4

LEMMA WriteRecordKeeps ==
  ASSUME ExportsInv, NEW x \in Exports, WriteRecord(x)
  PROVE  ExportsInv'
<1> USE DEF ExportsInv, WriteRecord, clocks, procs, command, disk, links, history
<1>1. Shape'
  BY DEF Shape, SweepRecords, Sweepers
<1>2. ASSUME NEW e \in Exports PROVE ExportInv(e)'
  BY DEF Shape, SweepRecords, ExportInv, StageOf, InTimeOf, AgeOf, LinkOf, BeingWritten, Promised, Running, Past, SweepOf
<1>3. ASSUME NEW t \in Sweepers PROVE SweepOf(t)'
  BY SMTT(30) DEF Shape, SweepRecords, SweepOf, Past, MayGo, Running, ExportInv, StageOf, InTimeOf, AgeOf, LinkOf, BeingWritten, Promised, Sweepers
<1>4. LostOnlySo'
  BY DEF Shape, LostOnlySo, BeingWritten, Promised, SweepOf, MayGo, Past, ExportInv, StageOf
<1> QED
  BY <1>1, <1>2, <1>3, <1>4

LEMMA FlushKeeps ==
  ASSUME ExportsInv, NEW x \in Exports, Flush(x)
  PROVE  ExportsInv'
<1> USE DEF ExportsInv, Flush, clocks, procs, command, disk, links, history
<1>1. Shape'
  BY DEF Shape, SweepRecords, Sweepers
<1>2. ASSUME NEW e \in Exports PROVE ExportInv(e)'
  BY DEF Shape, SweepRecords, ExportInv, StageOf, InTimeOf, AgeOf, LinkOf, BeingWritten, Promised, Running, Past, SweepOf
<1>3. ASSUME NEW t \in Sweepers PROVE SweepOf(t)'
  BY SMTT(30) DEF Shape, SweepRecords, SweepOf, Past, MayGo, Running, ExportInv, StageOf, InTimeOf, AgeOf, LinkOf, BeingWritten, Promised, Sweepers
<1>4. LostOnlySo'
  BY DEF Shape, LostOnlySo, BeingWritten, Promised, SweepOf, MayGo, Past, ExportInv, StageOf
<1> QED
  BY <1>1, <1>2, <1>3, <1>4

LEMMA AbortKeeps ==
  ASSUME ExportsInv, NEW x \in Exports, Abort(x)
  PROVE  ExportsInv'
<1> USE DEF ExportsInv, Abort, clocks, procs, command, disk, links, history
<1>1. Shape'
  BY DEF Shape, SweepRecords, Sweepers
<1>2. ASSUME NEW e \in Exports PROVE ExportInv(e)'
  BY DEF Shape, SweepRecords, ExportInv, StageOf, InTimeOf, AgeOf, LinkOf, BeingWritten, Promised, Running, Past, SweepOf
<1>3. ASSUME NEW t \in Sweepers PROVE SweepOf(t)'
  BY SMTT(30) DEF Shape, SweepRecords, SweepOf, Past, MayGo, Running, ExportInv, StageOf, InTimeOf, AgeOf, LinkOf, BeingWritten, Promised, Sweepers
<1>4. LostOnlySo'
  BY DEF Shape, LostOnlySo, BeingWritten, Promised, SweepOf, MayGo, Past, ExportInv, StageOf
<1> QED
  BY <1>1, <1>2, <1>3, <1>4

LEMMA DoneKeeps ==
  ASSUME ExportsInv, NEW x \in Exports, Done(x)
  PROVE  ExportsInv'
<1> USE DEF ExportsInv, Done, clocks, procs, command, disk, links, history
<1>1. Shape'
  BY DEF Shape, SweepRecords, Sweepers
<1>2. ASSUME NEW e \in Exports PROVE ExportInv(e)'
  BY DEF Shape, SweepRecords, ExportInv, StageOf, InTimeOf, AgeOf, LinkOf, BeingWritten, Promised, Running, Past, SweepOf
<1>3. ASSUME NEW t \in Sweepers PROVE SweepOf(t)'
  BY SMTT(30) DEF Shape, SweepRecords, SweepOf, Past, MayGo, Running, ExportInv, StageOf, InTimeOf, AgeOf, LinkOf, BeingWritten, Promised, Sweepers
<1>4. LostOnlySo'
  BY DEF Shape, LostOnlySo, BeingWritten, Promised, SweepOf, MayGo, Past, ExportInv, StageOf
<1> QED
  BY <1>1, <1>2, <1>3, <1>4

LEMMA DoneFailsKeeps ==
  ASSUME ExportsInv, NEW x \in Exports, DoneFails(x)
  PROVE  ExportsInv'
<1> USE DEF ExportsInv, DoneFails, clocks, procs, command, disk, links, history
<1>1. Shape'
  BY DEF Shape, SweepRecords, Sweepers
<1>2. ASSUME NEW e \in Exports PROVE ExportInv(e)'
  BY DEF Shape, SweepRecords, ExportInv, StageOf, InTimeOf, AgeOf, LinkOf, BeingWritten, Promised, Running, Past, SweepOf
<1>3. ASSUME NEW t \in Sweepers PROVE SweepOf(t)'
  BY SMTT(30) DEF Shape, SweepRecords, SweepOf, Past, MayGo, Running, ExportInv, StageOf, InTimeOf, AgeOf, LinkOf, BeingWritten, Promised, Sweepers
<1>4. LostOnlySo'
  BY DEF Shape, LostOnlySo, BeingWritten, Promised, SweepOf, MayGo, Past, ExportInv, StageOf
<1> QED
  BY <1>1, <1>2, <1>3, <1>4

LEMMA DownloadKeeps ==
  ASSUME ExportsInv, NEW x \in Exports, Download(x)
  PROVE  ExportsInv'
<1> USE DEF ExportsInv, Download, clocks, procs, command, disk, links, history
<1>1. Shape'
  BY DEF Shape, SweepRecords, Sweepers
<1>2. ASSUME NEW e \in Exports PROVE ExportInv(e)'
  BY DEF Shape, SweepRecords, ExportInv, StageOf, InTimeOf, AgeOf, LinkOf, BeingWritten, Promised, Running, Past, SweepOf
<1>3. ASSUME NEW t \in Sweepers PROVE SweepOf(t)'
  BY SMTT(30) DEF Shape, SweepRecords, SweepOf, Past, MayGo, Running, ExportInv, StageOf, InTimeOf, AgeOf, LinkOf, BeingWritten, Promised, Sweepers
<1>4. LostOnlySo'
  BY DEF Shape, LostOnlySo, BeingWritten, Promised, SweepOf, MayGo, Past, ExportInv, StageOf
<1> QED
  BY <1>1, <1>2, <1>3, <1>4

LEMMA CloseKeeps ==
  ASSUME ExportsInv, NEW p \in Procs, Close(p)
  PROVE  ExportsInv'
<1> USE DEF ExportsInv, Close, LinksOf, clocks, procs, command, disk, links, history
<1>1. Shape'
  BY DEF Shape, SweepRecords, Sweepers
<1>2. ASSUME NEW e \in Exports PROVE ExportInv(e)'
  BY DEF Shape, SweepRecords, ExportInv, StageOf, InTimeOf, AgeOf, LinkOf, BeingWritten, Promised, Running, Past, SweepOf
<1>3. ASSUME NEW t \in Sweepers PROVE SweepOf(t)'
  BY SMTT(30) DEF Shape, SweepRecords, SweepOf, Past, MayGo, Running, ExportInv, StageOf, InTimeOf, AgeOf, LinkOf, BeingWritten, Promised, Sweepers
<1>4. LostOnlySo'
  BY DEF Shape, LostOnlySo, BeingWritten, Promised, SweepOf, MayGo, Past, ExportInv, StageOf
<1> QED
  BY <1>1, <1>2, <1>3, <1>4

LEMMA CloseOneKeeps ==
  ASSUME ExportsInv, NEW p \in Procs, CloseOne(p)
  PROVE  ExportsInv'
<1> USE DEF ExportsInv, CloseOne, clocks, procs, command, disk, links, history
<1>1. Shape'
  <2>1. PICK x \in toClose[p] :
          /\ toClose' = [toClose EXCEPT ![p] = @ \ {x}] /\ linked' = linked \ {x}
          /\ file' = [file EXCEPT ![x] = IF x \in linked THEN FALSE ELSE @] /\ ex' = [ex EXCEPT ![x] = "gone"]
    OBVIOUS
  <2>2. x \in Exports
    BY DEF Shape
  <2>3. file' \in [Exports -> BOOLEAN]
    BY <2>1, <2>2 DEF Shape
  <2>4. toClose' \in [Procs -> SUBSET Exports]
    BY <2>1, <2>2 DEF Shape
  <2>5. ex' \in [Exports -> {"none", "preparing", "writing", "flushed", "finished", "gone"}] /\ linked' \subseteq Exports
    BY <2>1, <2>2 DEF Shape
  <2> QED
    BY <2>3, <2>4, <2>5 DEF Shape
<1>2. ASSUME NEW e \in Exports PROVE ExportInv(e)'
  <2>1. PICK x \in toClose[p] :
          /\ linked' = linked \ {x}
          /\ file' = [file EXCEPT ![x] = IF x \in linked THEN FALSE ELSE @] /\ ex' = [ex EXCEPT ![x] = "gone"]
    OBVIOUS
  <2>2. x \in Exports
    BY DEF Shape
  <2>3. CASE e = x
    <3>1. ex'[e] = "gone"
      BY <2>1, <2>2, <2>3 DEF Shape
    <3>2. InTimeOf(e)' /\ AgeOf(e)' /\ LinkOf(e)'
      BY <3>1 DEF InTimeOf, AgeOf, LinkOf, BeingWritten, Promised
    <3>3. StageOf(e)'
      <4>1. ex[e] \in {"finished", "gone"} /\ owner[e] \in Procs
        BY <2>2, <2>3 DEF ExportInv, StageOf
      <4> QED
        BY <3>1, <4>1 DEF StageOf, BeingWritten
    <3> QED
      BY <3>2, <3>3 DEF ExportInv
  <2>4. CASE e # x
    <3>1. ex'[e] = ex[e] /\ file'[e] = file[e] /\ (e \in linked' <=> e \in linked)
      <4>1. ex'[e] = ex[e]
        BY <2>1, <2>2, <2>4 DEF Shape
      <4>2. file'[e] = file[e]
        <5> DEFINE b == IF x \in linked THEN FALSE ELSE file[x]
        <5>1. file' = [file EXCEPT ![x] = b]
          BY <2>1
        <5> HIDE DEF b
        <5> QED
          BY <2>2, <2>4, <5>1, ZenonT(60) DEF Shape
      <4>3. e \in linked' <=> e \in linked
        BY <2>1, <2>4
      <4> QED
        BY <4>1, <4>2, <4>3
    <3> QED
      BY <3>1 DEF Shape, ExportInv, StageOf, InTimeOf, AgeOf, LinkOf, BeingWritten, Promised, Running
  <2> QED
    BY <2>3, <2>4
<1>3. ASSUME NEW t \in Sweepers PROVE SweepOf(t)'
  BY SMTT(30) DEF Shape, SweepRecords, SweepOf, Past, MayGo, Running, ExportInv, StageOf, InTimeOf, AgeOf, LinkOf, BeingWritten, Promised, Sweepers
<1>4. LostOnlySo'
  BY DEF Shape, LostOnlySo, BeingWritten, Promised, SweepOf, MayGo, Past, ExportInv, StageOf
<1> QED
  BY <1>1, <1>2, <1>3, <1>4

LEMMA StopKeeps ==
  ASSUME ExportsInv, NEW p \in Procs, Stop(p)
  PROVE  ExportsInv'
<1> USE DEF ExportsInv, Stop, Ends, LinksOf, NoSweep, clocks, procs, command, disk, links, history
<1>1. Shape'
  BY DEF Shape, SweepRecords, Sweepers
<1>2. ASSUME NEW e \in Exports PROVE ExportInv(e)'
  BY DEF Shape, SweepRecords, ExportInv, StageOf, InTimeOf, AgeOf, LinkOf, BeingWritten, Promised, Running, Past, SweepOf
<1>3. ASSUME NEW t \in Sweepers PROVE SweepOf(t)'
  BY SMTT(30) DEF Shape, SweepRecords, SweepOf, Past, MayGo, Running, ExportInv, StageOf, InTimeOf, AgeOf, LinkOf, BeingWritten, Promised, Sweepers
<1>4. LostOnlySo'
  BY DEF Shape, LostOnlySo, BeingWritten, Promised, SweepOf, MayGo, Past, ExportInv, StageOf
<1> QED
  BY <1>1, <1>2, <1>3, <1>4

LEMMA DieKeeps ==
  ASSUME ExportsInv, NEW p \in Procs, Die(p)
  PROVE  ExportsInv'
<1> USE DEF ExportsInv, Die, Ends, LinksOf, NoSweep, clocks, procs, command, disk, links, history
<1>1. Shape'
  BY DEF Shape, SweepRecords, Sweepers
<1>2. ASSUME NEW e \in Exports PROVE ExportInv(e)'
  BY DEF Shape, SweepRecords, ExportInv, StageOf, InTimeOf, AgeOf, LinkOf, BeingWritten, Promised, Running, Past, SweepOf
<1>3. ASSUME NEW t \in Sweepers PROVE SweepOf(t)'
  BY SMTT(30) DEF Shape, SweepRecords, SweepOf, Past, MayGo, Running, ExportInv, StageOf, InTimeOf, AgeOf, LinkOf, BeingWritten, Promised, Sweepers
<1>4. LostOnlySo'
  BY DEF Shape, LostOnlySo, BeingWritten, Promised, SweepOf, MayGo, Past, ExportInv, StageOf
<1> QED
  BY <1>1, <1>2, <1>3, <1>4

LEMMA TickKeeps ==
  ASSUME ExportsInv, Tick
  PROVE  ExportsInv'
<1> USE DEF ExportsInv, Tick, InTime, clocks, procs, command, disk, links, history
<1>1. Shape'
  BY DEF Shape, SweepRecords, Sweepers
<1>2. ASSUME NEW e \in Exports PROVE ExportInv(e)'
  BY DEF Shape, SweepRecords, ExportInv, StageOf, InTimeOf, AgeOf, LinkOf, BeingWritten, Promised, Running, Past, SweepOf
<1>3. ASSUME NEW t \in Sweepers PROVE SweepOf(t)'
  BY SMTT(30) DEF Shape, SweepRecords, SweepOf, Past, MayGo, Running, ExportInv, StageOf, InTimeOf, AgeOf, LinkOf, BeingWritten, Promised, Sweepers
<1>4. LostOnlySo'
  BY DEF Shape, LostOnlySo, BeingWritten, Promised, SweepOf, MayGo, Past, ExportInv, StageOf
<1> QED
  BY <1>1, <1>2, <1>3, <1>4

LEMMA JumpKeeps ==
  ASSUME ExportsInv, Jump
  PROVE  ExportsInv'
<1> USE DEF ExportsInv, Jump, clocks, procs, command, disk, links, history
<1>1. Shape'
  BY DEF Shape, SweepRecords, Sweepers
<1>2. ASSUME NEW e \in Exports PROVE ExportInv(e)'
  BY DEF Shape, SweepRecords, ExportInv, StageOf, InTimeOf, AgeOf, LinkOf, BeingWritten, Promised, Running, Past, SweepOf
<1>3. ASSUME NEW t \in Sweepers PROVE SweepOf(t)'
  BY SMTT(30) DEF Shape, SweepRecords, SweepOf, Past, MayGo, Running, ExportInv, StageOf, InTimeOf, AgeOf, LinkOf, BeingWritten, Promised, Sweepers
<1>4. LostOnlySo'
  BY DEF Shape, LostOnlySo, BeingWritten, Promised, SweepOf, MayGo, Past, ExportInv, StageOf
<1> QED
  BY <1>1, <1>2, <1>3, <1>4

LEMMA RestKeeps ==
  ASSUME ExportsInv, UNCHANGED vars
  PROVE  ExportsInv'
<1> USE DEF ExportsInv, vars, clocks, procs, command, disk, links, history
<1>1. Shape'
  BY DEF Shape, SweepRecords, Sweepers
<1>2. ASSUME NEW e \in Exports PROVE ExportInv(e)'
  BY DEF Shape, SweepRecords, ExportInv, StageOf, InTimeOf, AgeOf, LinkOf, BeingWritten, Promised, Running, Past, SweepOf
<1>3. ASSUME NEW t \in Sweepers PROVE SweepOf(t)'
  BY SMTT(30) DEF Shape, SweepRecords, SweepOf, Past, MayGo, Running, ExportInv, StageOf, InTimeOf, AgeOf, LinkOf, BeingWritten, Promised, Sweepers
<1>4. LostOnlySo'
  BY DEF Shape, LostOnlySo, BeingWritten, Promised, SweepOf, MayGo, Past, ExportInv, StageOf
<1> QED
  BY <1>1, <1>2, <1>3, <1>4

LEMMA ExportsGoOn == ExportsInv /\ [Next]_vars => ExportsInv'
<1> SUFFICES ASSUME ExportsInv, [Next]_vars PROVE ExportsInv'
  OBVIOUS
<1>1. ASSUME NEW s \in Sweepers, PeriodicSweep(s) \/ SweepStep(s) PROVE ExportsInv'
  BY <1>1, PeriodicSweepKeeps, ForgetKeeps, UnlinkKeeps, ListKeeps, JudgeKeeps, RemoveAllKeeps, SweepEndsKeeps DEF SweepStep
<1>2. ASSUME NEW p \in Procs, (\E e \in Exports : Begin(p, e)) \/ Close(p) \/ CloseOne(p) \/ Stop(p) \/ Die(p)
      PROVE  ExportsInv'
  BY <1>2, BeginKeeps, CloseKeeps, CloseOneKeeps, StopKeeps, DieKeeps
<1>3. ASSUME NEW e \in Exports, ExportStep(e) PROVE ExportsInv'
  BY <1>3, CreateKeeps, WriteBOMKeeps, WriteRecordKeeps, FlushKeeps, AbortKeeps, DoneKeeps, DoneFailsKeeps, DownloadKeeps DEF ExportStep
<1>4. CASE Tick \/ Jump \/ UNCHANGED vars
  BY <1>4, TickKeeps, JumpKeeps, RestKeeps
<1> QED
  BY <1>1, <1>2, <1>3, <1>4 DEF Next

-----------------------------------------------------------------------------
\* However many processes share the folder, a file being written or named by a
\* live link is lost only so (exports.go:69-76).
THEOREM FilesAreLostOnlySo == Spec => []LostOnlySo
<1>1. ExportsInv => LostOnlySo
  BY DEF ExportsInv
<1> QED
  BY <1>1, ExportsStart, ExportsGoOn, PTL DEF Spec

-----------------------------------------------------------------------------
\* Clocks that keep in step: no sweep is ahead of the wall clock.
Calm ==
  /\ jumps = 0 /\ \A e \in Exports : jumpedIn[e] = "nothing"
  /\ \A s \in Sweepers : sweep[s].now <= wall

LEMMA CalmStays ==
  ASSUME MaxJumps = 0, ExportsInv, Calm, [Next]_vars
  PROVE  Calm'
<1> USE DEF ExportsInv, Shape, Calm
<1>1. \A s \in Sweepers : sweep[s].now \in Nat
  BY DEF SweepRecords
<1>2. ASSUME NEW s \in Sweepers, PeriodicSweep(s) PROVE Calm'
  BY <1>2 DEF PeriodicSweep, SweepBegins, clocks, history
<1>3. ASSUME NEW s \in Sweepers, SweepStep(s) PROVE Calm'
  <2>1. \A t \in Sweepers : sweep'[t].now = sweep[t].now \/ sweep'[t].now = 0
    <3>1. CASE Forget(s)
      BY <3>1 DEF Forget, SweepRecords
    <3>2. CASE Judge(s)
      BY <3>2 DEF Judge, SweepRecords
    <3>3. CASE Unlink(s)
      BY <3>3 DEF Unlink, SweepRecords
    <3>4. CASE List(s)
      BY <3>4 DEF List, SweepRecords
    <3>5. CASE RemoveAll(s)
      BY <3>5 DEF RemoveAll, SweepRecords
    <3>6. CASE SweepEnds(s)
      BY <3>6 DEF SweepEnds, NoSweep
    <3> QED
      BY <1>3, <3>1, <3>2, <3>3, <3>4, <3>5, <3>6 DEF SweepStep
  <2>2. UNCHANGED <<wall, jumps, jumpedIn>>
    BY <1>3 DEF SweepStep, Forget, Unlink, List, Judge, RemoveAll, SweepEnds, clocks, history
  <2> QED
    BY <1>1, <2>1, <2>2
<1>4. ASSUME NEW p \in Procs, NEW x \in Exports, Begin(p, x) PROVE Calm'
  <2> DEFINE r == [at |-> "forget", now |-> wall, cur |-> NoOne, todo |-> {y \in LinksOf(p) : mono > until[y]}]
  <2>1. sweep' = sweep \/ sweep' = [sweep EXCEPT ![<<p, "first">>] = r]
    BY <1>4 DEF Begin, SweepBegins
  <2>2. r.now = wall
    OBVIOUS
  <2> HIDE DEF r
  <2>3. \A s \in Sweepers : sweep'[s].now <= wall
    BY <1>1, <2>1, <2>2, SMTT(30)
  <2> QED
    BY <1>4, <2>3 DEF Begin, clocks, history
<1>5. ASSUME NEW p \in Procs, Close(p) \/ CloseOne(p) PROVE Calm'
  <2>1. UNCHANGED <<wall, jumps, sweep, jumpedIn>>
    BY <1>5 DEF Close, CloseOne, clocks, history
  <2> QED
    BY <2>1
<1>6. ASSUME NEW p \in Procs, Stop(p) \/ Die(p) PROVE Calm'
  BY <1>1, <1>6 DEF Stop, Die, Ends, NoSweep, clocks, history
<1>7. ASSUME NEW e \in Exports, Create(e) PROVE Calm'
  <2>1. ~ \E s \in Sweepers : sweep[s].now > wall
    BY <1>1
  <2> QED
    BY <1>7, <2>1 DEF Create, clocks
<1>8. ASSUME NEW e \in Exports, ExportStep(e), ~Create(e) PROVE Calm'
  BY <1>8 DEF ExportStep, WriteBOM, WriteRecord, Flush, Abort, Done, DoneFails, Download, clocks, history
<1>9. CASE Tick
  BY <1>1, <1>9 DEF Tick, history
<1>10. CASE Jump
  BY <1>10 DEF Jump
<1>11. CASE UNCHANGED vars
  BY <1>11 DEF vars, clocks, history
<1> QED
  BY <1>2, <1>3, <1>4, <1>5, <1>6, <1>7, <1>8, <1>9, <1>10, <1>11 DEF Next

\* "the file of an export still being written is never that old"
\* (exports.go:75): with clocks that keep in step, no sweep of any process takes
\* one, a first export's sweep beside it included.
UnfinishedIsKept == \A e \in Exports : BeingWritten(e) => file[e]

\* Without a jump of the wall clock, however many processes sweep the folder, an
\* export keeps its file until it is finished (exports.go:69-76).
THEOREM CalmClocksKeepTheUnfinished ==
  ASSUME MaxJumps = 0
  PROVE  Spec => []UnfinishedIsKept
<1>1. Init => Calm
  BY DEF Init, Calm, NoSweep, Sweepers
<1>2. ExportsInv /\ Calm /\ [Next]_vars => Calm'
  BY CalmStays
<1>3. ExportsInv /\ Calm => UnfinishedIsKept
  BY DEF ExportsInv, Calm, UnfinishedIsKept, LostOnlySo, BeingWritten, Promised
<1> QED
  BY <1>1, <1>2, <1>3, ExportsStart, ExportsGoOn, PTL DEF Spec

-----------------------------------------------------------------------------
HIDE ExportsAssumption DEF Procs

(* The server's announcements. *)

Records == [checked : Times, failed : Times, skillsAt : Times, latest : Nat]
Places == {"idle", "look", "look_skills", "read", "open", "put", "apply", "end", "announce"}

Recording ==
  /\ cache \in Records \/ cache = Torn
  /\ hand \in [Actors -> Records] /\ found \in [Actors -> Nat] /\ pc \in [Actors -> Places]
  /\ rec \in [Actors -> {"none", "release", "failure", "skills"}]
  /\ released \in Nat /\ announced \in Nat /\ told \in SUBSET Nat /\ back \in BOOLEAN
  /\ \A p \in Actors : pc[p] \in {"read", "open", "put"} => rec[p] # "none"

\* Until the server has announced an older release after a newer one, the one
\* it announced last is the newest that it has.
LastIsNewest == ~back => \A v \in told : announced \in told /\ v <= announced

UpdatesInv == Recording /\ LastIsNewest

LEMMA NoCacheIs == NoCache \in Records
  BY DEF NoCache, Records, Times

LEMMA CacheIs ==
  ASSUME Recording
  PROVE  Cache \in Records /\ Cache.latest \in Nat
<1>1. Cache \in Records
  BY NoCacheIs DEF Recording, Cache
<1> QED
  BY <1>1 DEF Records

LEMMA ServeIs == Serve \in Actors
  BY DEF Actors

LEMMA UpdatesBegin ==
  ASSUME UpdatesInit
  PROVE  UpdatesInv
  BY NoCacheIs DEF UpdatesInit, UpdatesInv, Recording, LastIsNewest, Places

\* What a process ends as.
LEMMA AtRestKeeps ==
  ASSUME Recording, NEW p \in Actors, Rest(p)
  PROVE  /\ hand' \in [Actors -> Records] /\ found' \in [Actors -> Nat] /\ pc' \in [Actors -> Places]
         /\ rec' \in [Actors -> {"none", "release", "failure", "skills"}]
         /\ \A q \in Actors : pc'[q] \in {"read", "open", "put"} => rec'[q] # "none"
  BY NoCacheIs DEF Recording, Rest, Goto, Places

LEMMA ChangedIs ==
  ASSUME Recording, NEW p \in Actors, rec[p] # "none"
  PROVE  Changed(p) \in Records
<1>1. hand[p] \in Records /\ found[p] \in Nat /\ rec[p] \in {"release", "failure", "skills"}
  BY DEF Recording
<1> QED
  BY <1>1 DEF Changed, Records, Times

LEMMA RecordedKeeps ==
  ASSUME Recording, NEW p \in Actors, Recorded(p)
  PROVE  /\ hand' \in [Actors -> Records] /\ pc' \in [Actors -> Places]
         /\ rec' \in [Actors -> {"none", "release", "failure", "skills"}]
         /\ \A q \in Actors : pc'[q] \in {"read", "open", "put"} => rec'[q] # "none"
<1>1. After(p) \in {"announce", "look_skills", "apply", "end"}
  BY DEF After
<1> QED
  BY <1>1, NoCacheIs DEF Recording, Recorded, Goto, Places

\* Times that pass, or are moved, are times.
LEMMA TimesToKeeps ==
  ASSUME Recording, NEW now \in [Times -> Times], TimesTo(now)
  PROVE  cache' \in Records
<1>1. cache \in Records
  BY DEF Recording, TimesTo
<1> QED
  BY <1>1 DEF TimesTo, Records

LEMMA UpdatesKeep ==
  ASSUME UpdatesInv, [UpdatesNext]_updateVars
  PROVE  UpdatesInv'
<1>1. Recording /\ LastIsNewest
  BY DEF UpdatesInv
<1>2. CASE UNCHANGED updateVars
  BY <1>1, <1>2 DEF updateVars, world, server, UpdatesInv, Recording, LastIsNewest
<1>3. ASSUME NEW p \in Actors, NEW what, Starts(p, what) PROVE UpdatesInv'
  BY <1>1, <1>3 DEF Starts, Goto, world, server, UpdatesInv, Recording, LastIsNewest, Places
<1>4. ASSUME NEW p \in Actors, Look(p) \/ LookFails(p) \/ LookSkills(p) PROVE UpdatesInv'
  <2>1. CASE Look(p)
    BY <1>1, <2>1 DEF Look, ToRecord, Goto, world, server, UpdatesInv, Recording, LastIsNewest, Places
  <2>2. CASE LookFails(p)
    BY <1>1, <2>2 DEF LookFails, ToRecord, Goto, world, server, UpdatesInv, Recording, LastIsNewest, Places
  <2>3. CASE LookSkills(p)
    BY <1>1, <2>3 DEF LookSkills, ToRecord, Goto, world, server, UpdatesInv, Recording, LastIsNewest, Places
  <2> QED
    BY <1>4, <2>1, <2>2, <2>3
<1>5. ASSUME NEW p \in Actors, Read(p) PROVE UpdatesInv'
  BY <1>1, <1>5, CacheIs DEF Read, Goto, world, server, UpdatesInv, Recording, LastIsNewest, Places
<1>6. ASSUME NEW p \in Actors, Truncate(p) PROVE UpdatesInv'
  BY <1>1, <1>6 DEF Truncate, Goto, world, server, UpdatesInv, Recording, LastIsNewest, Places
<1>7. ASSUME NEW p \in Actors, Put(p) PROVE UpdatesInv'
  <2>1. cache' \in Records
    BY <1>1, <1>7, ChangedIs DEF Put, Recording
  <2>2. Recorded(p)
    BY <1>7 DEF Put
  <2> QED
    BY <1>1, <1>7, <2>1, <2>2, RecordedKeeps DEF Put, world, server, UpdatesInv, Recording, LastIsNewest
<1>8. ASSUME NEW p \in Actors, WriteFails(p) PROVE UpdatesInv'
  <2>1. Recorded(p)
    BY <1>8 DEF WriteFails
  <2> QED
    BY <1>1, <1>8, <2>1, RecordedKeeps DEF WriteFails, world, server, UpdatesInv, Recording, LastIsNewest
<1>9. ASSUME NEW p \in Actors, Apply(p) \/ NotApplied(p) PROVE UpdatesInv'
  BY <1>1, <1>9 DEF Apply, NotApplied, Goto, world, server, UpdatesInv, Recording, LastIsNewest, Places
<1>10. ASSUME NEW p \in Actors, End(p) \/ Kill(p) PROVE UpdatesInv'
  <2>1. Rest(p)
    BY <1>10 DEF End, Kill
  <2>2. UNCHANGED <<cache, world, server>>
    BY <1>10 DEF End, Kill
  <2> QED
    BY <1>1, <2>1, <2>2, AtRestKeeps DEF world, server, UpdatesInv, Recording, LastIsNewest
<1>11. CASE Check
  BY <1>1, <1>11, CacheIs, ServeIs DEF Check, Goto, world, server, UpdatesInv, Recording, LastIsNewest, Places
<1>12. CASE Announce
  <2>1. Rest(Serve) /\ UNCHANGED <<cache, world>> /\ found[Serve] \in Nat
    BY <1>1, <1>12, ServeIs DEF Announce, Recording
  <2>2. CASE News(found[Serve])
    <3>1. announced' = found[Serve] /\ told' = told \cup {found[Serve]} /\ back' = (back \/ \E v \in told : found[Serve] < v)
      BY <1>12, <2>2 DEF Announce
    <3>2. back' \in BOOLEAN /\ announced' \in Nat /\ told' \in SUBSET Nat
      BY <1>1, <2>1, <3>1 DEF Recording
    <3>3. LastIsNewest'
      <4> SUFFICES ASSUME ~back', NEW v \in told' PROVE announced' \in told' /\ v <= announced'
        BY DEF LastIsNewest
      <4>1. v \in Nat /\ (v \in told => ~(found[Serve] < v))
        BY <1>1, <2>1, <3>1 DEF Recording
      <4> QED
        BY <2>1, <3>1, <4>1
    <3> QED
      BY <1>1, <2>1, <3>2, <3>3, ServeIs, AtRestKeeps DEF world, UpdatesInv, Recording
  <2>3. CASE ~News(found[Serve])
    <3>1. UNCHANGED <<announced, told, back>>
      BY <1>12, <2>3 DEF Announce, server
    <3> QED
      BY <1>1, <2>1, <3>1, ServeIs, AtRestKeeps DEF world, UpdatesInv, Recording, LastIsNewest
  <2> QED
    BY <2>2, <2>3
<1>13. CASE Release \/ Withdraw
  <2>1. released \in Nat
    BY <1>1 DEF Recording
  <2>2. released' \in Nat
    BY <1>13, <2>1 DEF Release, Withdraw
  <2>3. UNCHANGED <<cache, pc, rec, hand, found, announced, told, back>>
    BY <1>13 DEF Release, Withdraw, Moves, server
  <2> QED
    BY <1>1, <2>2, <2>3 DEF UpdatesInv, Recording, LastIsNewest
<1>14. CASE Passes \/ MoveBack
  <2>1. cache' \in Records
    <3>1. Aged \in [Times -> Times] /\ Ahead \in [Times -> Times] /\ Caught \in [Times -> Times]
      BY DEF Aged, Ahead, Caught, Times
    <3>2. CASE TenMinutes
      BY <1>1, <3>2 DEF TenMinutes, Recording, Records, Times
    <3> QED
      BY <1>1, <1>14, <3>1, <3>2, TimesToKeeps DEF Passes, Hour, CatchUp, MoveBack
  <2>2. UNCHANGED <<world, pc, rec, hand, found, server>>
    BY <1>14 DEF Passes, Hour, TenMinutes, CatchUp, MoveBack, TimesTo
  <2> QED
    BY <1>1, <2>1, <2>2 DEF world, server, UpdatesInv, Recording, LastIsNewest
<1> QED
  BY <1>2, <1>3, <1>4, <1>5, <1>6, <1>7, <1>8, <1>9, <1>10, <1>11, <1>12, <1>13, <1>14
  DEF UpdatesNext, Goes, SpawnCheck, AutoUpdate, Update, Actors

LEMMA AnnouncesOnce ==
  ASSUME UpdatesInv, NEW v \in told, Announce, found[Serve] = v, News(v)
  PROVE  back \/ \E w \in told : v < w
<1>1. v # announced /\ v \in Nat /\ announced \in Nat
  BY DEF News, UpdatesInv, Recording
<1> QED
  BY <1>1 DEF UpdatesInv, LastIsNewest

-----------------------------------------------------------------------------
(* The notice after a command. *)

Noticing ==
  /\ doing \in [Users -> {"none", "mark", "record"}] /\ printed \in BOOLEAN /\ undone \in BOOLEAN
  /\ agents = NotWhole \/ agents \in [recorded : BOOLEAN, noticed : BOOLEAN]
  /\ read \in [Users -> [recorded : BOOLEAN, noticed : BOOLEAN]]

\* Once it has printed, and while nothing lost the mark that it did, the mark is
\* in the file and no command is about to print it again.
MarkedOnce ==
  printed /\ ~undone => /\ \A u \in Users : doing[u] # "mark"
                        /\ agents # NotWhole => agents.noticed

NoticesInv == Noticing /\ MarkedOnce

LEMMA StateIs ==
  ASSUME Noticing
  PROVE  State \in [recorded : BOOLEAN, noticed : BOOLEAN]
  BY DEF Noticing, State, NoState

LEMMA NoticesBegin ==
  ASSUME NoticesInit
  PROVE  NoticesInv
  BY DEF NoticesInit, NoticesInv, Noticing, MarkedOnce, NoState

LEMMA NewStateIs ==
  ASSUME Noticing, NEW u \in Users
  PROVE  /\ NewState(u) \in [recorded : BOOLEAN, noticed : BOOLEAN]
         /\ NewState(u).noticed = (Prints(u) \/ read[u].noticed)
<1>1. read[u] \in [recorded : BOOLEAN, noticed : BOOLEAN]
  BY DEF Noticing
<1>2. CASE Prints(u)
  BY <1>1, <1>2 DEF NewState, Prints
<1>3. CASE ~Prints(u)
  BY <1>1, <1>3 DEF NewState, Prints
<1> QED
  BY <1>2, <1>3

LEMMA NoticesKeep ==
  ASSUME NoticesInv, RecordsNext \/ UNCHANGED fileVars
  PROVE  NoticesInv'
<1>1. Noticing /\ MarkedOnce
  BY DEF NoticesInv
<1>2. CASE UNCHANGED fileVars
  BY <1>1, <1>2 DEF fileVars, NoticesInv, Noticing, MarkedOnce
<1>3. ASSUME NEW u \in Users, Command(u) PROVE NoticesInv'
  <2>1. doing' = [doing EXCEPT ![u] = "mark"] /\ undone' = (undone \/ agents = NotWhole) /\ UNCHANGED <<agents, read, printed>> /\ ~State.noticed
    BY <1>3 DEF Command, Due
  <2>2. Noticing'
    BY <1>1, <2>1 DEF Noticing
  <2>3. ~(printed' /\ ~undone')
    BY <1>1, <2>1 DEF MarkedOnce, State, Noticing
  <2> QED
    BY <2>2, <2>3 DEF NoticesInv, MarkedOnce
<1>4. ASSUME NEW u \in Users, Record(u) PROVE NoticesInv'
  BY <1>1, <1>4 DEF Record, NoticesInv, Noticing, MarkedOnce
<1>5. ASSUME NEW u \in Users, ReadState(u) PROVE NoticesInv'
  BY <1>1, <1>5, StateIs DEF ReadState, NoticesInv, Noticing, MarkedOnce
<1>6. ASSUME NEW u \in Users, TruncateState(u) PROVE NoticesInv'
  BY <1>1, <1>6 DEF TruncateState, NoticesInv, Noticing, MarkedOnce
<1>7. ASSUME NEW u \in Users, Over(u) PROVE /\ doing' \in [Users -> {"none", "mark", "record"}]
                                            /\ read' \in [Users -> [recorded : BOOLEAN, noticed : BOOLEAN]]
                                            /\ \A w \in Users : doing'[w] = "mark" => doing[w] = "mark" /\ w # u
  BY <1>1, <1>7 DEF Over, Noticing, NoState
<1>8. ASSUME NEW u \in Users, WriteState(u) PROVE NoticesInv'
  <2>1. /\ agents' = NewState(u) /\ printed' = (printed \/ Prints(u)) /\ Over(u)
        /\ undone' = IF Prints(u) THEN OthersMark(u) ELSE undone \/ (printed /\ ~read[u].noticed)
    BY <1>8 DEF WriteState
  <2>2. undone' \in BOOLEAN /\ printed' \in BOOLEAN
    BY <1>1, <2>1 DEF Noticing, OthersMark, Prints
  <2>3. Noticing'
    BY <1>1, <1>7, <2>1, <2>2, NewStateIs DEF Noticing
  <2>4. ASSUME printed', ~undone' PROVE agents'.noticed /\ \A w \in Users : doing'[w] # "mark"
    <3>1. CASE Prints(u)
      <4>1. ~OthersMark(u)
        BY <2>1, <2>4, <3>1
      <4> QED
        BY <1>1, <1>7, <2>1, <3>1, <4>1, NewStateIs DEF OthersMark
    <3>2. CASE ~Prints(u)
      <4>1. printed /\ ~undone /\ read[u].noticed
        BY <2>1, <2>4, <3>2
      <4> QED
        BY <1>1, <1>7, <2>1, <4>1, NewStateIs DEF MarkedOnce
    <3> QED
      BY <3>1, <3>2
  <2> QED
    BY <2>3, <2>4 DEF NoticesInv, MarkedOnce
<1>9. ASSUME NEW u \in Users, StateUnwritten(u) PROVE NoticesInv'
  <2>1. /\ agents' = agents /\ printed' = (printed \/ Prints(u)) /\ Over(u)
        /\ undone' = (undone \/ Prints(u))
    BY <1>9 DEF StateUnwritten
  <2>2. undone' \in BOOLEAN /\ printed' \in BOOLEAN
    BY <1>1, <2>1 DEF Noticing, Prints
  <2>3. Noticing'
    BY <1>1, <1>7, <2>1, <2>2 DEF Noticing
  <2>4. MarkedOnce'
    BY <1>1, <1>7, <2>1 DEF MarkedOnce
  <2> QED
    BY <2>3, <2>4 DEF NoticesInv
<1>10. ASSUME NEW u \in Users, KillUser(u) PROVE NoticesInv'
  <2>1. UNCHANGED <<agents, printed, undone>> /\ Over(u)
    BY <1>10 DEF KillUser
  <2> QED
    BY <1>1, <1>7, <2>1 DEF NoticesInv, Noticing, MarkedOnce
<1>11. CASE Day
  BY <1>1, <1>11 DEF Day, NoticesInv, Noticing, MarkedOnce
<1> QED
  BY <1>2, <1>3, <1>4, <1>5, <1>6, <1>8, <1>9, <1>10, <1>11 DEF RecordsNext

LEMMA NoticesDaily ==
  ASSUME NoticesInv, NEW u \in Users, WriteState(u) \/ StateUnwritten(u), Prints(u)
  PROVE  ~printed \/ undone
  BY DEF NoticesInv, MarkedOnce, Prints

-----------------------------------------------------------------------------
(* The anfra block of AGENTS.md. *)

LEMMA LeastIs ==
  ASSUME NEW S \in SUBSET Nat, S # {}
  PROVE  Min(S) \in S /\ \A n \in S : Min(S) <= n
<1> DEFINE Below == {pair \in Nat \X Nat : pair[1] < pair[2]}
<1>1. OpToRel(<, Nat) = Below
  BY Zenon DEF OpToRel
<1>2. IsWellFoundedOn(Below, Nat)
  BY <1>1, NatLessThanWellFounded, Zenon
<1>3. PICK m \in S : \A n \in S : ~(<<n, m>> \in Below)
  BY <1>2, WFMin
<1>4. \A n \in S : m <= n
  <2> TAKE n \in S
  <2>1. m \in Nat /\ n \in Nat /\ ~(<<n, m>> \in Below)
    BY <1>3
  <2>2. ~(n < m)
    BY <2>1
  <2> QED
    BY <2>1, <2>2
<1> QED
  BY <1>4 DEF Min

\* Where the block is: from its first begin to the next end.
Found(lines, f, l) ==
  /\ f \in 1 .. Len(lines) /\ l \in 1 .. Len(lines) /\ f < l
  /\ lines[f] = "begin" /\ lines[l] = "end"
  /\ \A i \in 1 .. f - 1 : lines[i] # "begin"
  /\ \A i \in f + 1 .. l - 1 : lines[i] # "end"
NotFound(lines) == \A i, j \in 1 .. Len(lines) : lines[i] = "begin" /\ lines[j] = "end" => ~(i < j)

LEMMA CurrentIs ==
  ASSUME NEW lines \in Seq(Lines)
  PROVE  \/ Current(lines) = <<>> /\ NotFound(lines)
         \/ \E f, l \in 1 .. Len(lines) : Current(lines) = <<f, l>> /\ Found(lines, f, l)
<1> DEFINE begins == At("begin", lines)
           ends == {j \in At("end", lines) : \E i \in begins : i < j}
           first == Min(begins)
           after == {j \in At("end", lines) : first < j}
           last == Min(after)
<1>1. DOMAIN lines = 1 .. Len(lines) /\ Len(lines) \in Nat
  OBVIOUS
<1>2. CASE ends = {}
  <2>1. Current(lines) = <<>>
    BY <1>2 DEF Current
  <2>2. NotFound(lines)
    BY <1>1, <1>2 DEF NotFound, At
  <2> QED
    BY <2>1, <2>2
<1>3. CASE ends # {}
  <2>1. Current(lines) = <<first, last>>
    BY <1>3 DEF Current
  <2>2. begins \in SUBSET Nat /\ begins # {} /\ after \in SUBSET Nat
    BY <1>1, <1>3 DEF At
  <2>3. first \in begins /\ \A i \in begins : first <= i
    BY <2>2, LeastIs
  <2>4. after # {}
    <3>1. PICK j \in At("end", lines) : \E i \in begins : i < j
      BY <1>3
    <3>2. PICK i \in begins : i < j
      BY <3>1
    <3>3. first \in Nat /\ i \in Nat /\ j \in Nat /\ first <= i
      BY <1>1, <2>2, <2>3 DEF At
    <3> QED
      BY <3>1, <3>2, <3>3
  <2> HIDE DEF first, ends
  <2>5. last \in after /\ \A j \in after : last <= j
    BY <2>2, <2>4, LeastIs
  <2> HIDE DEF last
  <2>6. first \in 1 .. Len(lines) /\ last \in 1 .. Len(lines) /\ first < last /\ lines[first] = "begin" /\ lines[last] = "end"
    BY <1>1, <2>3, <2>5 DEF At
  <2>7. \A i \in 1 .. first - 1 : lines[i] # "begin"
    BY <1>1, <2>3, <2>6 DEF At
  <2>8. \A i \in first + 1 .. last - 1 : lines[i] # "end"
    BY <1>1, <2>5, <2>6 DEF At
  <2>9. Found(lines, first, last)
    BY <2>6, <2>7, <2>8 DEF Found
  <2> QED
    BY <2>1, <2>6, <2>9
<1> QED
  BY <1>2, <1>3

\* What putting the block from f to l makes of the lines.
Replaced(lines, new, f, l) ==
  /\ f \in 1 .. Len(lines) + 1 /\ l \in f - 1 .. Len(lines)
  /\ new \in Seq(Lines) /\ Len(new) = Len(lines) + (f + 2 - l)
  /\ \A i \in 1 .. f - 1 : new[i] = lines[i]
  /\ new[f] = "begin" /\ new[f + 1] = "text" /\ new[f + 2] = "end"
  /\ \A i \in l + 1 .. Len(lines) : new[i + (f + 2 - l)] = lines[i]

LEMMA BlockIs == Block \in Seq(Lines) /\ Len(Block) = 3 /\ Block[1] = "begin" /\ Block[2] = "text" /\ Block[3] = "end"
  BY DEF Block, Lines

\* What two sequences of lines make, one after the other.
LEMMA JoinedIs ==
  ASSUME NEW one \in Seq(Lines), NEW two \in Seq(Lines)
  PROVE  /\ one \o two \in Seq(Lines) /\ Len(one \o two) = Len(one) + Len(two)
         /\ \A i \in 1 .. Len(one) : (one \o two)[i] = one[i]
         /\ \A i \in 1 .. Len(two) : (one \o two)[i + Len(one)] = two[i]
<1> DEFINE all == one \o two
<1>1. /\ all \in Seq(Lines) /\ Len(all) = Len(one) + Len(two)
      /\ \A i \in 1 .. Len(one) + Len(two) : all[i] = IF i <= Len(one) THEN one[i] ELSE two[i - Len(one)]
  BY ConcatProperties
<1>2. Len(one) \in Nat /\ Len(two) \in Nat
  OBVIOUS
<1> HIDE DEF all
<1>3. \A i \in 1 .. Len(one) : all[i] = one[i]
  BY <1>1, <1>2
<1>4. ASSUME NEW i \in 1 .. Len(two) PROVE all[i + Len(one)] = two[i]
  <2>1. i + Len(one) \in 1 .. Len(one) + Len(two) /\ ~(i + Len(one) <= Len(one)) /\ (i + Len(one)) - Len(one) = i
    BY <1>2
  <2> QED
    BY <1>1, <2>1
<1> QED
  BY <1>1, <1>3, <1>4 DEF all

LEMMA AppendedIs ==
  ASSUME NEW lines \in Seq(Lines)
  PROVE  Replaced(lines, lines \o Block, Len(lines) + 1, Len(lines))
<1> DEFINE new == lines \o Block
<1>1. Len(lines) \in Nat
  OBVIOUS
<1>2. /\ new \in Seq(Lines) /\ Len(new) = Len(lines) + 3
      /\ \A i \in 1 .. Len(lines) : new[i] = lines[i]
      /\ \A i \in 1 .. 3 : new[i + Len(lines)] = Block[i]
  <2>1. /\ new \in Seq(Lines) /\ Len(new) = Len(lines) + Len(Block)
        /\ \A i \in 1 .. Len(lines) : new[i] = lines[i]
        /\ \A i \in 1 .. Len(Block) : new[i + Len(lines)] = Block[i]
    BY BlockIs, JoinedIs
  <2> HIDE DEF new
  <2> QED
    BY <2>1, BlockIs
<1> HIDE DEF new
<1>3. new[Len(lines) + 1] = "begin" /\ new[Len(lines) + 2] = "text" /\ new[Len(lines) + 3] = "end"
  <2>1. new[1 + Len(lines)] = "begin" /\ new[2 + Len(lines)] = "text" /\ new[3 + Len(lines)] = "end"
    BY <1>2, BlockIs
  <2> QED
    BY <1>1, <2>1
<1>4. Replaced(lines, new, Len(lines) + 1, Len(lines))
  BY <1>1, <1>2, <1>3 DEF Replaced
<1> QED
  BY <1>4 DEF new

LEMMA ReplacedIs ==
  ASSUME NEW lines \in Seq(Lines), NEW f \in 1 .. Len(lines), NEW l \in 1 .. Len(lines), f < l
  PROVE  Replaced(lines, SubSeq(lines, 1, f - 1) \o Block \o SubSeq(lines, l + 1, Len(lines)), f, l)
<1> DEFINE head == SubSeq(lines, 1, f - 1)
           rest == SubSeq(lines, l + 1, Len(lines))
           new == head \o Block \o rest
           n == Len(lines)
<1>1. n \in Nat /\ f \in Nat /\ l \in Nat
  OBVIOUS
<1>2. head \in Seq(Lines) /\ Len(head) = f - 1 /\ \A i \in 1 .. f - 1 : head[i] = lines[i]
  BY SubSeqProperties
<1>3. rest \in Seq(Lines) /\ Len(rest) = n - l /\ \A i \in 1 .. n - l : rest[i] = lines[l + i]
  <2>1. rest \in Seq(Lines) /\ Len(rest) = n - l
    BY SubSeqProperties
  <2>2. ASSUME NEW i \in 1 .. n - l PROVE rest[i] = lines[l + i]
    BY <2>2, SubSeqProperties
  <2> QED
    BY <2>1, <2>2
<1> HIDE DEF head, rest, n
<1> DEFINE both == head \o Block
<1>4. /\ both \in Seq(Lines) /\ Len(both) = f + 2
      /\ \A i \in 1 .. f - 1 : both[i] = head[i]
      /\ \A i \in 1 .. 3 : both[i + (f - 1)] = Block[i]
  <2>1. /\ both \in Seq(Lines) /\ Len(both) = Len(head) + Len(Block)
        /\ \A i \in 1 .. Len(head) : both[i] = head[i]
        /\ \A i \in 1 .. Len(Block) : both[i + Len(head)] = Block[i]
    BY <1>2, BlockIs, JoinedIs
  <2> QED
    BY <1>1, <1>2, <2>1, BlockIs
<1>5. both[f] = "begin" /\ both[f + 1] = "text" /\ both[f + 2] = "end"
  <2>1. both[1 + (f - 1)] = Block[1] /\ both[2 + (f - 1)] = Block[2] /\ both[3 + (f - 1)] = Block[3]
    <3>1. \A i \in 1 .. 3 : both[i + (f - 1)] = Block[i]
      BY <1>4
    <3>2. 1 \in 1 .. 3 /\ 2 \in 1 .. 3 /\ 3 \in 1 .. 3
      OBVIOUS
    <3> QED
      BY <3>1, <3>2, Zenon
  <2>2. 1 + (f - 1) = f /\ 2 + (f - 1) = f + 1 /\ 3 + (f - 1) = f + 2
    BY <1>1
  <2> QED
    BY <2>1, <2>2, BlockIs
<1> HIDE DEF both
<1>6. /\ both \o rest \in Seq(Lines) /\ Len(both \o rest) = (f + 2) + (n - l)
      /\ \A i \in 1 .. f + 2 : (both \o rest)[i] = both[i]
      /\ \A i \in 1 .. n - l : (both \o rest)[i + (f + 2)] = rest[i]
  <2>1. /\ both \o rest \in Seq(Lines) /\ Len(both \o rest) = Len(both) + Len(rest)
        /\ \A i \in 1 .. Len(both) : (both \o rest)[i] = both[i]
        /\ \A i \in 1 .. Len(rest) : (both \o rest)[i + Len(both)] = rest[i]
    BY <1>3, <1>4, JoinedIs
  <2> QED
    BY <1>3, <1>4, <2>1
<1>7. new = both \o rest
  BY DEF both
<1> HIDE DEF new
<1>8. \A i \in 1 .. f - 1 : new[i] = lines[i]
  BY <1>1, <1>2, <1>4, <1>6, <1>7
<1>9. new[f] = "begin" /\ new[f + 1] = "text" /\ new[f + 2] = "end"
  <2>1. f \in 1 .. f + 2 /\ f + 1 \in 1 .. f + 2 /\ f + 2 \in 1 .. f + 2
    BY <1>1
  <2>2. \A i \in 1 .. f + 2 : new[i] = both[i]
    BY <1>6, <1>7
  <2> QED
    BY <1>5, <2>1, <2>2
<1>10. ASSUME NEW i \in l + 1 .. n PROVE new[i + (f + 2 - l)] = lines[i]
  <2>1. i - l \in 1 .. n - l /\ (i - l) + (f + 2) = i + (f + 2 - l) /\ l + (i - l) = i
    BY <1>1
  <2>2. new[(i - l) + (f + 2)] = rest[i - l] /\ rest[i - l] = lines[l + (i - l)]
    BY <1>3, <1>6, <1>7, <2>1
  <2> QED
    BY <2>1, <2>2
<1>11. Replaced(lines, new, f, l)
  <2>1. f \in 1 .. n + 1 /\ l \in f - 1 .. n
    BY <1>1 DEF n
  <2>2. Len(new) = n + (f + 2 - l)
    BY <1>1, <1>6, <1>7
  <2> QED
    BY <1>6, <1>7, <1>8, <1>9, <1>10, <2>1, <2>2 DEF Replaced, n
<1> QED
  BY <1>11 DEF new, head, rest, n

\* Setup replaces the block it finds, or adds one.
LEMMA WithBlockIs ==
  ASSUME NEW lines \in Seq(Lines)
  PROVE  \/ NotFound(lines) /\ Replaced(lines, WithBlock(lines), Len(lines) + 1, Len(lines))
         \/ \E f, l \in 1 .. Len(lines) : Found(lines, f, l) /\ Replaced(lines, WithBlock(lines), f, l)
<1>1. CASE Current(lines) = <<>> /\ NotFound(lines)
  <2>1. WithBlock(lines) = lines \o Block
    BY <1>1 DEF WithBlock
  <2> QED
    BY <1>1, <2>1, AppendedIs
<1>2. ASSUME NEW f \in 1 .. Len(lines), NEW l \in 1 .. Len(lines), Current(lines) = <<f, l>>, Found(lines, f, l)
      PROVE  Replaced(lines, WithBlock(lines), f, l)
  <2>1. Current(lines) # <<>> /\ Current(lines)[1] = f /\ Current(lines)[2] = l
    BY <1>2
  <2>2. WithBlock(lines) = SubSeq(lines, 1, f - 1) \o Block \o SubSeq(lines, l + 1, Len(lines))
    BY <2>1 DEF WithBlock
  <2>3. f < l
    BY <1>2 DEF Found
  <2> QED
    BY <2>2, <2>3, ReplacedIs
<1> QED
  BY <1>1, <1>2, CurrentIs

-----------------------------------------------------------------------------
(* What setup leaves is up-to-date. *)

LEMMA UpToDate ==
  ASSUME NEW lines \in Seq(Lines), NEW new, NEW f \in Nat, NEW l \in Nat,
         Replaced(lines, new, f, l), \A i \in 1 .. f - 1 : lines[i] # "begin"
  PROVE  BlockState(new) = "up-to-date"
<1>1. /\ new \in Seq(Lines) /\ Len(new) \in Nat /\ f \in 1 .. Len(new) /\ f + 2 \in 1 .. Len(new)
      /\ new[f] = "begin" /\ new[f + 1] = "text" /\ new[f + 2] = "end"
      /\ \A i \in 1 .. f - 1 : new[i] # "begin"
  <2>1. Len(lines) \in Nat
    OBVIOUS
  <2>2. new \in Seq(Lines) /\ Len(new) = Len(lines) + (f + 2 - l) /\ l \in f - 1 .. Len(lines) /\ f \in 1 .. Len(lines) + 1
    BY DEF Replaced
  <2>3. Len(new) \in Nat
    BY <2>2
  <2>4. f \in 1 .. Len(new) /\ f + 2 \in 1 .. Len(new)
    BY <2>1, <2>2, <2>3
  <2>5. new[f] = "begin" /\ new[f + 1] = "text" /\ new[f + 2] = "end" /\ \A i \in 1 .. f - 1 : new[i] = lines[i]
    BY DEF Replaced
  <2> QED
    BY <2>2, <2>3, <2>4, <2>5
<1>2. ~NotFound(new)
  <2>1. f < f + 2
    OBVIOUS
  <2> QED
    BY <1>1, <2>1 DEF NotFound
<1>3. PICK first, last \in 1 .. Len(new) : Current(new) = <<first, last>> /\ Found(new, first, last)
  BY <1>1, <1>2, CurrentIs
<1>4. first = f /\ last = f + 2
  <2>1. ~(first < f) /\ ~(f < first)
    BY <1>1, <1>3 DEF Found
  <2>2. first = f
    BY <1>1, <1>3, <2>1
  <2>3. ~(f + 2 < last)
    BY <1>1, <1>3, <2>2 DEF Found
  <2>4. last # f + 1
    BY <1>1, <1>3 DEF Found
  <2>5. f < last
    BY <1>3, <2>2 DEF Found
  <2> QED
    BY <1>1, <1>3, <2>2, <2>3, <2>4, <2>5
<1> DEFINE own == SubSeq(new, f, f + 2)
<1>5. own = Block
  <2>1. f \in Int /\ f + 2 \in Int /\ \A i \in f .. f + 2 : new[i] \in Lines
    BY <1>1
  <2>2. own \in Seq(Lines) /\ Len(own) = 3 /\ \A i \in 1 .. 3 : own[i] = new[f + i - 1]
    <3>1. /\ own \in Seq(Lines) /\ Len(own) = IF f <= f + 2 THEN f + 2 - f + 1 ELSE 0
          /\ \A i \in 1 .. f + 2 - f + 1 : own[i] = new[f + i - 1]
      BY <2>1, SubSeqProperties
    <3>2. f + 2 - f + 1 = 3 /\ f <= f + 2
      OBVIOUS
    <3> HIDE DEF own
    <3> QED
      BY <3>1, <3>2
  <2> HIDE DEF own
  <2>3. own[1] = "begin" /\ own[2] = "text" /\ own[3] = "end"
    <3>1. f + 1 - 1 = f /\ f + 2 - 1 = f + 1 /\ f + 3 - 1 = f + 2
      OBVIOUS
    <3>2. own[1] = new[f + 1 - 1] /\ own[2] = new[f + 2 - 1] /\ own[3] = new[f + 3 - 1]
      BY <2>2
    <3> QED
      BY <1>1, <3>1, <3>2
  <2>4. \A i \in 1 .. 3 : i = 1 \/ i = 2 \/ i = 3
    OBVIOUS
  <2>5. \A i \in 1 .. Len(own) : own[i] = Block[i]
    BY <2>2, <2>3, <2>4, BlockIs
  <2> QED
    BY <2>2, <2>5, BlockIs, SeqEqual
<1>6. Current(new) # <<>> /\ Current(new)[1] = f /\ Current(new)[2] = f + 2
  BY <1>3, <1>4
<1> QED
  BY <1>5, <1>6 DEF BlockState

LEMMA SetupLeavesIt ==
  ASSUME NEW lines \in Seq(Lines)
  PROVE  BlockState(WithBlock(lines)) = "up-to-date" \/ Unclosed(WithBlock(lines))
<1> DEFINE new == WithBlock(lines)
           n == Len(lines)
<1>0. n \in Nat
  OBVIOUS
<1>1. ASSUME NEW f \in 1 .. n, NEW l \in 1 .. n, Found(lines, f, l), Replaced(lines, new, f, l)
      PROVE  BlockState(new) = "up-to-date"
  <2>1. f \in Nat /\ l \in Nat /\ \A i \in 1 .. f - 1 : lines[i] # "begin"
    BY <1>1 DEF Found
  <2> HIDE DEF new
  <2> QED
    BY <1>1, <2>1, UpToDate
<1>2. ASSUME NotFound(lines), Replaced(lines, new, n + 1, n)
      PROVE  BlockState(new) = "up-to-date" \/ Unclosed(new)
  <2> HIDE DEF new
  <2>1. CASE \A i \in 1 .. n + 1 - 1 : lines[i] # "begin"
    <3>1. n + 1 \in Nat
      BY <1>0
    <3> QED
      BY <1>0, <1>2, <2>1, <3>1, UpToDate
  <2>2. ASSUME NEW i \in 1 .. n + 1 - 1, lines[i] = "begin" PROVE Unclosed(new)
    <3>1. /\ new \in Seq(Lines) /\ Len(new) = n + (n + 1 + 2 - n) /\ new[n + 1] = "begin"
          /\ \A j \in 1 .. n + 1 - 1 : new[j] = lines[j]
      BY <1>2 DEF Replaced
    <3>2. Len(new) = n + 3 /\ DOMAIN new = 1 .. Len(new)
      BY <1>0, <3>1
    <3>3. i \in At("begin", new) /\ n + 1 \in At("begin", new) /\ i < n + 1
      BY <1>0, <2>2, <3>1, <3>2 DEF At
    <3>4. ~\E e \in At("end", new) : i < e /\ e < n + 1
      <4> SUFFICES ASSUME NEW e \in 1 .. n + 3, new[e] = "end", i < e, e < n + 1 PROVE FALSE
        BY <3>2 DEF At
      <4>1. e \in 1 .. n /\ i \in 1 .. n
        BY <1>0
      <4>2. lines[e] = "end"
        BY <3>1, <4>1
      <4> QED
        BY <1>2, <2>2, <4>1, <4>2 DEF NotFound
    <3> QED
      BY <3>3, <3>4 DEF Unclosed
  <2> QED
    BY <2>1, <2>2
<1> QED
  BY <1>1, <1>2, WithBlockIs

-----------------------------------------------------------------------------
(* The rest of the file stays. *)

\* A begin and the end next after it.
IsBlock(lines, x, y) ==
  /\ x \in 1 .. Len(lines) /\ y \in 1 .. Len(lines) /\ x < y
  /\ lines[x] = "begin" /\ lines[y] = "end"
  /\ \A i \in x + 1 .. y - 1 : lines[i] # "begin" /\ lines[i] # "end"

LEMMA OutsideIs ==
  ASSUME NEW lines \in Seq(Lines)
  PROVE  /\ Outside(lines) \subseteq 1 .. Len(lines)
         /\ \A i \in 1 .. Len(lines) :
              i \in Outside(lines) <=> \A x, y \in 1 .. Len(lines) : IsBlock(lines, x, y) => ~(x <= i /\ i <= y)
<1>1. DOMAIN lines = 1 .. Len(lines) /\ Len(lines) \in Nat
  OBVIOUS
<1>2. Outside(lines) \subseteq 1 .. Len(lines)
  BY <1>1 DEF Outside
<1>3. \A x, y \in 1 .. Len(lines) : IsBlock(lines, x, y) => <<x, y>> \in Blocks(lines)
  <2> SUFFICES ASSUME NEW x \in 1 .. Len(lines), NEW y \in 1 .. Len(lines), IsBlock(lines, x, y)
               PROVE  <<x, y>> \in Blocks(lines)
    OBVIOUS
  <2>1. <<x, y>> \in At("begin", lines) \X At("end", lines)
    BY <1>1 DEF IsBlock, At
  <2>2. x < y /\ \A i \in x + 1 .. y - 1 : lines[i] \notin {"begin", "end"}
    BY DEF IsBlock
  <2> QED
    BY <2>1, <2>2 DEF Blocks
<1>4. \A b \in Blocks(lines) : b[1] \in 1 .. Len(lines) /\ b[2] \in 1 .. Len(lines) /\ IsBlock(lines, b[1], b[2])
  BY <1>1 DEF Blocks, At, IsBlock
<1>5. ASSUME NEW i \in 1 .. Len(lines), i \in Outside(lines), NEW x \in 1 .. Len(lines), NEW y \in 1 .. Len(lines), IsBlock(lines, x, y)
      PROVE  ~(x <= i /\ i <= y)
  <2>1. <<x, y>> \in Blocks(lines)
    BY <1>3, <1>5
  <2>2. i \notin <<x, y>>[1] .. <<x, y>>[2]
    BY <1>5, <2>1 DEF Outside
  <2> QED
    BY <1>1, <2>2
<1>6. ASSUME NEW i \in 1 .. Len(lines), \A x, y \in 1 .. Len(lines) : IsBlock(lines, x, y) => ~(x <= i /\ i <= y)
      PROVE  i \in Outside(lines)
  <2>1. ASSUME NEW b \in Blocks(lines) PROVE i \notin b[1] .. b[2]
    <3>1. b[1] \in 1 .. Len(lines) /\ b[2] \in 1 .. Len(lines) /\ IsBlock(lines, b[1], b[2])
      BY <1>4
    <3>2. ~(b[1] <= i /\ i <= b[2])
      BY <1>6, <3>1
    <3> QED
      BY <3>1, <3>2
  <2> QED
    BY <1>1, <2>1 DEF Outside
<1> QED
  BY <1>2, <1>5, <1>6

\* Where f to l is the only block up to l, and the new one is the first of the
\* new lines, what lies outside is the same.
LEMMA RestSame ==
  ASSUME NEW lines \in Seq(Lines), NEW new, NEW f \in Nat, NEW l \in Nat, Replaced(lines, new, f, l),
         \A x, y \in 1 .. Len(lines) : IsBlock(lines, x, y) => l < x \/ (x = f /\ y = l),
         f <= l => IsBlock(lines, f, l),
         \A x, y \in 1 .. Len(new) : IsBlock(new, x, y) => f <= x
  PROVE  SameOutside(lines, new)
<1> DEFINE n == Len(lines)
           m == Len(new)
           d == f + 2 - l
<1>1. /\ n \in Nat /\ m = n + d /\ d \in Int /\ new \in Seq(Lines) /\ m \in Nat
      /\ 1 <= f /\ f <= n + 1 /\ f - 1 <= l /\ l <= n /\ f + 2 = l + d /\ f + 2 <= m
      /\ \A i \in 1 .. f - 1 : new[i] = lines[i]
      /\ new[f] = "begin" /\ new[f + 1] = "text" /\ new[f + 2] = "end"
      /\ \A i \in l + 1 .. n : new[i + d] = lines[i]
  <2>1. n \in Nat /\ d \in Int
    OBVIOUS
  <2>2. /\ f \in 1 .. n + 1 /\ l \in f - 1 .. n /\ new \in Seq(Lines) /\ m = n + d
        /\ \A i \in 1 .. f - 1 : new[i] = lines[i]
        /\ new[f] = "begin" /\ new[f + 1] = "text" /\ new[f + 2] = "end"
        /\ \A i \in l + 1 .. n : new[i + d] = lines[i]
    BY DEF Replaced
  <2>3. m \in Nat
    BY <2>2
  <2> QED
    BY <2>1, <2>2, <2>3
<1> HIDE DEF n, m, d
<1>2. ASSUME NEW x \in l + 1 .. n, NEW y \in l + 1 .. n
      PROVE  IsBlock(lines, x, y) <=> IsBlock(new, x + d, y + d)
  <2>1. x \in 1 .. n /\ y \in 1 .. n /\ x + d \in 1 .. m /\ y + d \in 1 .. m /\ (x < y <=> x + d < y + d)
    BY <1>1
  <2>2. new[x + d] = lines[x] /\ new[y + d] = lines[y]
    BY <1>1
  <2>3. ASSUME \A i \in x + 1 .. y - 1 : lines[i] # "begin" /\ lines[i] # "end", NEW i \in x + d + 1 .. y + d - 1
        PROVE  new[i] # "begin" /\ new[i] # "end"
    <3>1. i - d \in x + 1 .. y - 1 /\ i - d \in l + 1 .. n /\ (i - d) + d = i
      BY <1>1, <2>1
    <3>2. new[(i - d) + d] = lines[i - d]
      BY <1>1, <3>1
    <3> QED
      BY <2>3, <3>1, <3>2
  <2>4. ASSUME \A i \in x + d + 1 .. y + d - 1 : new[i] # "begin" /\ new[i] # "end", NEW i \in x + 1 .. y - 1
        PROVE  lines[i] # "begin" /\ lines[i] # "end"
    <3>1. i + d \in x + d + 1 .. y + d - 1 /\ i \in l + 1 .. n
      BY <1>1, <2>1
    <3> QED
      BY <1>1, <2>4, <3>1
  <2>5. ASSUME IsBlock(lines, x, y) PROVE IsBlock(new, x + d, y + d)
    <3>1. x < y /\ lines[x] = "begin" /\ lines[y] = "end" /\ \A i \in x + 1 .. y - 1 : lines[i] # "begin" /\ lines[i] # "end"
      BY <2>5 DEF IsBlock
    <3>2. \A i \in x + d + 1 .. y + d - 1 : new[i] # "begin" /\ new[i] # "end"
      BY <2>3, <3>1
    <3> QED
      BY <1>1, <2>1, <2>2, <3>1, <3>2 DEF IsBlock, m
  <2>6. ASSUME IsBlock(new, x + d, y + d) PROVE IsBlock(lines, x, y)
    <3>1. /\ x + d < y + d /\ new[x + d] = "begin" /\ new[y + d] = "end"
          /\ \A i \in x + d + 1 .. y + d - 1 : new[i] # "begin" /\ new[i] # "end"
      BY <1>1, <2>1, <2>6 DEF IsBlock
    <3>2. \A i \in x + 1 .. y - 1 : lines[i] # "begin" /\ lines[i] # "end"
      BY <2>4, <3>1
    <3> QED
      BY <2>1, <2>2, <3>1, <3>2 DEF IsBlock, n
  <2> QED
    BY <2>5, <2>6
<1>3. IsBlock(new, f, f + 2)
  <2>1. f \in 1 .. m /\ f + 2 \in 1 .. m /\ f < f + 2 /\ \A i \in f + 1 .. f + 2 - 1 : i = f + 1
    BY <1>1
  <2> QED
    BY <1>1, <2>1 DEF IsBlock, m
<1>4. ASSUME NEW x \in 1 .. m, NEW y \in 1 .. m, IsBlock(new, x, y)
      PROVE  \/ x = f /\ y = f + 2
             \/ /\ x - d \in l + 1 .. n /\ y - d \in l + 1 .. n /\ IsBlock(lines, x - d, y - d)
  <2>1. f <= x /\ x < y /\ new[x] = "begin" /\ new[y] = "end" /\ \A i \in x + 1 .. y - 1 : new[i] # "begin" /\ new[i] # "end"
    BY <1>4 DEF IsBlock, m
  <2>2. x # f + 1 /\ x # f + 2
    BY <1>1, <2>1
  <2>3. CASE x = f
    <3>1. y # f + 1
      BY <1>1, <2>1
    <3>2. ~(f + 2 < y)
      BY <1>1, <2>1, <2>3
    <3> QED
      BY <1>1, <2>1, <2>3, <3>1, <3>2
  <2>4. CASE f + 2 < x
    <3>1. x - d \in l + 1 .. n /\ y - d \in l + 1 .. n /\ (x - d) + d = x /\ (y - d) + d = y
      BY <1>1, <2>1, <2>4
    <3> QED
      BY <1>2, <1>4, <3>1
  <2> QED
    BY <1>1, <2>1, <2>2, <2>3, <2>4
<1>5. ASSUME NEW i \in 1 .. f - 1
      PROVE  i \in Outside(lines) /\ i \in Outside(new)
  <2>1. i \in 1 .. n /\ i \in 1 .. m /\ i < f /\ i <= l
    BY <1>1
  <2>2. ASSUME NEW x \in 1 .. n, NEW y \in 1 .. n, IsBlock(lines, x, y) PROVE ~(x <= i)
    <3>1. l < x \/ x = f
      BY <2>2 DEF n
    <3> QED
      BY <1>1, <2>1, <3>1
  <2>3. ASSUME NEW x \in 1 .. m, NEW y \in 1 .. m, IsBlock(new, x, y) PROVE ~(x <= i)
    <3>1. f <= x
      BY <2>3 DEF m
    <3> QED
      BY <1>1, <2>1, <3>1
  <2> QED
    BY <1>1, <2>1, <2>2, <2>3, OutsideIs DEF n, m
<1>6. ASSUME NEW i \in f .. l PROVE i \notin Outside(lines)
  <2>1. i \in 1 .. n /\ f \in 1 .. n /\ l \in 1 .. n /\ f <= l /\ f <= i /\ i <= l
    BY <1>1
  <2> QED
    BY <2>1, OutsideIs DEF n
<1>7. ASSUME NEW i \in f .. f + 2 PROVE i \notin Outside(new)
  <2>1. i \in 1 .. m /\ f \in 1 .. m /\ f + 2 \in 1 .. m /\ f <= i /\ i <= f + 2
    BY <1>1
  <2> QED
    BY <1>1, <1>3, <2>1, OutsideIs DEF m
<1>8. ASSUME NEW k \in l + 1 .. n PROVE k \in Outside(lines) <=> k + d \in Outside(new)
  <2>1. k \in 1 .. n /\ k + d \in 1 .. m /\ l < k /\ f + 2 < k + d
    BY <1>1
  <2>2. ASSUME k \in Outside(lines), NEW x \in 1 .. m, NEW y \in 1 .. m, IsBlock(new, x, y), x <= k + d, k + d <= y
        PROVE  FALSE
    <3>1. ~(x = f /\ y = f + 2)
      BY <1>1, <2>1, <2>2
    <3>2. x - d \in l + 1 .. n /\ y - d \in l + 1 .. n /\ IsBlock(lines, x - d, y - d)
      BY <1>4, <2>2, <3>1
    <3>3. x - d \in 1 .. n /\ y - d \in 1 .. n /\ x - d <= k /\ k <= y - d
      BY <1>1, <2>2, <3>2
    <3> QED
      BY <2>1, <2>2, <3>2, <3>3, OutsideIs DEF n
  <2>3. ASSUME k + d \in Outside(new), NEW x \in 1 .. n, NEW y \in 1 .. n, IsBlock(lines, x, y), x <= k, k <= y
        PROVE  FALSE
    <3>1. l < x \/ (x = f /\ y = l)
      BY <2>3 DEF n
    <3>2. x \in l + 1 .. n /\ y \in l + 1 .. n
      BY <1>1, <2>1, <2>3, <3>1
    <3>3. IsBlock(new, x + d, y + d)
      BY <1>2, <2>3, <3>2
    <3>4. x + d \in 1 .. m /\ y + d \in 1 .. m /\ x + d <= k + d /\ k + d <= y + d
      BY <1>1, <2>3, <3>2
    <3> QED
      BY <1>1, <2>1, <2>3, <3>3, <3>4, OutsideIs DEF m
  <2> QED
    BY <1>1, <2>1, <2>2, <2>3, OutsideIs DEF n, m
<1> DEFINE start == f - 1
           moved(i) == IF i <= start THEN i ELSE i + Len(new) - Len(lines)
           was == Outside(lines)
<1>9. ASSUME NEW i \in was
      PROVE  \/ i \in 1 .. f - 1 /\ moved(i) = i
             \/ i \in l + 1 .. n /\ moved(i) = i + d
  <2>1. i \in 1 .. n
    BY OutsideIs DEF n
  <2>2. ~(f <= i /\ i <= l)
    BY <1>1, <1>6, <2>1
  <2>3. Len(new) = n + d /\ Len(lines) = n
    BY <1>1 DEF n, m
  <2>4. CASE i <= f - 1
    BY <1>1, <2>1, <2>4
  <2>5. CASE ~(i <= f - 1)
    <3>1. i \in l + 1 .. n
      BY <1>1, <2>1, <2>2, <2>5
    <3>2. moved(i) = i + (n + d) - n
      BY <2>3, <2>5
    <3>3. i + (n + d) - n = i + d
      BY <1>1, <2>1
    <3> QED
      BY <3>1, <3>2, <3>3
  <2> QED
    BY <2>4, <2>5
<1>10. start \in 0 .. Len(lines)
  BY <1>1 DEF n
<1>11. Outside(new) = {moved(i) : i \in was}
  <2>1. ASSUME NEW j \in Outside(new) PROVE \E i \in was : j = moved(i)
    <3>1. j \in 1 .. m
      BY <1>1, OutsideIs DEF m
    <3>2. ~(f <= j /\ j <= f + 2)
      BY <1>1, <1>7, <2>1, <3>1
    <3>3. CASE j < f
      <4>1. j \in 1 .. f - 1 /\ j <= start
        BY <1>1, <3>1, <3>3
      <4> QED
        BY <1>5, <4>1
    <3>4. CASE f + 2 < j
      <4>1. j - d \in l + 1 .. n /\ (j - d) + d = j
        BY <1>1, <3>1, <3>4
      <4>2. j - d \in was
        BY <1>8, <2>1, <4>1
      <4>3. j - d \notin 1 .. f - 1
        BY <1>1, <4>1
      <4>4. moved(j - d) = (j - d) + d
        BY <1>9, <4>2, <4>3
      <4> QED
        BY <4>1, <4>2, <4>4
    <3> QED
      BY <1>1, <3>1, <3>2, <3>3, <3>4
  <2>2. ASSUME NEW i \in was PROVE moved(i) \in Outside(new)
    BY <1>5, <1>8, <1>9
  <2> QED
    BY <2>1, <2>2
<1>12. ASSUME NEW i \in was PROVE new[moved(i)] = lines[i]
  BY <1>1, <1>9
<1>13. ASSUME NEW i \in was, NEW j \in was, i < j PROVE moved(i) < moved(j)
  <2> HIDE DEF moved, was, start
  <2>1. CASE i \in 1 .. f - 1 /\ moved(i) = i /\ j \in l + 1 .. n /\ moved(j) = j + d
    BY <1>1, <2>1
  <2>2. CASE i \in l + 1 .. n /\ moved(i) = i + d /\ j \in 1 .. f - 1 /\ moved(j) = j
    BY <1>1, <1>13, <2>2
  <2>3. CASE i \in 1 .. f - 1 /\ moved(i) = i /\ j \in 1 .. f - 1 /\ moved(j) = j
    BY <1>13, <2>3
  <2>4. CASE i \in l + 1 .. n /\ moved(i) = i + d /\ j \in l + 1 .. n /\ moved(j) = j + d
    BY <1>1, <1>13, <2>4
  <2> QED
    BY <1>9, <2>1, <2>2, <2>3, <2>4
<1> QED
  BY <1>10, <1>11, <1>12, <1>13 DEF SameOutside

LEMMA SetupKeepsTheRest ==
  ASSUME NEW lines \in Seq(Lines)
  PROVE  SameOutside(lines, WithBlock(lines)) \/ Unclosed(lines)
<1> DEFINE new == WithBlock(lines)
           n == Len(lines)
<1>0. n \in Nat /\ DOMAIN lines = 1 .. n
  OBVIOUS
<1>1. ASSUME NEW f \in 1 .. n, NEW l \in 1 .. n, Found(lines, f, l), Replaced(lines, new, f, l), ~Unclosed(lines)
      PROVE  SameOutside(lines, new)
  <2> HIDE DEF new
  <2>1. /\ f \in Nat /\ l \in Nat /\ f < l /\ lines[f] = "begin" /\ lines[l] = "end"
        /\ \A i \in 1 .. f - 1 : lines[i] # "begin"
        /\ \A i \in f + 1 .. l - 1 : lines[i] # "end"
    BY <1>1 DEF Found
  <2>2. \A i \in f + 1 .. l - 1 : lines[i] # "begin"
    <3> SUFFICES ASSUME NEW i \in f + 1 .. l - 1, lines[i] = "begin" PROVE FALSE
      OBVIOUS
    <3>1. f \in At("begin", lines) /\ i \in At("begin", lines) /\ f < i
      BY <1>0, <2>1 DEF At
    <3>2. ~\E e \in At("end", lines) : f < e /\ e < i
      BY <1>0, <2>1 DEF At
    <3> QED
      BY <1>1, <3>1, <3>2 DEF Unclosed
  <2>3. IsBlock(lines, f, l)
    BY <1>0, <2>1, <2>2 DEF IsBlock
  <2>4. ASSUME NEW x \in 1 .. n, NEW y \in 1 .. n, IsBlock(lines, x, y)
        PROVE  l < x \/ (x = f /\ y = l)
    <3>1. x < y /\ lines[x] = "begin" /\ lines[y] = "end" /\ \A i \in x + 1 .. y - 1 : lines[i] # "end"
      BY <2>4 DEF IsBlock
    <3>2. ~(x < f) /\ ~(f < x /\ x < l) /\ x # l
      BY <2>1, <2>2, <3>1
    <3>3. CASE x = f
      <4>1. ~(y < l)
        BY <2>1, <3>1, <3>3
      <4>2. ~(l < y)
        BY <2>1, <3>1, <3>3
      <4> QED
        BY <3>3, <4>1, <4>2
    <3> QED
      BY <3>2, <3>3
  <2>5. \A i \in 1 .. f - 1 : new[i] = lines[i]
    BY <1>1 DEF Replaced
  <2>6. ASSUME NEW x \in 1 .. Len(new), NEW y \in 1 .. Len(new), IsBlock(new, x, y)
        PROVE  f <= x
    <3>1. new[x] = "begin"
      BY <2>6 DEF IsBlock
    <3> QED
      BY <2>1, <2>5, <3>1
  <2> QED
    BY <1>1, <2>1, <2>3, <2>4, <2>6, RestSame
<1>2. ASSUME NotFound(lines), Replaced(lines, new, n + 1, n)
      PROVE  SameOutside(lines, new)
  <2> HIDE DEF new
  <2>1. /\ new \in Seq(Lines) /\ Len(new) = n + (n + 1 + 2 - n) /\ new[n + 1] = "begin" /\ new[n + 1 + 2] = "end"
        /\ \A i \in 1 .. n + 1 - 1 : new[i] = lines[i]
    BY <1>2 DEF Replaced
  <2>2. Len(new) = n + 3 /\ n + 1 \in Nat /\ ~(n + 1 <= n)
    BY <1>0, <2>1
  <2>3. \A i \in 1 .. n : new[i] = lines[i]
    BY <1>0, <2>1
  <2>4. ASSUME NEW x \in 1 .. n, NEW y \in 1 .. n PROVE ~IsBlock(lines, x, y)
    BY <1>2, <2>4 DEF NotFound, IsBlock
  <2>5. ASSUME NEW x \in 1 .. Len(new), NEW y \in 1 .. Len(new), IsBlock(new, x, y)
        PROVE  n + 1 <= x
    <3>1. x < y /\ new[x] = "begin" /\ new[y] = "end" /\ \A i \in x + 1 .. y - 1 : new[i] # "begin"
      BY <2>5 DEF IsBlock
    <3>2. CASE x <= n /\ y <= n
      <4>1. x \in 1 .. n /\ y \in 1 .. n
        BY <1>0, <2>2, <3>2
      <4>2. lines[x] = "begin" /\ lines[y] = "end"
        BY <2>3, <3>1, <4>1
      <4> QED
        BY <1>2, <3>1, <4>1, <4>2 DEF NotFound
    <3>3. CASE x <= n /\ y = n + 1
      BY <2>1, <3>1, <3>3
    <3>4. CASE x <= n /\ n + 1 < y
      BY <1>0, <2>1, <2>2, <3>1, <3>4
    <3> QED
      BY <1>0, <2>2, <3>2, <3>3, <3>4
  <2> QED
    BY <1>0, <1>2, <2>2, <2>4, <2>5, RestSame
<1> QED
  BY <1>1, <1>2, WithBlockIs

-----------------------------------------------------------------------------
(* The specification's. *)

BlockInv == md \in Seq(Lines) /\ SetupSettles

LEMMA LinesOf ==
  ASSUME NEW lines \in Seq(Lines), NEW i \in Int, NEW j \in Int, 1 <= i, j <= Len(lines)
  PROVE  SubSeq(lines, i, j) \in Seq(Lines)
<1>1. Len(lines) \in Nat /\ \A k \in 1 .. Len(lines) : lines[k] \in Lines
  OBVIOUS
<1>2. \A k \in i .. j : lines[k] \in Lines
  BY <1>1
<1> QED
  BY <1>2, SubSeqProperties

LEMMA EditKeeps ==
  ASSUME md \in Seq(Lines), Edit
  PROVE  md' \in Seq(Lines)
<1>1. Len(md) \in Nat /\ DOMAIN md = 1 .. Len(md)
  OBVIOUS
<1>2. ASSUME NEW i \in 1 .. Len(md) + 1, NEW line \in Lines PROVE InsertAt(md, i, line) \in Seq(Lines)
  <2>1. SubSeq(md, 1, i - 1) \in Seq(Lines) /\ SubSeq(md, i, Len(md)) \in Seq(Lines)
    BY <1>1, LinesOf
  <2>2. <<line>> \in Seq(Lines)
    OBVIOUS
  <2>3. SubSeq(md, 1, i - 1) \o <<line>> \in Seq(Lines)
    BY <2>1, <2>2, JoinedIs
  <2>4. (SubSeq(md, 1, i - 1) \o <<line>>) \o SubSeq(md, i, Len(md)) \in Seq(Lines)
    BY <2>1, <2>3, JoinedIs
  <2> QED
    BY <2>4 DEF InsertAt
<1>3. ASSUME NEW i \in 1 .. Len(md) PROVE RemoveAt(md, i) \in Seq(Lines)
  <2>1. SubSeq(md, 1, i - 1) \in Seq(Lines) /\ SubSeq(md, i + 1, Len(md)) \in Seq(Lines)
    BY <1>1, LinesOf
  <2>2. SubSeq(md, 1, i - 1) \o SubSeq(md, i + 1, Len(md)) \in Seq(Lines)
    BY <2>1, JoinedIs
  <2> QED
    BY <2>2 DEF RemoveAt
<1> QED
  BY <1>1, <1>2, <1>3 DEF Edit

LEMMA SetupWrites ==
  ASSUME md \in Seq(Lines)
  PROVE  WithBlock(md) \in Seq(Lines)
  BY WithBlockIs DEF Replaced

LEMMA BlockKeeps ==
  ASSUME BlockInv, BlockNext \/ UNCHANGED mdVars
  PROVE  BlockInv'
<1>1. CASE UNCHANGED mdVars
  BY <1>1 DEF mdVars, BlockInv, SetupSettles
<1>2. CASE Setup
  <2>1. md' = WithBlock(md) /\ md \in Seq(Lines)
    BY <1>2 DEF Setup, BlockInv
  <2>2. BlockState(md') = "up-to-date" \/ Unclosed(md')
    BY <2>1, SetupLeavesIt
  <2>3. md' \in Seq(Lines)
    BY <2>1, SetupWrites
  <2> QED
    BY <2>2, <2>3 DEF BlockInv, SetupSettles
<1>3. CASE Edit
  <2>1. md' \in Seq(Lines)
    BY <1>3, EditKeeps DEF BlockInv
  <2>2. setup' = "edited"
    BY <1>3 DEF Edit
  <2> QED
    BY <2>1, <2>2 DEF BlockInv, SetupSettles
<1> QED
  BY <1>1, <1>2, <1>3 DEF BlockNext

UpkeepInv == UpdatesInv /\ NoticesInv /\ BlockInv

LEMMA UpkeepBegins ==
  ASSUME UpkeepInit
  PROVE  UpkeepInv
<1>1. UpdatesInv /\ NoticesInv
  BY UpdatesBegin, NoticesBegin DEF UpkeepInit
<1>2. md = <<>> /\ setup = "none"
  BY DEF UpkeepInit, NoticesInit
<1> QED
  BY <1>1, <1>2 DEF UpkeepInv, BlockInv, SetupSettles

LEMMA UpkeepKeeps ==
  ASSUME UpkeepInv, [UpkeepNext]_upkeepVars
  PROVE  UpkeepInv'
<1>1. UpdatesInv /\ NoticesInv /\ BlockInv
  BY DEF UpkeepInv
<1>2. [UpdatesNext]_updateVars
  BY DEF UpkeepNext, OfUpdates, OfRecords, OfBlock, upkeepVars
<1>3. RecordsNext \/ UNCHANGED fileVars
  BY DEF UpkeepNext, OfUpdates, OfRecords, OfBlock, upkeepVars, noticeVars, BlockNext, Setup, Edit
<1>4. BlockNext \/ UNCHANGED mdVars
  <2>1. CASE OfRecords(RecordsNext)
    <3>1. RecordsNext
      BY <2>1 DEF OfRecords
    <3>2. UNCHANGED mdVars
      BY <3>1 DEF RecordsNext, Command, Record, ReadState, TruncateState, WriteState, StateUnwritten, KillUser, Day
    <3> QED
      BY <3>2
  <2>2. CASE UNCHANGED noticeVars
    BY <2>2 DEF noticeVars
  <2> QED
    BY <2>1, <2>2 DEF UpkeepNext, OfUpdates, OfBlock, upkeepVars
<1> QED
  BY <1>1, <1>2, <1>3, <1>4, UpdatesKeep, NoticesKeep, BlockKeeps DEF UpkeepInv

\* However updates, checks and a server share the cache, and commands and
\* recordings the skills' record: a release is announced once, and the notice
\* prints once a day, but for the ways of losing the mark the property names.
THEOREM NoticesAreSparing == UpkeepSpec => SaidSparingly
<1>1. UpkeepInit => UpkeepInv
  BY UpkeepBegins
<1>2. UpkeepInv /\ [UpkeepNext]_upkeepVars => UpkeepInv'
  BY UpkeepKeeps
<1>3. UpkeepInv => [\A v \in told : (Announce /\ found[Serve] = v /\ News(v)) => back \/ \E w \in told : v < w]_updateVars
  BY AnnouncesOnce DEF UpkeepInv
<1>4. UpkeepInv => [\A u \in Users : ((WriteState(u) \/ StateUnwritten(u)) /\ Prints(u)) => ~printed \/ undone]_noticeVars
  BY NoticesDaily DEF UpkeepInv
<1> QED
  BY <1>1, <1>2, <1>3, <1>4, PTL DEF UpkeepSpec, SaidSparingly, AnnouncedOnce, NoticedDaily

\* Whatever people made of AGENTS.md before: setup keeps every line outside the
\* blocks, and what it leaves it would leave again, unless a begin has no end of
\* its own.
THEOREM BlockIsSetup == UpkeepSpec => BlockIsSetups
<1>1. UpkeepInit => UpkeepInv
  BY UpkeepBegins
<1>2. UpkeepInv /\ [UpkeepNext]_upkeepVars => UpkeepInv'
  BY UpkeepKeeps
<1>3. UpkeepInv => SetupSettles
  BY DEF UpkeepInv, BlockInv
<1>4. UpkeepInv => [Setup => SameOutside(md, md') \/ Unclosed(md)]_noticeVars
  BY SetupKeepsTheRest DEF UpkeepInv, BlockInv, Setup
<1> QED
  BY <1>1, <1>2, <1>3, <1>4, PTL DEF UpkeepSpec, BlockIsSetups, RestIsKept
=============================================================================
