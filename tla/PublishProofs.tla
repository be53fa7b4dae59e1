--------------------------- MODULE PublishProofs ---------------------------
(***************************************************************************)
(* Publishes of any number of runs, folders, orgs and files: a run that    *)
(* says it has not published has not, unless its answer was lost, and what *)
(* it replaces unasked is only what was published after it asked.          *)
(***************************************************************************)
EXTENDS Publish, DataSources, FiniteSetTheorems, WellFoundedInduction, TLAPS

PublishShape ==
  /\ pc \in [Publishes -> Steps \cup Ended]
  /\ dest \in [Publishes -> Orgs \cup {Nothing}]
  /\ seen \in [Publishes -> Revisions \cup {Nothing}]
  /\ agreed \in [Publishes -> BOOLEAN]
  /\ last \in [Folders -> [Orgs -> Revisions \cup {Nothing}]]
  /\ saved \in [Publishes -> [Orgs -> Revisions \cup {Nothing}]]
  /\ own \in [Folders -> [Orgs -> SUBSET Revisions]]
  /\ head \in [Orgs -> Revisions]
  /\ files = [r \in Revisions |-> files[r]]
  /\ cut \subseteq Publishes

\* What a folder recorded it was told is its own.
RecordedIsOwn ==
  \A f \in Folders, o \in Orgs : last[f][o] \in own[f][o] \cup {Nothing}

\* Of one run: what it read of the record, what it was answered and agreed to,
\* and whether its revision is made.
RunOf(p) ==
  /\ pc[p] \in Steps \ {"off"} => dest[p] \in Orgs
  /\ \A o \in Orgs : saved[p][o] \in own[FolderOf(p)][o] \cup {Nothing}
  /\ pc[p] \in {"confirm", "listing", "uploading", "publishing"} => seen[p] # Nothing
  /\ pc[p] \in {"listing", "uploading", "publishing"} =>
       seen[p] = Starting \/ agreed[p] \/ seen[p] \in own[FolderOf(p)][dest[p]]
  /\ pc[p] \in {"record", "writing"} => seen[p] \in own[FolderOf(p)][dest[p]]
  /\ files[p] # <<>> =>
       pc[p] \in {"record", "writing", "published", "killed"} \/ (pc[p] = "not published" /\ p \in cut)

PublishInv == PublishShape /\ RecordedIsOwn /\ \A p \in Publishes : RunOf(p)

USE PublishAssumption

LEMMA PublishStarts == Init => PublishInv
<1> SUFFICES ASSUME Init PROVE PublishInv
  OBVIOUS
<1>1. PublishShape
  BY DEF Init, PublishShape, Steps, Revisions, Folders, Unrecorded
<1>2. RecordedIsOwn /\ \A p \in Publishes : RunOf(p)
  BY DEF Init, RecordedIsOwn, RunOf, Unrecorded, Steps, Revisions, Folders
<1> QED
  BY <1>1, <1>2 DEF PublishInv

\* A run nothing of which changes, while folders are told of more revisions.
LEMMA OthersStay ==
  ASSUME PublishInv, NEW q \in Publishes, PublishShape',
         pc'[q] = pc[q], dest'[q] = dest[q], seen'[q] = seen[q], agreed'[q] = agreed[q],
         saved'[q] = saved[q], files'[q] = files[q], cut \subseteq cut',
         \A f \in Folders, o \in Orgs : own[f][o] \subseteq own'[f][o]
  PROVE  RunOf(q)'
<1>1. RunOf(q) /\ FolderOf(q) \in Folders
  BY DEF PublishInv, Folders
<1>2. \A o \in Orgs : own[FolderOf(q)][o] \subseteq own'[FolderOf(q)][o]
  BY <1>1
<1> QED
  BY <1>1, <1>2 DEF RunOf, Steps

\* A run goes on, or ends, and no folder is told of a revision.
LEMMA StepKeeps ==
  ASSUME PublishInv, NEW p \in Publishes, PublishShape', RecordedIsOwn', RunOf(p)',
         \A q \in Publishes \ {p} : /\ pc'[q] = pc[q] /\ dest'[q] = dest[q] /\ seen'[q] = seen[q]
                                    /\ agreed'[q] = agreed[q] /\ saved'[q] = saved[q] /\ files'[q] = files[q],
         cut \subseteq cut', \A f \in Folders, o \in Orgs : own[f][o] \subseteq own'[f][o]
  PROVE  PublishInv'
<1>1. \A q \in Publishes : RunOf(q)'
  BY OthersStay
<1> QED
  BY <1>1 DEF PublishInv

\* Up to the upload: nothing of the server's changes, and nothing recorded.
LEMMA AskingKeeps ==
  ASSUME PublishInv, NEW p \in Publishes,
         \/ \E o \in Orgs : Begin(p, o) \/ Login(p, o)
         \/ Read(p) \/ Status(p) \/ Confirm(p) \/ ListMissing(p)
  PROVE  PublishInv'
<1> USE DEF PublishInv, Moves, Set
<1>1. UNCHANGED <<last, saved, own, cut, head, files>>
  BY DEF Begin, Login, Read, Status, Confirm, ListMissing, folder, server, history
<1>2. FolderOf(p) \in Folders
  BY DEF Folders
<1>3. ASSUME NEW o \in Orgs, Begin(p, o) \/ Login(p, o)
      PROVE  /\ pc[p] \in {"off", "destination"} /\ pc' = [pc EXCEPT ![p] = IF pc[p] = "off" THEN "destination" ELSE "reading"]
             /\ dest' = [dest EXCEPT ![p] = o] /\ UNCHANGED <<seen, agreed>>
  BY <1>3 DEF Begin, Login
<1>4. ASSUME Read(p)
      PROVE  pc[p] = "reading" /\ pc' = [pc EXCEPT ![p] = "status"] /\ UNCHANGED <<dest, seen, agreed>>
  BY <1>4 DEF Read, target
<1>5. ASSUME Status(p)
      PROVE  /\ pc[p] = "status" /\ pc' = [pc EXCEPT ![p] = "confirm"]
             /\ seen' = [seen EXCEPT ![p] = head[dest[p]]] /\ head[dest[p]] \in Revisions /\ UNCHANGED <<dest, agreed>>
  <2>1. dest[p] \in Orgs
    BY <1>5 DEF Status, RunOf, Steps
  <2> QED
    BY <1>5, <2>1 DEF Status, target, PublishShape
<1>6. ASSUME Confirm(p)
      PROVE  /\ pc[p] = "confirm" /\ pc' = [pc EXCEPT ![p] = "listing"]
             /\ agreed' = [agreed EXCEPT ![p] = Elsewhere(p)] /\ UNCHANGED <<dest, seen>>
  BY <1>6 DEF Confirm, target
<1>7. ASSUME ListMissing(p)
      PROVE  pc[p] = "listing" /\ pc' = [pc EXCEPT ![p] = "uploading"] /\ UNCHANGED <<dest, seen, agreed>>
  BY <1>7 DEF ListMissing, target
<1>8. /\ pc' \in [Publishes -> Steps \cup Ended]
      /\ dest' \in [Publishes -> Orgs \cup {Nothing}]
      /\ seen' \in [Publishes -> Revisions \cup {Nothing}]
      /\ agreed' \in [Publishes -> BOOLEAN]
  <2>1. pc' \in [Publishes -> Steps \cup Ended]
    BY <1>3, <1>4, <1>5, <1>6, <1>7 DEF PublishShape, Steps
  <2>2. dest' \in [Publishes -> Orgs \cup {Nothing}]
    BY <1>3, <1>4, <1>5, <1>6, <1>7 DEF PublishShape
  <2>3. seen' \in [Publishes -> Revisions \cup {Nothing}]
    BY <1>3, <1>4, <1>5, <1>6, <1>7 DEF PublishShape
  <2>4. Elsewhere(p) \in BOOLEAN
    BY DEF Elsewhere
  <2>5. agreed' \in [Publishes -> BOOLEAN]
    BY <1>3, <1>4, <1>5, <1>6, <1>7, <2>4 DEF PublishShape
  <2> QED
    BY <2>1, <2>2, <2>3, <2>5
<1>9. PublishShape'
  BY <1>1, <1>8 DEF PublishShape
<1>10. RecordedIsOwn'
  BY <1>1 DEF RecordedIsOwn
<1>11. files[p] = <<>>
  BY <1>3, <1>4, <1>5, <1>6, <1>7 DEF RunOf
<1>12. \A o \in Orgs : saved'[p][o] \in own'[FolderOf(p)][o] \cup {Nothing}
  BY <1>1 DEF RunOf
<1>13. RunOf(p)'
  <2>1. ASSUME NEW o \in Orgs, Begin(p, o) \/ Login(p, o) PROVE RunOf(p)'
    <3>1. pc'[p] \in {"destination", "reading"} /\ dest'[p] \in Orgs
      BY <1>3, <2>1 DEF PublishShape
    <3> QED
      BY <1>1, <1>11, <1>12, <3>1 DEF RunOf
  <2>2. CASE Read(p)
    <3>1. pc'[p] = "status" /\ dest[p] \in Orgs
      BY <1>4, <2>2 DEF PublishShape, RunOf, Steps
    <3> QED
      BY <1>1, <1>4, <1>11, <1>12, <2>2, <3>1 DEF RunOf
  <2>3. CASE Status(p)
    <3>1. pc'[p] = "confirm" /\ dest[p] \in Orgs
      BY <1>5, <2>3 DEF PublishShape, RunOf, Steps
    <3>2. Nothing \notin Revisions
      BY DEF Revisions, Nothing, Starting
    <3>3. seen'[p] # Nothing
      BY <1>5, <2>3, <3>2 DEF PublishShape
    <3> QED
      BY <1>1, <1>5, <1>11, <1>12, <2>3, <3>1, <3>3 DEF RunOf
  <2>4. CASE Confirm(p)
    <3>1. dest[p] \in Orgs /\ seen[p] # Nothing
      BY <1>6, <2>4 DEF RunOf, Steps
    <3>2. ~Elsewhere(p) => seen[p] = Starting \/ seen[p] \in own[FolderOf(p)][dest[p]]
      BY <1>2, <3>1 DEF Elsewhere, RecordedIsOwn
    <3>3. agreed'[p] = Elsewhere(p) /\ pc'[p] = "listing"
      BY <1>6, <2>4 DEF PublishShape
    <3> QED
      BY <1>1, <1>6, <1>11, <1>12, <2>4, <3>1, <3>2, <3>3 DEF RunOf
  <2>5. CASE ListMissing(p)
    <3>1. pc'[p] = "uploading" /\ dest[p] \in Orgs
      BY <1>7, <2>5 DEF PublishShape, RunOf, Steps
    <3> QED
      BY <1>1, <1>7, <1>11, <1>12, <2>5, <3>1 DEF RunOf
  <2> QED
    BY <2>1, <2>2, <2>3, <2>4, <2>5
<1>14. \A q \in Publishes \ {p} : /\ pc'[q] = pc[q] /\ dest'[q] = dest[q] /\ seen'[q] = seen[q]
                                  /\ agreed'[q] = agreed[q] /\ saved'[q] = saved[q] /\ files'[q] = files[q]
  BY <1>1, <1>3, <1>4, <1>5, <1>6, <1>7 DEF PublishShape
<1> QED
  BY <1>1, <1>9, <1>10, <1>13, <1>14, StepKeeps

LEMMA UploadingKeeps ==
  ASSUME PublishInv, NEW p \in Publishes,
         (\E b \in Blobs : Reread(p, b)) \/ Flush(p) \/ Uploaded(p) \/ PublishMissing(p)
  PROVE  PublishInv'
<1> USE DEF PublishInv, PublishShape, Moves, Set, Steps, Reread, Flush, Uploaded, PublishMissing, Retry
<1>1. UNCHANGED <<dest, seen, agreed, last, saved, own, cut, head, files>>
  BY DEF folder, server, history, target, locals
<1>2. /\ pc' \in [Publishes -> Steps \cup Ended] /\ pc[p] \in {"uploading", "publishing"} /\ pc'[p] \in {"uploading", "publishing"}
      /\ \A q \in Publishes \ {p} : pc'[q] = pc[q]
  OBVIOUS
<1>3. PublishShape' /\ RecordedIsOwn'
  BY <1>1, <1>2 DEF RecordedIsOwn
<1>4. RunOf(p)'
  BY <1>1, <1>2 DEF RunOf
<1> QED
  BY <1>1, <1>2, <1>3, <1>4, StepKeeps

\* What the server does for a publish.
LEMMA ServeMakes ==
  ASSUME PublishShape, NEW p \in Publishes, dest[p] \in Orgs, Serve(p)
  PROVE  /\ head' \in [Orgs -> Revisions] /\ files' = [r \in Revisions |-> files'[r]]
         /\ \A r \in Revisions \ {p} : files'[r] = files[r]
<1>1. CASE Same(p)
  BY <1>1 DEF Serve, server, PublishShape
<1>2. CASE ~Same(p)
  <2>1. head' = [head EXCEPT ![dest[p]] = p] /\ files' = [files EXCEPT ![p] = oids[p]] /\ p \in Revisions
    BY <1>2 DEF Serve, Set, Revisions
  <2>2. head' \in [Orgs -> Revisions]
    BY <2>1 DEF PublishShape
  <2>3. files' = [r \in Revisions |-> files'[r]] /\ \A r \in Revisions \ {p} : files'[r] = files[r]
    BY <2>1 DEF PublishShape
  <2> QED
    BY <2>2, <2>3
<1> QED
  BY <1>1, <1>2

LEMMA PublishKeeps ==
  ASSUME PublishInv, NEW p \in Publishes, Publish(p)
  PROVE  PublishInv'
<1> USE DEF PublishInv, Moves, Set
<1>1. pc[p] = "publishing" /\ dest[p] \in Orgs /\ FolderOf(p) \in Folders
  BY DEF Publish, RunOf, Steps, Folders
<1>2. /\ head' \in [Orgs -> Revisions] /\ files' = [r \in Revisions |-> files'[r]]
      /\ \A r \in Revisions \ {p} : files'[r] = files[r]
  BY <1>1, ServeMakes DEF Publish
<1>3. /\ pc' = [pc EXCEPT ![p] = "record"] /\ seen' = [seen EXCEPT ![p] = head'[dest[p]]]
      /\ own' = [own EXCEPT ![FolderOf(p)][dest[p]] = @ \cup {seen'[p]}] /\ agreed' = [agreed EXCEPT ![p] = FALSE]
      /\ UNCHANGED <<last, dest, saved, cut>>
  BY DEF Publish, folder, target
<1>4. seen'[p] \in Revisions
  BY <1>1, <1>2, <1>3 DEF PublishShape
<1>5. /\ own' \in [Folders -> [Orgs -> SUBSET Revisions]] /\ seen'[p] \in own'[FolderOf(p)][dest[p]]
      /\ \A f \in Folders, o \in Orgs : own[f][o] \subseteq own'[f][o]
  BY <1>1, <1>3, <1>4 DEF PublishShape
<1>6. PublishShape'
  BY <1>2, <1>3, <1>4, <1>5 DEF PublishShape, Steps
<1>7. RecordedIsOwn'
  BY <1>3, <1>5 DEF RecordedIsOwn
<1>8. RunOf(p)'
  <2>1. pc'[p] = "record"
    BY <1>3 DEF PublishShape
  <2>2. \A o \in Orgs : saved'[p][o] \in own'[FolderOf(p)][o] \cup {Nothing}
    BY <1>1, <1>3, <1>5 DEF RunOf
  <2> QED
    BY <1>1, <1>3, <1>5, <2>1, <2>2 DEF RunOf
<1>9. \A q \in Publishes \ {p} : /\ pc'[q] = pc[q] /\ dest'[q] = dest[q] /\ seen'[q] = seen[q]
                                 /\ agreed'[q] = agreed[q] /\ saved'[q] = saved[q] /\ files'[q] = files[q]
  BY <1>2, <1>3 DEF PublishShape, Revisions
<1> QED
  BY <1>3, <1>5, <1>6, <1>7, <1>8, <1>9, StepKeeps

LEMMA RecordReadKeeps ==
  ASSUME PublishInv, NEW p \in Publishes, RecordRead(p)
  PROVE  PublishInv'
<1> USE DEF PublishInv, PublishShape, RecordRead, Moves, Set, Steps
<1>1. pc[p] = "record" /\ pc' = [pc EXCEPT ![p] = "writing"] /\ saved' = [saved EXCEPT ![p] = last[FolderOf(p)]] /\ FolderOf(p) \in Folders
  BY DEF Folders
<1>2. UNCHANGED <<dest, seen, agreed, last, own, cut, head, files>>
  BY DEF folder, server, history, target
<1>3. PublishShape'
  BY <1>1, <1>2
<1>4. RecordedIsOwn'
  BY <1>2, SMTT(30) DEF RecordedIsOwn
<1>5. RunOf(p)'
  <2>1. pc'[p] = "writing" /\ saved'[p] = last[FolderOf(p)]
    BY <1>1
  <2>2. seen[p] \in own[FolderOf(p)][dest[p]] /\ dest[p] \in Orgs
    BY <1>1 DEF RunOf
  <2>3. \A o \in Orgs : saved'[p][o] \in own'[FolderOf(p)][o] \cup {Nothing}
    BY <1>1, <1>2, <2>1 DEF RecordedIsOwn
  <2> HIDE DEF PublishInv, PublishShape, RecordRead, Steps
  <2> QED
    BY <1>2, <2>1, <2>2, <2>3 DEF RunOf
<1> QED
  BY <1>1, <1>2, <1>3, <1>4, <1>5, StepKeeps

\* A run whose process ends, its revision recorded, lost or not made.
LEMMA EndingKeeps ==
  ASSUME PublishInv, NEW p \in Publishes, NEW end \in Ended, pc' = [pc EXCEPT ![p] = end], Gone(p),
         PublishShape', RecordedIsOwn', own' = own, cut \subseteq cut',
         \A q \in Publishes \ {p} : files'[q] = files[q],
         files'[p] # <<>> => end # "not published" \/ p \in cut'
  PROVE  PublishInv'
<1> USE DEF PublishInv, PublishShape, Gone, Set
<1>1. RunOf(p)'
  <2>1. pc'[p] = end /\ saved'[p] = Unrecorded
    OBVIOUS
  <2>2. \A o \in Orgs : saved'[p][o] = Nothing
    BY <2>1 DEF Unrecorded
  <2> HIDE DEF PublishInv, PublishShape, Gone, Set
  <2> QED
    BY <2>1, <2>2 DEF RunOf, Ended, Steps
<1>2. \A q \in Publishes \ {p} : /\ pc'[q] = pc[q] /\ dest'[q] = dest[q] /\ seen'[q] = seen[q]
                                 /\ agreed'[q] = agreed[q] /\ saved'[q] = saved[q]
  BY ZenonT(60)
<1> QED
  BY <1>1, <1>2, StepKeeps

\* What a run leaves of itself when it ends, whatever its end.
LEMMA GoneIsShaped ==
  ASSUME PublishShape, NEW p \in Publishes, NEW end \in Ended, pc' = [pc EXCEPT ![p] = end], Gone(p),
         last' \in [Folders -> [Orgs -> Revisions \cup {Nothing}]], own' = own, cut' \subseteq Publishes,
         head' \in [Orgs -> Revisions], files' = [r \in Revisions |-> files'[r]]
  PROVE  PublishShape'
BY DEF PublishShape, Gone, Unrecorded

LEMMA RecordingKeeps ==
  ASSUME PublishInv, NEW p \in Publishes, RecordWrite(p) \/ RecordFails(p)
  PROVE  PublishInv'
<1> USE DEF PublishInv, Moves, Set
<1>1. pc[p] = "writing" /\ pc' = [pc EXCEPT ![p] = "published"] /\ Gone(p) /\ UNCHANGED <<own, cut, head, files>>
  BY DEF RecordWrite, RecordFails, folder, server, history
<1>2. dest[p] \in Orgs /\ FolderOf(p) \in Folders /\ seen[p] \in own[FolderOf(p)][dest[p]]
  BY <1>1 DEF RunOf, Steps, Folders
<1>3. last' = last \/ last' = [last EXCEPT ![FolderOf(p)] = [saved[p] EXCEPT ![dest[p]] = seen[p]]]
  BY DEF RecordWrite, RecordFails, folder
<1>4. last' \in [Folders -> [Orgs -> Revisions \cup {Nothing}]] /\ RecordedIsOwn'
  <2>1. CASE last' = last
    BY <1>1, <2>1 DEF PublishShape, RecordedIsOwn
  <2>2. CASE last' = [last EXCEPT ![FolderOf(p)] = [saved[p] EXCEPT ![dest[p]] = seen[p]]]
    <3> DEFINE new == [saved[p] EXCEPT ![dest[p]] = seen[p]]
    <3>1. new \in [Orgs -> Revisions \cup {Nothing}]
      BY DEF PublishShape
    <3>2. \A o \in Orgs : new[o] \in own[FolderOf(p)][o] \cup {Nothing}
      <4>1. \A o \in Orgs : saved[p][o] \in own[FolderOf(p)][o] \cup {Nothing}
        BY DEF RunOf
      <4>2. saved[p] \in [Orgs -> Revisions \cup {Nothing}]
        BY DEF PublishShape
      <4> QED
        BY <1>2, <4>1, <4>2
    <3>3. last' = [last EXCEPT ![FolderOf(p)] = new]
      BY <2>2
    <3> HIDE DEF new
    <3>4. last' \in [Folders -> [Orgs -> Revisions \cup {Nothing}]]
      BY <3>1, <3>3 DEF PublishShape
    <3>5. RecordedIsOwn'
      BY <1>1, <1>2, <3>2, <3>3 DEF PublishShape, RecordedIsOwn
    <3> QED
      BY <3>4, <3>5, SMTT(30)
  <2> QED
    BY <1>3, <2>1, <2>2
<1>5. PublishShape'
  BY <1>1, <1>4, GoneIsShaped DEF PublishShape, Ended
<1> QED
  BY <1>1, <1>4, <1>5, EndingKeeps DEF Ended

LEMMA FailingKeeps ==
  ASSUME PublishInv, NEW p \in Publishes, Fail(p) \/ LoseUpload(p)
  PROVE  PublishInv'
<1> USE DEF PublishInv, Moves, Set
<1>1. /\ pc[p] \in Open /\ pc' = [pc EXCEPT ![p] = "not published"] /\ Gone(p)
      /\ UNCHANGED <<last, own, cut, head, files>>
  BY DEF Fail, LoseUpload, MayFail, Open, Steps, folder, server, history
<1>2. files[p] = <<>>
  BY <1>1 DEF RunOf, Open, Steps
<1>3. RecordedIsOwn'
  BY <1>1 DEF RecordedIsOwn
<1>4. PublishShape'
  BY <1>1, GoneIsShaped DEF PublishShape, Ended
<1> QED
  BY <1>1, <1>2, <1>3, <1>4, EndingKeeps DEF Ended

LEMMA LosePublishKeeps ==
  ASSUME PublishInv, NEW p \in Publishes, LosePublish(p)
  PROVE  PublishInv'
<1> USE DEF PublishInv, Moves, Set
<1>1. /\ pc[p] = "publishing" /\ pc' = [pc EXCEPT ![p] = "not published"] /\ Gone(p) /\ Serve(p)
      /\ cut' = cut \cup {p} /\ UNCHANGED <<last, own>>
  BY DEF LosePublish, folder
<1>2. dest[p] \in Orgs
  BY <1>1 DEF RunOf, Steps
<1>3. /\ head' \in [Orgs -> Revisions] /\ files' = [r \in Revisions |-> files'[r]]
      /\ \A q \in Publishes \ {p} : files'[q] = files[q]
  BY <1>1, <1>2, ServeMakes DEF Revisions
<1>4. RecordedIsOwn'
  BY <1>1 DEF RecordedIsOwn
<1>5. PublishShape'
  BY <1>1, <1>3, GoneIsShaped DEF PublishShape, Ended
<1> QED
  BY <1>1, <1>3, <1>4, <1>5, EndingKeeps DEF Ended

LEMMA KillKeeps ==
  ASSUME PublishInv, NEW p \in Publishes, Kill(p)
  PROVE  PublishInv'
<1> USE DEF PublishInv, Set
<1>1. pc' = [pc EXCEPT ![p] = "killed"] /\ Gone(p) /\ UNCHANGED <<own, cut, head, files>>
  BY DEF Kill, server, history
<1>2. last' = last \/ last' = [last EXCEPT ![FolderOf(p)] = Unrecorded]
  BY DEF Kill
<1>3. Unrecorded \in [Orgs -> Revisions \cup {Nothing}] /\ \A o \in Orgs : Unrecorded[o] = Nothing
  BY DEF Unrecorded
<1>4. last' \in [Folders -> [Orgs -> Revisions \cup {Nothing}]]
  BY <1>2, <1>3 DEF PublishShape
<1>5. RecordedIsOwn'
  BY <1>1, <1>2, <1>3 DEF PublishShape, RecordedIsOwn
<1>6. PublishShape'
  BY <1>1, <1>4, GoneIsShaped DEF PublishShape, Ended
<1> QED
  BY <1>1, <1>5, <1>6, EndingKeeps DEF Ended

\* The person, other publishers, the server's collector, and nothing at all.
LEMMA WorldKeeps ==
  ASSUME PublishInv,
         \/ \E f \in Folders, x \in Paths, b \in Blobs : Edit(f, x, b)
         \/ \E o \in Orgs, r \in Others, fs \in TheirFiles : PublishElsewhere(o, r, fs)
         \/ \E o \in Orgs, b \in Blobs : Collect(o, b)
         \/ UNCHANGED vars
  PROVE  PublishInv'
<1> USE DEF PublishInv, PublishShape
<1>1. UNCHANGED <<pc, dest, seen, agreed, last, saved, own, cut>>
  BY DEF Edit, PublishElsewhere, Collect, vars, folder, locals, history, target
<1>2. /\ head' \in [Orgs -> Revisions] /\ files' = [r \in Revisions |-> files'[r]]
      /\ \A p \in Publishes : files'[p] = files[p]
  <2>1. ASSUME NEW o \in Orgs, NEW r \in Others, NEW fs \in TheirFiles, PublishElsewhere(o, r, fs)
        PROVE  /\ head' \in [Orgs -> Revisions] /\ files' = [x \in Revisions |-> files'[x]]
               /\ \A p \in Publishes : files'[p] = files[p]
    <3>1. head' = [head EXCEPT ![o] = r] /\ files' = [files EXCEPT ![r] = fs] /\ r \in Revisions /\ r \notin Publishes
      BY <2>1 DEF PublishElsewhere, Revisions
    <3>2. head' \in [Orgs -> Revisions]
      BY <3>1
    <3>3. files' = [x \in Revisions |-> files'[x]] /\ \A p \in Publishes : files'[p] = files[p]
      BY <3>1 DEF Revisions
    <3> QED
      BY <3>2, <3>3
  <2>2. CASE head' = head /\ files' = files
    BY <2>2
  <2> QED
    BY <2>1, <2>2 DEF Edit, Collect, vars, server, folder
<1>3. PublishShape' /\ RecordedIsOwn'
  BY <1>1, <1>2 DEF RecordedIsOwn
<1>4. \A p \in Publishes : RunOf(p)'
  BY <1>1, <1>2, <1>3, OthersStay
<1> QED
  BY <1>3, <1>4

LEMMA PublishGoesOn == PublishInv /\ [Next]_vars => PublishInv'
<1> SUFFICES ASSUME PublishInv, [Next]_vars PROVE PublishInv'
  OBVIOUS
<1>1. ASSUME NEW p \in Publishes, Step(p) PROVE PublishInv'
  BY <1>1, AskingKeeps, UploadingKeeps, PublishKeeps, RecordReadKeeps, RecordingKeeps, FailingKeeps DEF Step
<1>2. ASSUME NEW p \in Publishes, LoseUpload(p) \/ LosePublish(p) \/ Kill(p) PROVE PublishInv'
  BY <1>2, FailingKeeps, LosePublishKeeps, KillKeeps
<1> QED
  BY <1>1, <1>2, WorldKeeps DEF Next

-----------------------------------------------------------------------------
\* A run that ends saying it has not published made no revision, unless its
\* publish was done and not answered (cmd/anfra/publish.go:89).
THEOREM NotPublishedIsTrue == Spec => []NotPublishedIsSo
<1>1. PublishInv => NotPublishedIsSo
  BY DEF PublishInv, RunOf, NotPublishedIsSo
<1> QED
  BY <1>1, PublishStarts, PublishGoesOn, PTL DEF Spec

\* What a publish replaces was its folder's own, nobody's, or agreed to, unless
\* it was published after the org's status was answered (publish.go:213).
THEOREM ReplacesAsAgreed == Spec => ReplacesUnagreedOnlyIfLate
<1>1. ASSUME PublishInv, Next, NEW p \in Publishes, Replaces(p), head[dest[p]] = seen[p]
      PROVE  Agreed(p, head[dest[p]])
  BY <1>1 DEF Replaces, Agreed, PublishInv, RunOf
<1>2. PublishInv /\ [Next]_vars =>
        [\A p \in Publishes : Replaces(p) => Agreed(p, head[dest[p]]) \/ head[dest[p]] # seen[p]]_vars
  BY <1>1
<1> QED
  BY <1>2, PublishStarts, PublishGoesOn, PTL DEF Spec, ReplacesUnagreedOnlyIfLate

-----------------------------------------------------------------------------
(* What a run uploads at once. *)

\* The files a run has read fit, once they are checked; so does each one still
\* to upload; and those of its next call fit it together.
UploadShape ==
  /\ pc \in [Publishes -> Steps \cup Ended]
  /\ oids = [p \in Publishes |-> oids[p]]
  /\ missing = [p \in Publishes |-> missing[p]]
  /\ batch = [p \in Publishes |-> batch[p]]

Fitting(B) == \A b \in B : SizeOf(b) <= MaxFileBytes

UploadOf(p) ==
  /\ pc[p] \in {"confirm", "listing", "uploading", "publishing"} => Fits(p)
  /\ Fitting(missing[p])
  /\ IsFiniteSet(batch[p]) /\ Cardinality(batch[p]) <= UploadBlobs
  /\ IsFiniteSet(Content(batch[p])) /\ Bytes(batch[p]) <= UploadBytes

UploadInv == UploadShape /\ \A p \in Publishes : UploadOf(p)

LEMMA NoBytes == IsFiniteSet(Content({})) /\ Bytes({}) = 0
  BY FS_EmptySet DEF Content, Bytes

LEMMA BytesAdded ==
  ASSUME NEW B, NEW b \in Blobs, IsFiniteSet(Content(B))
  PROVE  /\ IsFiniteSet(Content(B \cup {b})) /\ Bytes(B) \in Nat /\ Bytes(B \cup {b}) \in Nat
         /\ Bytes(B \cup {b}) <= Bytes(B) + SizeOf(b)
<1> DEFINE C == {b} \X (1 .. SizeOf(b))
<1>1. Content(B \cup {b}) = Content(B) \cup C
  BY DEF Content
<1>2. SizeOf(b) \in Nat
  BY PublishAssumption
<1>3. IsFiniteSet(1 .. SizeOf(b)) /\ Cardinality(1 .. SizeOf(b)) = SizeOf(b)
  BY <1>2, FS_Interval
<1>4. IsFiniteSet(C) /\ Cardinality(C) = SizeOf(b)
  <2>1. IsFiniteSet({b}) /\ Cardinality({b}) = 1
    BY FS_Singleton
  <2>2. IsFiniteSet(C) /\ Cardinality(C) = 1 * SizeOf(b)
    BY <1>3, <2>1, FS_Product, ZenonT(60)
  <2> QED
    BY <1>2, <2>2
<1> HIDE DEF C
<1>5. /\ IsFiniteSet(Content(B) \cup C)
      /\ Cardinality(Content(B) \cup C) = Cardinality(Content(B)) + Cardinality(C) - Cardinality(Content(B) \cap C)
  BY <1>4, FS_Union
<1>6. IsFiniteSet(Content(B) \cap C)
  <2>1. Content(B) \cap C \subseteq C
    OBVIOUS
  <2> QED
    BY <1>4, <2>1, FS_Subset
<1>7. /\ Cardinality(Content(B)) \in Nat /\ Cardinality(Content(B) \cap C) \in Nat
      /\ Cardinality(Content(B) \cup C) \in Nat
  BY <1>5, <1>6, FS_CardinalityType
<1>8. Cardinality(Content(B) \cup C) <= Cardinality(Content(B)) + SizeOf(b)
  BY <1>2, <1>4, <1>5, <1>7
<1> QED
  BY <1>1, <1>5, <1>7, <1>8 DEF Bytes

LEMMA UploadStarts == Init => UploadInv
  BY NoBytes, FS_EmptySet DEF Init, UploadInv, UploadShape, UploadOf, Fitting, Steps

\* A run with nothing more to upload, or as much as before.
LEMMA UploadKept ==
  ASSUME UploadInv, UploadShape', NEW q \in Publishes,
         batch'[q] \in {batch[q], {}}, missing'[q] = {} \/ Fitting(missing'[q]),
         pc'[q] \in {"confirm", "listing", "uploading", "publishing"} =>
           \A b \in Range(oids'[q]) : SizeOf(b) <= MaxFileBytes
  PROVE  UploadOf(q)'
<1>1. IsFiniteSet(batch'[q]) /\ Cardinality(batch'[q]) <= UploadBlobs
  <2>1. Cardinality({}) = 0 /\ 0 <= UploadBlobs /\ IsFiniteSet({})
    BY FS_EmptySet, PublishAssumption
  <2> QED
    BY <2>1 DEF UploadInv, UploadOf
<1>2. IsFiniteSet(Content(batch'[q])) /\ Bytes(batch'[q]) <= UploadBytes
  <2>1. Bytes({}) = 0 /\ 0 <= UploadBytes /\ IsFiniteSet(Content({}))
    BY NoBytes, PublishAssumption
  <2> QED
    BY <2>1 DEF UploadInv, UploadOf
<1> QED
  BY <1>1, <1>2 DEF UploadOf, Fitting, Fits, Range, Content, Bytes

LEMMA UploadGoesOn == UploadInv /\ [Next]_vars => UploadInv'
<1> SUFFICES ASSUME UploadInv, [Next]_vars PROVE UploadInv'
  OBVIOUS
<1> USE DEF UploadInv
<1>1. ASSUME NEW p \in Publishes, NEW b \in Blobs, Reread(p, b) PROVE UploadInv'
  <2>1. /\ pc' = pc /\ oids' = oids /\ missing' = [missing EXCEPT ![p] = missing[p] \ {b}]
        /\ batch' = [batch EXCEPT ![p] = batch[p] \cup {b}] /\ pc[p] = "uploading" /\ b \in missing[p]
        /\ batch[p] = {} \/ ~Full(p, b)
    BY <1>1 DEF Reread, target, Set
  <2>2. UploadShape'
    BY <2>1 DEF UploadShape
  <2>3. ASSUME NEW q \in Publishes, q # p PROVE UploadOf(q)'
    BY <2>1, <2>2, <2>3, UploadKept DEF UploadShape, UploadOf, Fits
  <2>4. batch'[p] = batch[p] \cup {b} /\ missing'[p] = missing[p] \ {b}
    BY <2>1 DEF UploadShape
  <2>5. IsFiniteSet(batch'[p]) /\ Cardinality(batch'[p]) <= UploadBlobs
    <3>1. /\ IsFiniteSet(batch[p]) /\ Cardinality(batch[p]) \in Nat /\ Cardinality(batch[p]) <= UploadBlobs
      BY FS_CardinalityType DEF UploadOf
    <3>4. IsFiniteSet(batch[p] \cup {b}) /\ Cardinality(batch[p] \cup {b}) \in {Cardinality(batch[p]), Cardinality(batch[p]) + 1}
      BY <3>1, FS_AddElement
    <3>5. UploadBlobs \in Nat /\ 1 <= UploadBlobs
      BY PublishAssumption
    <3>2. CASE batch[p] = {}
      <4>1. Cardinality(batch[p] \cup {b}) = 1
        <5>1. batch[p] \cup {b} = {b}
          BY <3>2
        <5>2. Cardinality({b}) = 1
          BY FS_Singleton
        <5> QED
          BY <5>1, <5>2
      <4> QED
        BY <2>4, <3>4, <3>5, <4>1
    <3>3. CASE Cardinality(batch[p]) # UploadBlobs
      BY <2>4, <3>1, <3>3, <3>4, <3>5
    <3> QED
      BY <2>1, <3>2, <3>3 DEF Full
  <2>6. IsFiniteSet(Content(batch'[p])) /\ Bytes(batch'[p]) <= UploadBytes
    <3>1. /\ IsFiniteSet(Content(batch[p] \cup {b})) /\ Bytes(batch[p]) \in Nat /\ Bytes(batch[p] \cup {b}) \in Nat
          /\ Bytes(batch[p] \cup {b}) <= Bytes(batch[p]) + SizeOf(b) /\ SizeOf(b) \in Nat
      BY BytesAdded, PublishAssumption DEF UploadOf
    <3>2. CASE batch[p] = {}
      <4>1. SizeOf(b) <= MaxFileBytes /\ MaxFileBytes <= UploadBytes
        BY <2>1, PublishAssumption DEF UploadOf, Fitting, MaxFileBytes
      <4>2. Bytes(batch[p]) = 0 /\ MaxFileBytes \in Nat
        BY <3>2, NoBytes, PublishAssumption DEF MaxFileBytes
      <4> QED
        BY <2>4, <3>1, <4>1, <4>2, PublishAssumption
    <3>3. CASE ~(Bytes(batch[p]) + SizeOf(b) > UploadBytes)
      BY <2>4, <3>1, <3>3, PublishAssumption
    <3> QED
      BY <2>1, <3>2, <3>3 DEF Full
  <2>7. UploadOf(p)'
    BY <2>1, <2>4, <2>5, <2>6 DEF UploadOf, Fitting, Fits, Range, Content, Bytes
  <2> QED
    BY <2>2, <2>3, <2>7
<1>2. ASSUME NEW p \in Publishes, \A q \in Publishes \ {p} : batch'[q] = batch[q] /\ missing'[q] = missing[q] /\ pc'[q] = pc[q] /\ oids'[q] = oids[q],
             UploadShape', batch'[p] \in {batch[p], {}}, Fitting(missing'[p]),
             pc'[p] \in {"confirm", "listing", "uploading", "publishing"} => \A b \in Range(oids'[p]) : SizeOf(b) <= MaxFileBytes
      PROVE  UploadInv'
  <2>1. ASSUME NEW q \in Publishes, q # p PROVE UploadOf(q)'
    BY <1>2, <2>1, UploadKept DEF UploadOf, Fits
  <2>2. UploadOf(p)'
    BY <1>2, UploadKept
  <2> QED
    BY <1>2, <2>1, <2>2
<1>3. ASSUME NEW p \in Publishes, NEW o \in Orgs, Begin(p, o) \/ Login(p, o) PROVE UploadInv'
  <2>1. UNCHANGED <<oids, missing, batch>> /\ pc' = [pc EXCEPT ![p] = IF pc[p] = "off" THEN "destination" ELSE "reading"]
        /\ pc[p] \in {"off", "destination"}
    BY <1>3 DEF Begin, Login, Moves, upload
  <2>2. UploadShape' /\ pc'[p] \in {"destination", "reading"} /\ \A q \in Publishes \ {p} : pc'[q] = pc[q]
    BY <2>1 DEF UploadShape, Steps
  <2> QED
    BY <1>2, <2>1, <2>2 DEF UploadOf
<1>4. ASSUME NEW p \in Publishes, Read(p) PROVE UploadInv'
  <2>1. UNCHANGED <<missing, batch>> /\ pc' = [pc EXCEPT ![p] = "status"] /\ oids' = [oids EXCEPT ![p] = disk[FolderOf(p)]]
    BY <1>4 DEF Read, Moves, upload, Set
  <2>2. UploadShape' /\ pc'[p] = "status" /\ \A q \in Publishes \ {p} : pc'[q] = pc[q] /\ oids'[q] = oids[q]
    BY <2>1 DEF UploadShape, Steps
  <2> QED
    BY <1>2, <2>1, <2>2 DEF UploadOf
<1>5. ASSUME NEW p \in Publishes, Status(p) \/ Confirm(p) \/ Uploaded(p) PROVE UploadInv'
  <2>1. UNCHANGED <<oids, missing, batch>> /\ Fits(p)
        /\ \E to \in {"confirm", "listing", "publishing"} : pc' = [pc EXCEPT ![p] = to]
    BY <1>5 DEF Status, Confirm, Uploaded, Moves, upload, locals, UploadOf
  <2>2. UploadShape' /\ \A q \in Publishes \ {p} : pc'[q] = pc[q]
    BY <2>1 DEF UploadShape, Steps
  <2> QED
    BY <1>2, <2>1, <2>2 DEF UploadOf, Fits
<1>6. ASSUME NEW p \in Publishes, ListMissing(p) \/ PublishMissing(p) PROVE UploadInv'
  <2>1. UNCHANGED <<oids, batch>> /\ Fits(p) /\ pc' = [pc EXCEPT ![p] = "uploading"]
        /\ missing' = [missing EXCEPT ![p] = Range(oids[p]) \ blobs[dest[p]]]
    BY <1>6 DEF ListMissing, PublishMissing, Moves, target, UploadOf, Set
  <2>2. UploadShape' /\ missing'[p] \subseteq Range(oids[p]) /\ \A q \in Publishes \ {p} : pc'[q] = pc[q] /\ missing'[q] = missing[q]
    BY <2>1 DEF UploadShape, Steps
  <2> QED
    BY <1>2, <2>1, <2>2 DEF UploadOf, Fits, Fitting
<1>7. ASSUME NEW p \in Publishes, Flush(p) PROVE UploadInv'
  <2>1. UNCHANGED <<pc, oids, missing>> /\ batch' = [batch EXCEPT ![p] = {}]
    BY <1>7 DEF Flush, target, Set
  <2>2. UploadShape' /\ batch'[p] = {} /\ \A q \in Publishes \ {p} : batch'[q] = batch[q]
    BY <2>1 DEF UploadShape
  <2> QED
    BY <1>2, <2>1, <2>2 DEF UploadOf, Fits
<1>8. ASSUME NEW p \in Publishes, Publish(p) PROVE UploadInv'
  <2>1. UNCHANGED <<missing, batch>> /\ pc' = [pc EXCEPT ![p] = "record"] /\ oids' = [oids EXCEPT ![p] = <<>>]
    BY <1>8 DEF Publish, Moves, upload, Set
  <2>2. UploadShape' /\ pc'[p] = "record" /\ \A q \in Publishes \ {p} : pc'[q] = pc[q] /\ oids'[q] = oids[q]
    BY <2>1 DEF UploadShape, Steps
  <2> QED
    BY <1>2, <2>1, <2>2 DEF UploadOf
<1>9. ASSUME NEW p \in Publishes, RecordRead(p) PROVE UploadInv'
  <2>1. UNCHANGED <<oids, missing, batch>> /\ pc' = [pc EXCEPT ![p] = "writing"]
    BY <1>9 DEF RecordRead, Moves, upload
  <2>2. UploadShape' /\ pc'[p] = "writing" /\ \A q \in Publishes \ {p} : pc'[q] = pc[q]
    BY <2>1 DEF UploadShape, Steps
  <2> QED
    BY <1>2, <2>1, <2>2 DEF UploadOf
<1>10. ASSUME NEW p \in Publishes, Gone(p), NEW to \in Ended, pc' = [pc EXCEPT ![p] = to] PROVE UploadInv'
  <2>1. /\ oids' = [oids EXCEPT ![p] = <<>>] /\ missing' = [missing EXCEPT ![p] = {}] /\ batch' = [batch EXCEPT ![p] = {}]
    BY <1>10 DEF Gone
  <2>2. UploadShape' /\ pc'[p] = to /\ batch'[p] = {} /\ missing'[p] = {}
        /\ \A q \in Publishes \ {p} : pc'[q] = pc[q] /\ oids'[q] = oids[q] /\ batch'[q] = batch[q] /\ missing'[q] = missing[q]
    BY <1>10, <2>1 DEF UploadShape
  <2>3. to \notin {"confirm", "listing", "uploading", "publishing"} /\ Fitting(missing'[p])
    BY <2>2 DEF Ended, Fitting
  <2> QED
    BY <1>2, <2>2, <2>3
<1>11. ASSUME NEW p \in Publishes, RecordWrite(p) \/ RecordFails(p) \/ Fail(p) \/ LoseUpload(p) \/ LosePublish(p) \/ Kill(p) PROVE UploadInv'
  <2>1. Gone(p) /\ \E to \in Ended : pc' = [pc EXCEPT ![p] = to]
    BY <1>11 DEF RecordWrite, RecordFails, Fail, LoseUpload, LosePublish, Kill, Moves, Set, Ended
  <2> QED
    BY <1>10, <2>1
<1>12. CASE UNCHANGED <<pc, oids, missing, batch>>
  <2>1. UploadShape'
    BY <1>12 DEF UploadShape
  <2>2. ASSUME NEW q \in Publishes PROVE UploadOf(q)'
    BY <1>12, <2>1, UploadKept DEF UploadOf, Fits
  <2> QED
    BY <2>1, <2>2
<1>13. ASSUME \/ \E f \in Folders, x \in Paths, b \in Blobs : Edit(f, x, b)
              \/ \E o \in Orgs, r \in Others, fs \in TheirFiles : PublishElsewhere(o, r, fs)
              \/ \E o \in Orgs, b \in Blobs : Collect(o, b)
              \/ UNCHANGED vars
       PROVE  UNCHANGED <<pc, oids, missing, batch>>
  BY <1>13 DEF Edit, PublishElsewhere, Collect, vars, locals, upload
<1> QED
  BY <1>1, <1>3, <1>4, <1>5, <1>6, <1>7, <1>8, <1>9, <1>11, <1>12, <1>13 DEF Next, Step

\* For any sizes, limits and runs: what a run that has not published says is so
\* (cmd/anfra/publish.go:89), and no call uploads more than the server's limits
\* let it, in files or in bytes (publish.go:342).
THEOREM PublishingIsSound == Spec => []PublishIsSound
<1>1. UploadInv => UploadsWithinLimits
  BY DEF UploadInv, UploadOf, UploadsWithinLimits
<1>2. Spec => []UploadsWithinLimits
  BY <1>1, UploadStarts, UploadGoesOn, PTL DEF Spec
<1> QED
  BY <1>2, NotPublishedIsTrue, PTL DEF PublishIsSound

-----------------------------------------------------------------------------
(* What a publish offers to add to the org. *)

HIDE PublishAssumption

Offering == {"asking", "signing in", "session", "again", "token", "upload", "copies"}

\* Where the offer is tells what it has to do, and with what.
Placed ==
  /\ err => offer \in {"finish", "failed", "killed"}
  /\ offer \in Offering => file \in Files
  /\ offer \in {"list", "direct"} => md.token = "none"
  /\ offer \in {"upload", "copies"} => md.token # "none"
  /\ offer = "direct" => todo \subseteq Warehouse
  /\ offer = "copies" => todo \subseteq Duck
  /\ offer \in {"direct", "copies"} => \A d \in todo : org[d] = "none"

\* A data source the org lacks is named, left out, or has its turn to come.
Mentioned ==
  offer \in OfferSteps \ {"list"} /\ ~err => \A s \in Local : org[s] = "none" =>
    \/ s \in said \cup skipped
    \/ offer = "direct" /\ s \in todo
    \/ offer # "finish" /\ \E f \in unoffered : s \in SourcesOf(f)

\* A token that works is the one made, and what reads with it is known but for
\* a lost answer.
TokenKnown ==
  /\ live => md.token = "ours"
  /\ md.used => md.token # "none" /\ \E s \in Duck : org[s] = md.token
  /\ (\E s \in Duck : org[s] = "ours") => md.used \/ "answer" \in lost
  /\ md.token # "ours" => \A s \in Duck : org[s] # "ours"

\* The account of the session is the one named, unless it was switched.
AccountNamed ==
  /\ md.seen \in Accounts /\ "account" \notin lost => cli = md.seen
  /\ md.user # SignedOut => md.user = md.seen /\ md.user \in Accounts
  /\ offer = "session" => md.seen \in Accounts /\ md.user = SignedOut
  /\ offer = "signing in" => md.seen # NotYet
  /\ md.token # "none" => md.user # SignedOut
  /\ offer \in {"again", "token", "upload"} => md.user # SignedOut
  /\ offer \in {"signing in", "token", "upload"} /\ md.user # SignedOut => md.named = md.user

\* EndIsTold, in its parts.
TokenIsSaid ==
  offer \in {"ok", "failed"} /\ live => <<md.user, TheToken>> \in warned \/ \E s \in Duck : org[s] = "ours"

PartsAreSaid ==
  \A a \in Accounts, n \in Names : dbs[a][n] = "part" => <<a, n>> \in warned \/ "check" \in lost

OfferInv ==
  OfferTypeOK /\ Placed /\ Mentioned /\ TokenKnown /\ AccountNamed
  /\ LackingIsSaid /\ TokenIsSaid /\ PartsAreSaid

LEMMA LeastOf ==
  ASSUME NEW S \in SUBSET Nat, S # {}
  PROVE  Min(S) \in S /\ \A n \in S : Min(S) <= n
<1> DEFINE R == {ss \in Nat \X Nat : ss[1] < ss[2]}
<1>1. OpToRel(<, Nat) = R
  BY Zenon DEF OpToRel
<1>2. IsWellFoundedOn(R, Nat)
  BY <1>1, NatLessThanWellFounded, Zenon
<1>3. PICK m \in S : \A n \in S : ~ (<<n, m>> \in R)
  BY <1>2, WFMin
<1>4. \A n \in S : m <= n
  <2> TAKE n \in S
  <2>1. m \in Nat /\ n \in Nat /\ ~ (<<n, m>> \in R)
    BY <1>3
  <2>2. ~ (n < m)
    BY <2>1
  <2> QED
    BY <2>1, <2>2
<1> QED
  BY <1>4 DEF Min

LEMMA FreeNameIsFree ==
  ASSUME DataSourcesAssumption, HasName
  PROVE  FreeName \in Names
<1>1. Names \ md.databases # {} /\ Names \ md.databases \in SUBSET Nat
  BY DEF HasName, Names, DataSourcesAssumption
<1> QED
  BY <1>1, LeastOf DEF FreeName

LEMMA OfferedAreHere ==
  /\ Duck \subseteq Local /\ Warehouse \subseteq Local
  /\ \A f \in Files : SourcesOf(f) \subseteq Duck
  /\ \A S : Lacks(S) \subseteq S
  /\ \A S \in SUBSET Files : Lacks(UNION {SourcesOf(f) : f \in S}) \subseteq Duck
  BY DEF Duck, Local, Lacks

LEMMA WarnedGrows ==
  ASSUME OfferTypeOK, NEW a \in Accounts, NEW n \in Names \cup {TheToken}
  PROVE  warned \cup {<<a, n>>} \subseteq Accounts \X (Names \cup {TheToken})
  BY DEF OfferTypeOK

LEMMA ActsAreLeft ==
  ASSUME OfferTypeOK, DataSourcesAssumption, others > 0
  PROVE  others - 1 \in 0 .. MaxOthers
  BY DEF OfferTypeOK, DataSourcesAssumption

LEMMA ListKeeps ==
  ASSUME OfferInv, List
  PROVE  OfferInv'
<1> USE DataSourcesAssumption DEF OfferInv, List, Passes, person, work, OfferSteps, OfferEnded, Offering, SignedOut, NotYet
<1>1. OfferTypeOK'
  BY OfferedAreHere DEF OfferTypeOK
<1>2. Placed'
  BY OfferedAreHere DEF Placed, OfferTypeOK, MdCopy, Duck, Local, Lacks
<1>3. Mentioned'
  <2>1. ASSUME NEW s \in Local, org'[s] = "none" PROVE s \in todo' \/ \E f \in unoffered' : s \in SourcesOf(f)
    <3>1. CASE s \in Warehouse
      BY <2>1, <3>1 DEF Lacks
    <3>2. CASE s \in Duck
      <4>1. PICK f \in Files : s \in SourcesOf(f)
        BY <3>2 DEF Duck
      <4>2. s \in Lacks(SourcesOf(f))
        BY <2>1, <4>1 DEF Lacks
      <4> QED
        BY <4>1, <4>2
    <3> QED
      BY <3>1, <3>2 DEF Local
  <2> QED
    BY <2>1 DEF Mentioned
<1>4. TokenKnown'
  BY DEF TokenKnown, Placed, OfferTypeOK, MdCopy, Local
<1>5. AccountNamed'
  BY DEF AccountNamed, OfferTypeOK, MdCopy
<1>6. LackingIsSaid'
  BY DEF LackingIsSaid, Mentioned, Placed, OfferTypeOK, Local, Duck
<1>7. TokenIsSaid'
  BY DEF TokenIsSaid, TokenKnown, Placed, OfferTypeOK, MdCopy
<1>8. PartsAreSaid'
  BY DEF PartsAreSaid, OfferTypeOK
<1> QED
  BY <1>1, <1>2, <1>3, <1>4, <1>5, <1>6, <1>7, <1>8

LEMMA ListUnreadKeeps ==
  ASSUME OfferInv, ListUnread
  PROVE  OfferInv'
<1> USE DataSourcesAssumption DEF OfferInv, ListUnread, Passes, person, work, OfferSteps, OfferEnded, Offering, SignedOut, NotYet
<1>1. OfferTypeOK'
  BY DEF OfferTypeOK
<1>2. Placed' /\ Mentioned' /\ LackingIsSaid'
  BY DEF Placed, Mentioned, LackingIsSaid, OfferTypeOK, MdCopy, Local, Duck
<1>3. TokenKnown' /\ AccountNamed' /\ TokenIsSaid' /\ PartsAreSaid'
  BY DEF TokenKnown, AccountNamed, TokenIsSaid, PartsAreSaid, Placed, OfferTypeOK, MdCopy, Local
<1> QED
  BY <1>1, <1>2, <1>3

LEMMA ListForbiddenKeeps ==
  ASSUME OfferInv, ListForbidden
  PROVE  OfferInv'
<1> USE DataSourcesAssumption DEF OfferInv, ListForbidden, Passes, person, work, OfferSteps, OfferEnded, Offering, SignedOut, NotYet
<1>1. OfferTypeOK'
  BY DEF OfferTypeOK
<1>2. Placed' /\ Mentioned' /\ LackingIsSaid'
  BY DEF Placed, Mentioned, LackingIsSaid, OfferTypeOK, MdCopy, Local, Duck
<1>3. TokenKnown' /\ AccountNamed' /\ TokenIsSaid' /\ PartsAreSaid'
  BY DEF TokenKnown, AccountNamed, TokenIsSaid, PartsAreSaid, Placed, OfferTypeOK, MdCopy, Local
<1> QED
  BY <1>1, <1>2, <1>3

LEMMA DeclineKeeps ==
  ASSUME OfferInv, NEW S \in SUBSET todo, Decline(S)
  PROVE  OfferInv'
<1> USE DataSourcesAssumption DEF OfferInv, Decline, Passes, person, work, OfferSteps, OfferEnded, Offering, SignedOut, NotYet
<1>1. OfferTypeOK'
  BY DEF OfferTypeOK
<1>2. Placed' /\ Mentioned' /\ LackingIsSaid'
  BY DEF Placed, Mentioned, LackingIsSaid, OfferTypeOK, MdCopy, Local, Duck
<1>3. TokenKnown' /\ AccountNamed' /\ TokenIsSaid' /\ PartsAreSaid'
  BY DEF TokenKnown, AccountNamed, TokenIsSaid, PartsAreSaid, Placed, OfferTypeOK, MdCopy, Local
<1> QED
  BY <1>1, <1>2, <1>3

LEMMA CreateDirectKeeps ==
  ASSUME OfferInv, NEW d \in todo, CreateDirect(d)
  PROVE  OfferInv'
<1> USE DataSourcesAssumption DEF OfferInv, CreateDirect, Passes, person, work, OfferSteps, OfferEnded, Offering, SignedOut, NotYet
<1>1. OfferTypeOK'
  BY DEF OfferTypeOK
<1>2. Placed' /\ Mentioned' /\ LackingIsSaid'
  BY DEF Placed, Mentioned, LackingIsSaid, OfferTypeOK, MdCopy, Local, Duck
<1>3. TokenKnown' /\ AccountNamed' /\ TokenIsSaid' /\ PartsAreSaid'
  BY DEF TokenKnown, AccountNamed, TokenIsSaid, PartsAreSaid, Placed, OfferTypeOK, MdCopy, Local
<1> QED
  BY <1>1, <1>2, <1>3

LEMMA LoseDirectKeeps ==
  ASSUME OfferInv, NEW d \in todo, LoseDirect(d)
  PROVE  OfferInv'
<1> USE DataSourcesAssumption DEF OfferInv, LoseDirect, Passes, person, work, OfferSteps, OfferEnded, Offering, SignedOut, NotYet
<1>1. OfferTypeOK'
  BY DEF OfferTypeOK
<1>2. Placed' /\ Mentioned' /\ LackingIsSaid'
  BY DEF Placed, Mentioned, LackingIsSaid, OfferTypeOK, MdCopy, Local, Duck
<1>3. TokenKnown' /\ AccountNamed' /\ TokenIsSaid' /\ PartsAreSaid'
  BY DEF TokenKnown, AccountNamed, TokenIsSaid, PartsAreSaid, Placed, OfferTypeOK, MdCopy, Local
<1> QED
  BY <1>1, <1>2, <1>3

LEMMA DirectForbiddenKeeps ==
  ASSUME OfferInv, DirectForbidden
  PROVE  OfferInv'
<1> USE DataSourcesAssumption DEF OfferInv, DirectForbidden, ForbiddenSays, Passes, person, work, OfferSteps, OfferEnded, Offering, SignedOut, NotYet
<1>1. OfferTypeOK'
  BY DEF OfferTypeOK
<1>2. Placed'
  BY DEF Placed, OfferTypeOK, MdCopy, Duck, Local
<1>3. Mentioned'
  BY DEF Mentioned, Placed, OfferTypeOK, Local, Duck
<1>4. TokenKnown'
  BY DEF TokenKnown, Placed, OfferTypeOK, MdCopy, Local
<1>5. AccountNamed'
  BY DEF AccountNamed, OfferTypeOK, MdCopy
<1>6. LackingIsSaid'
  <2>1. ASSUME NEW s \in Local, org[s] = "none"
        PROVE  s \in said \cup skipped \cup todo \/ \E f \in unoffered : s \in SourcesOf(f)
    BY <2>1 DEF Mentioned, Placed
  <2>2. ASSUME NEW f \in unoffered PROVE SourcesOf(f) \subseteq Duck
    BY OfferedAreHere DEF OfferTypeOK
  <2> QED
    BY <2>1, <2>2 DEF LackingIsSaid
<1>7. TokenIsSaid'
  BY DEF TokenIsSaid, TokenKnown, Placed, OfferTypeOK, MdCopy
<1>8. PartsAreSaid'
  BY DEF PartsAreSaid, OfferTypeOK
<1> QED
  BY <1>1, <1>2, <1>3, <1>4, <1>5, <1>6, <1>7, <1>8

LEMMA DirectDoneKeeps ==
  ASSUME OfferInv, DirectDone
  PROVE  OfferInv'
<1> USE DataSourcesAssumption DEF OfferInv, DirectDone, Passes, person, work, OfferSteps, OfferEnded, Offering, SignedOut, NotYet
<1>1. OfferTypeOK'
  BY DEF OfferTypeOK
<1>2. Placed' /\ Mentioned' /\ LackingIsSaid'
  BY DEF Placed, Mentioned, LackingIsSaid, OfferTypeOK, MdCopy, Local, Duck
<1>3. TokenKnown' /\ AccountNamed' /\ TokenIsSaid' /\ PartsAreSaid'
  BY DEF TokenKnown, AccountNamed, TokenIsSaid, PartsAreSaid, Placed, OfferTypeOK, MdCopy, Local
<1> QED
  BY <1>1, <1>2, <1>3

LEMMA LookAheadKeeps ==
  ASSUME OfferInv, LookAhead
  PROVE  OfferInv'
<1> USE DataSourcesAssumption DEF OfferInv, LookAhead, CliStatus, Passes, person, work, OfferSteps, OfferEnded, Offering, SignedOut, NotYet
<1>1. OfferTypeOK'
  <2>1. md' \in MdCopy
    BY DEF OfferTypeOK, AccountNamed, MdCopy
  <2> QED
    BY <2>1 DEF OfferTypeOK
<1>2. Placed' /\ Mentioned' /\ LackingIsSaid'
  BY DEF Placed, Mentioned, LackingIsSaid, OfferTypeOK, MdCopy, Local, Duck
<1>3. TokenKnown' /\ AccountNamed' /\ TokenIsSaid' /\ PartsAreSaid'
  BY DEF TokenKnown, AccountNamed, TokenIsSaid, PartsAreSaid, Placed, OfferTypeOK, MdCopy, Local
<1> QED
  BY <1>1, <1>2, <1>3

LEMMA NextFileKeeps ==
  ASSUME OfferInv, NEW f \in Files, NextFile(f)
  PROVE  OfferInv'
<1> USE DataSourcesAssumption DEF OfferInv, NextFile, Passes, person, work, OfferSteps, OfferEnded, Offering, SignedOut, NotYet
<1>1. OfferTypeOK'
  <2>1. Lacks(SourcesOf(f)) \subseteq Local
    BY OfferedAreHere
  <2>2. said' \subseteq Local \cup {TheFile}
    BY <2>1 DEF OfferTypeOK
  <2> QED
    BY <2>2 DEF OfferTypeOK
<1>2. Placed'
  <2>1. offer' = "asking" /\ file' \in Files
    OBVIOUS
  <2>2. ~err'
    BY DEF Placed, OfferTypeOK
  <2> QED
    BY <2>1, <2>2 DEF Placed
<1>3. Mentioned'
  <2> SUFFICES ASSUME offer' \in OfferSteps \ {"list"}, ~err, NEW s \in Local, org[s] = "none"
               PROVE  \/ s \in said' \cup skipped
                      \/ offer' = "direct" /\ s \in todo
                      \/ offer' # "finish" /\ \E g \in unoffered' : s \in SourcesOf(g)
    BY DEF Mentioned
  <2>1. s \in SourcesOf(f) => s \in said'
    BY DEF Lacks
  <2>2. ASSUME NEW g \in unoffered, s \in SourcesOf(g), g # f PROVE \E h \in unoffered' : s \in SourcesOf(h)
    BY <2>2
  <2> QED
    BY <2>1, <2>2 DEF Mentioned
<1>4. LackingIsSaid'
  BY DEF LackingIsSaid
<1>5. TokenKnown' /\ AccountNamed' /\ TokenIsSaid' /\ PartsAreSaid'
  BY DEF TokenKnown, AccountNamed, TokenIsSaid, PartsAreSaid, Placed, OfferTypeOK, MdCopy, Local
<1> QED
  BY <1>1, <1>2, <1>3, <1>4, <1>5

LEMMA AskUploadKeeps ==
  ASSUME OfferInv, NEW all \in BOOLEAN, AskUpload(all)
  PROVE  OfferInv'
<1> USE DataSourcesAssumption DEF OfferInv, AskUpload, Named, Passes, person, work, OfferSteps, OfferEnded, Offering, SignedOut, NotYet
<1>1. OfferTypeOK'
  <2>1. md' \in MdCopy
    BY DEF OfferTypeOK, AccountNamed, MdCopy
  <2> QED
    BY <2>1 DEF OfferTypeOK
<1>2. Placed' /\ Mentioned' /\ LackingIsSaid'
  BY DEF Placed, Mentioned, LackingIsSaid, OfferTypeOK, MdCopy, Local, Duck
<1>3. TokenKnown' /\ AccountNamed' /\ TokenIsSaid' /\ PartsAreSaid'
  BY DEF TokenKnown, AccountNamed, TokenIsSaid, PartsAreSaid, Placed, OfferTypeOK, MdCopy, Local
<1> QED
  BY <1>1, <1>2, <1>3

LEMMA SkipUploadKeeps ==
  ASSUME OfferInv, NEW from \in OfferSteps, SkipUpload(from)
  PROVE  OfferInv'
<1> USE DataSourcesAssumption DEF OfferInv, SkipUpload, NoCopy, Offered, Passes, person, work, OfferSteps, OfferEnded, Offering, SignedOut, NotYet
<1>1. OfferTypeOK'
  <2>1. Offered \subseteq Local
    BY OfferedAreHere DEF Placed, Offered
  <2>2. md' \in MdCopy
    BY <2>1 DEF OfferTypeOK, AccountNamed, MdCopy
  <2> QED
    BY <2>1, <2>2 DEF OfferTypeOK
<1>2. Placed' /\ Mentioned' /\ LackingIsSaid'
  BY OfferedAreHere, ZenonT(60) DEF Placed, Mentioned, LackingIsSaid, OfferTypeOK, MdCopy, Local, Duck, Lacks
<1>3. TokenKnown' /\ AccountNamed' /\ TokenIsSaid' /\ PartsAreSaid'
  BY DEF TokenKnown, AccountNamed, TokenIsSaid, PartsAreSaid, Placed, OfferTypeOK, MdCopy, Local
<1> QED
  BY <1>1, <1>2, <1>3

LEMMA SignedInKeeps ==
  ASSUME OfferInv, SignedIn
  PROVE  OfferInv'
<1> USE DataSourcesAssumption DEF OfferInv, SignedIn, CliStatus, Passes, person, work, OfferSteps, OfferEnded, Offering, SignedOut, NotYet
<1>0. /\ md' \in MdCopy /\ md'.user = md.user /\ md'.token = md.token /\ md'.used = md.used /\ md'.named = md.named
      /\ \/ md'.seen = md.seen /\ (offer' = "token" => md.user # SignedOut) /\ (offer' = "session" => md.user = SignedOut /\ md.seen # SignedOut)
         \/ md.user = SignedOut /\ md.seen = SignedOut /\ md'.seen = cli /\ cli # SignedOut /\ offer' = "session"
  <2>1. md \in MdCopy /\ cli \in Accounts \cup {SignedOut}
    BY DEF OfferTypeOK
  <2>2. CASE /\ md' = md
             /\ \/ md.user # SignedOut /\ offer' = "token"
                \/ md.user = SignedOut /\ md.seen # SignedOut /\ offer' = "session"
    BY <2>1, <2>2
  <2>3. CASE md' = [md EXCEPT !.seen = cli] /\ md.user = SignedOut /\ md.seen = SignedOut /\ cli # SignedOut /\ offer' = "session"
    BY <2>1, <2>3 DEF MdCopy
  <2> QED
    BY <2>2, <2>3
<1>1. OfferTypeOK'
  <2>1. offer' \in {"token", "session"}
    OBVIOUS
  <2> QED
    BY <1>0, <2>1 DEF OfferTypeOK
<1>2. Placed'
  BY DEF Placed, OfferTypeOK, MdCopy, Duck, Local
<1>3. Mentioned'
  BY DEF Mentioned, Placed, OfferTypeOK, Local, Duck
<1>4. TokenKnown'
  BY <1>0 DEF TokenKnown
<1>5. AccountNamed'
  <2>1. md.seen \in Accounts \cup {SignedOut, NotYet} /\ cli \in Accounts \cup {SignedOut}
    BY DEF OfferTypeOK, MdCopy
  <2> QED
    BY <1>0, <2>1 DEF AccountNamed
<1>6. LackingIsSaid'
  BY DEF LackingIsSaid, Mentioned, Placed, OfferTypeOK, Local, Duck
<1>7. TokenIsSaid'
  BY DEF TokenIsSaid, TokenKnown, Placed, OfferTypeOK, MdCopy
<1>8. PartsAreSaid'
  BY DEF PartsAreSaid, OfferTypeOK
<1> QED
  BY <1>1, <1>2, <1>3, <1>4, <1>5, <1>6, <1>7, <1>8

LEMMA CliLoginKeeps ==
  ASSUME OfferInv, NEW a \in Accounts, CliLogin(a)
  PROVE  OfferInv'
<1> USE DataSourcesAssumption DEF OfferInv, CliLogin, CliStatus, Passes, person, work, OfferSteps, OfferEnded, Offering, SignedOut, NotYet
<1>1. OfferTypeOK'
  <2>1. md' \in MdCopy
    BY DEF OfferTypeOK, AccountNamed, MdCopy
  <2> QED
    BY <2>1 DEF OfferTypeOK
<1>2. Placed'
  BY DEF Placed, OfferTypeOK, MdCopy, Duck, Local
<1>3. Mentioned'
  BY DEF Mentioned, Placed, OfferTypeOK, Local, Duck
<1>4. TokenKnown'
  BY DEF TokenKnown, Placed, OfferTypeOK, MdCopy, Local
<1>5. AccountNamed'
  <2>1. md'.seen = a /\ md'.named = a /\ md'.user = md.user /\ md'.token = md.token
    BY DEF OfferTypeOK, MdCopy
  <2> QED
    BY <2>1 DEF AccountNamed
<1>6. LackingIsSaid'
  BY DEF LackingIsSaid, Mentioned, Placed, OfferTypeOK, Local, Duck
<1>7. TokenIsSaid'
  BY DEF TokenIsSaid, TokenKnown, Placed, OfferTypeOK, MdCopy
<1>8. PartsAreSaid'
  BY DEF PartsAreSaid, OfferTypeOK
<1> QED
  BY <1>1, <1>2, <1>3, <1>4, <1>5, <1>6, <1>7, <1>8

LEMMA NotSignedInKeeps ==
  ASSUME OfferInv, NotSignedIn
  PROVE  OfferInv'
<1> USE DataSourcesAssumption DEF OfferInv, NotSignedIn, NoCopy, Offered, Passes, person, work, OfferSteps, OfferEnded, Offering, SignedOut, NotYet
<1>0. /\ md' \in MdCopy /\ md'.user = md.user /\ md'.token = md.token /\ md'.used = md.used /\ md'.named = md.named
      /\ md'.seen = md.seen
  <2>1. md \in MdCopy
    BY DEF OfferTypeOK
  <2>2. CASE md' = md
    BY <2>1, <2>2
  <2>3. CASE md' = [md EXCEPT !.gaveUp = TRUE]
    BY <2>1, <2>3 DEF MdCopy
  <2> QED
    BY <2>2, <2>3
<1>1. OfferTypeOK'
  <2>1. Offered \subseteq Local
    BY OfferedAreHere DEF Placed, Offered
  <2> QED
    BY <1>0, <2>1 DEF OfferTypeOK
<1>2. Placed'
  BY OfferedAreHere DEF Placed, OfferTypeOK, MdCopy, Duck, Local, Lacks
<1>3. Mentioned'
  BY DEF Mentioned, Placed, OfferTypeOK, Local, Duck, Lacks
<1>4. TokenKnown'
  BY <1>0 DEF TokenKnown
<1>5. AccountNamed'
  BY <1>0 DEF AccountNamed
<1>6. LackingIsSaid'
  BY DEF LackingIsSaid, Mentioned, Placed, OfferTypeOK, Local, Duck
<1>7. TokenIsSaid'
  BY DEF TokenIsSaid, TokenKnown, Placed, OfferTypeOK, MdCopy
<1>8. PartsAreSaid'
  BY DEF PartsAreSaid, OfferTypeOK
<1> QED
  BY <1>1, <1>2, <1>3, <1>4, <1>5, <1>6, <1>7, <1>8

LEMMA SessionKeeps ==
  ASSUME OfferInv, Session
  PROVE  OfferInv'
<1> USE DataSourcesAssumption DEF OfferInv, Session, Again, Listed, Passes, person, work, OfferSteps, OfferEnded, Offering, SignedOut, NotYet
<1>1. OfferTypeOK'
  <2>1. md' \in MdCopy
    BY DEF OfferTypeOK, AccountNamed, MdCopy
  <2> QED
    BY <2>1 DEF OfferTypeOK
<1>2. Placed' /\ Mentioned' /\ LackingIsSaid'
  BY DEF Placed, Mentioned, LackingIsSaid, OfferTypeOK, MdCopy, Local, Duck
<1>3. TokenKnown' /\ AccountNamed' /\ TokenIsSaid' /\ PartsAreSaid'
  BY DEF TokenKnown, AccountNamed, TokenIsSaid, PartsAreSaid, Placed, OfferTypeOK, MdCopy, Local
<1> QED
  BY <1>1, <1>2, <1>3

LEMMA SessionFailsKeeps ==
  ASSUME OfferInv, SessionFails
  PROVE  OfferInv'
<1> USE DataSourcesAssumption DEF OfferInv, SessionFails, NoCopy, Offered, Passes, person, work, OfferSteps, OfferEnded, Offering, SignedOut, NotYet
<1>1. OfferTypeOK'
  <2>1. Offered \subseteq Local
    BY OfferedAreHere DEF Placed, Offered
  <2>2. md' \in MdCopy
    BY <2>1 DEF OfferTypeOK, AccountNamed, MdCopy
  <2> QED
    BY <2>1, <2>2 DEF OfferTypeOK
<1>2. Placed' /\ Mentioned' /\ LackingIsSaid'
  BY OfferedAreHere DEF Placed, Mentioned, LackingIsSaid, OfferTypeOK, MdCopy, Local, Duck, Lacks
<1>3. TokenKnown' /\ AccountNamed' /\ TokenIsSaid' /\ PartsAreSaid'
  BY DEF TokenKnown, AccountNamed, TokenIsSaid, PartsAreSaid, Placed, OfferTypeOK, MdCopy, Local
<1> QED
  BY <1>1, <1>2, <1>3

LEMMA AskAgainKeeps ==
  ASSUME OfferInv, AskAgain
  PROVE  OfferInv'
<1> USE DataSourcesAssumption DEF OfferInv, AskAgain, Passes, person, work, OfferSteps, OfferEnded, Offering, SignedOut, NotYet
<1>1. OfferTypeOK'
  <2>1. md' \in MdCopy
    BY DEF OfferTypeOK, AccountNamed, MdCopy
  <2> QED
    BY <2>1 DEF OfferTypeOK
<1>2. Placed' /\ Mentioned' /\ LackingIsSaid'
  BY DEF Placed, Mentioned, LackingIsSaid, OfferTypeOK, MdCopy, Local, Duck
<1>3. TokenKnown' /\ AccountNamed' /\ TokenIsSaid' /\ PartsAreSaid'
  BY DEF TokenKnown, AccountNamed, TokenIsSaid, PartsAreSaid, Placed, OfferTypeOK, MdCopy, Local
<1> QED
  BY <1>1, <1>2, <1>3

LEMMA HasTokenKeeps ==
  ASSUME OfferInv, HasToken
  PROVE  OfferInv'
<1> USE DataSourcesAssumption DEF OfferInv, HasToken, Passes, person, work, OfferSteps, OfferEnded, Offering, SignedOut, NotYet
<1>1. OfferTypeOK'
  BY DEF OfferTypeOK
<1>2. Placed' /\ Mentioned' /\ LackingIsSaid'
  BY DEF Placed, Mentioned, LackingIsSaid, OfferTypeOK, MdCopy, Local, Duck
<1>3. TokenKnown' /\ AccountNamed' /\ TokenIsSaid' /\ PartsAreSaid'
  BY DEF TokenKnown, AccountNamed, TokenIsSaid, PartsAreSaid, Placed, OfferTypeOK, MdCopy, Local
<1> QED
  BY <1>1, <1>2, <1>3

LEMMA MakeTokenKeeps ==
  ASSUME OfferInv, MakeToken
  PROVE  OfferInv'
<1> USE DataSourcesAssumption DEF OfferInv, MakeToken, Makes, Passes, person, work, OfferSteps, OfferEnded, Offering, SignedOut, NotYet
<1>1. OfferTypeOK'
  <2>1. md' \in MdCopy
    BY DEF OfferTypeOK, AccountNamed, MdCopy
  <2> QED
    BY <2>1 DEF OfferTypeOK
<1>2. Placed' /\ Mentioned' /\ LackingIsSaid'
  BY DEF Placed, Mentioned, LackingIsSaid, OfferTypeOK, MdCopy, Local, Duck
<1>3. TokenKnown' /\ AccountNamed' /\ TokenIsSaid' /\ PartsAreSaid'
  BY DEF TokenKnown, AccountNamed, TokenIsSaid, PartsAreSaid, Placed, OfferTypeOK, MdCopy, Local
<1> QED
  BY <1>1, <1>2, <1>3

LEMMA PasteTokenKeeps ==
  ASSUME OfferInv, PasteToken
  PROVE  OfferInv'
<1> USE DataSourcesAssumption DEF OfferInv, PasteToken, Passes, person, work, OfferSteps, OfferEnded, Offering, SignedOut, NotYet
<1>1. OfferTypeOK'
  <2>1. md' \in MdCopy
    BY DEF OfferTypeOK, AccountNamed, MdCopy
  <2> QED
    BY <2>1 DEF OfferTypeOK
<1>2. Placed' /\ Mentioned' /\ LackingIsSaid'
  BY DEF Placed, Mentioned, LackingIsSaid, OfferTypeOK, MdCopy, Local, Duck
<1>3. TokenKnown' /\ AccountNamed' /\ TokenIsSaid' /\ PartsAreSaid'
  BY DEF TokenKnown, AccountNamed, TokenIsSaid, PartsAreSaid, Placed, OfferTypeOK, MdCopy, Local
<1> QED
  BY <1>1, <1>2, <1>3

LEMMA NoTokenMadeKeeps ==
  ASSUME OfferInv, NoTokenMade
  PROVE  OfferInv'
<1> USE DataSourcesAssumption DEF OfferInv, NoTokenMade, NoCopy, Offered, Passes, person, work, OfferSteps, OfferEnded, Offering, SignedOut, NotYet
<1>1. OfferTypeOK'
  <2>1. Offered \subseteq Local
    BY OfferedAreHere DEF Placed, Offered
  <2> QED
    BY <2>1 DEF OfferTypeOK
<1>2. Placed' /\ Mentioned' /\ LackingIsSaid'
  BY OfferedAreHere DEF Placed, Mentioned, LackingIsSaid, OfferTypeOK, MdCopy, Local, Duck, Lacks
<1>3. TokenKnown' /\ AccountNamed' /\ TokenIsSaid' /\ PartsAreSaid'
  BY DEF TokenKnown, AccountNamed, TokenIsSaid, PartsAreSaid, Placed, OfferTypeOK, MdCopy, Local
<1> QED
  BY <1>1, <1>2, <1>3

LEMMA UploadKeeps ==
  ASSUME OfferInv, Upload
  PROVE  OfferInv'
<1> USE DataSourcesAssumption DEF OfferInv, Upload, Offered, Creates, HasName, Passes, person, work, OfferSteps, OfferEnded, Offering, SignedOut, NotYet
<1>1. OfferTypeOK'
  <2>1. Offered \subseteq Local
    BY OfferedAreHere DEF Placed, Offered
  <2>2. FreeName \in Names
    BY FreeNameIsFree
  <2>3. md' \in MdCopy
    BY <2>1, <2>2 DEF OfferTypeOK, AccountNamed, MdCopy
  <2>4. dbs' \in [Accounts -> [Names -> {"free", "theirs", "ours", "part"}]]
    BY DEF OfferTypeOK
  <2> QED
    BY <2>1, <2>2, <2>3, <2>4 DEF OfferTypeOK
<1>2. Placed'
  BY OfferedAreHere DEF Placed, OfferTypeOK, MdCopy, Duck, Local, Lacks
<1>3. Mentioned'
  BY DEF Mentioned, Placed, OfferTypeOK, Local, Duck, Lacks
<1>4. TokenKnown'
  BY DEF TokenKnown, Placed, OfferTypeOK, MdCopy, Local
<1>5. AccountNamed'
  BY DEF AccountNamed, OfferTypeOK, MdCopy
<1>6. LackingIsSaid'
  BY DEF LackingIsSaid, Mentioned, Placed, OfferTypeOK, Local, Duck
<1>7. TokenIsSaid'
  BY DEF TokenIsSaid, TokenKnown, Placed, OfferTypeOK, MdCopy
<1>8. PartsAreSaid'
  BY DEF PartsAreSaid, OfferTypeOK
<1> QED
  BY <1>1, <1>2, <1>3, <1>4, <1>5, <1>6, <1>7, <1>8

LEMMA UploadTakenKeeps ==
  ASSUME OfferInv, UploadTaken
  PROVE  OfferInv'
<1> USE DataSourcesAssumption DEF OfferInv, UploadTaken, NoCopy, Offered, HasName, Passes, person, work, OfferSteps, OfferEnded, Offering, SignedOut, NotYet
<1>1. OfferTypeOK'
  <2>1. Offered \subseteq Local
    BY OfferedAreHere DEF Placed, Offered
  <2>2. FreeName \in Names
    BY FreeNameIsFree
  <2>3. md' \in MdCopy
    BY <2>1, <2>2 DEF OfferTypeOK, AccountNamed, MdCopy
  <2> QED
    BY <2>1, <2>2, <2>3 DEF OfferTypeOK
<1>2. Placed' /\ Mentioned' /\ LackingIsSaid'
  BY OfferedAreHere DEF Placed, Mentioned, LackingIsSaid, OfferTypeOK, MdCopy, Local, Duck, Lacks
<1>3. TokenKnown' /\ AccountNamed' /\ TokenIsSaid' /\ PartsAreSaid'
  BY DEF TokenKnown, AccountNamed, TokenIsSaid, PartsAreSaid, Placed, OfferTypeOK, MdCopy, Local
<1> QED
  BY <1>1, <1>2, <1>3

LEMMA UploadFailsKeeps ==
  ASSUME OfferInv, UploadFails
  PROVE  OfferInv'
<1> USE DataSourcesAssumption DEF OfferInv, UploadFails, NoCopy, Offered, Passes, person, work, OfferSteps, OfferEnded, Offering, SignedOut, NotYet
<1>1. OfferTypeOK'
  <2>1. Offered \subseteq Local
    BY OfferedAreHere DEF Placed, Offered
  <2> QED
    BY <2>1 DEF OfferTypeOK
<1>2. Placed' /\ Mentioned' /\ LackingIsSaid'
  BY OfferedAreHere DEF Placed, Mentioned, LackingIsSaid, OfferTypeOK, MdCopy, Local, Duck, Lacks
<1>3. TokenKnown' /\ AccountNamed' /\ TokenIsSaid' /\ PartsAreSaid'
  BY DEF TokenKnown, AccountNamed, TokenIsSaid, PartsAreSaid, Placed, OfferTypeOK, MdCopy, Local
<1> QED
  BY <1>1, <1>2, <1>3

LEMMA UploadBreaksKeeps ==
  ASSUME OfferInv, UploadBreaks
  PROVE  OfferInv'
<1> USE DataSourcesAssumption DEF OfferInv, UploadBreaks, NoCopy, Offered, SaysPartial, HasName, Passes, person, work, OfferSteps, OfferEnded, Offering, SignedOut, NotYet
<1>1. OfferTypeOK'
  <2>1. Offered \subseteq Local
    BY OfferedAreHere DEF Placed, Offered
  <2>2. FreeName \in Names
    BY FreeNameIsFree
  <2>3. dbs' \in [Accounts -> [Names -> {"free", "theirs", "ours", "part"}]]
    BY DEF OfferTypeOK
  <2>4. warned' \subseteq Accounts \X (Names \cup {TheToken})
    BY WarnedGrows, <2>2 DEF OfferTypeOK
  <2> QED
    BY <2>1, <2>2, <2>3, <2>4 DEF OfferTypeOK
<1>2. Placed'
  BY OfferedAreHere DEF Placed, OfferTypeOK, MdCopy, Duck, Local, Lacks
<1>3. Mentioned'
  BY DEF Mentioned, Placed, OfferTypeOK, Local, Duck, Lacks
<1>4. TokenKnown'
  BY DEF TokenKnown, Placed, OfferTypeOK, MdCopy, Local
<1>5. AccountNamed'
  BY DEF AccountNamed, OfferTypeOK, MdCopy
<1>6. LackingIsSaid'
  BY DEF LackingIsSaid, Mentioned, Placed, OfferTypeOK, Local, Duck
<1>7. TokenIsSaid'
  BY DEF TokenIsSaid, TokenKnown, Placed, OfferTypeOK, MdCopy
<1>8. PartsAreSaid'
  BY DEF PartsAreSaid, OfferTypeOK
<1> QED
  BY <1>1, <1>2, <1>3, <1>4, <1>5, <1>6, <1>7, <1>8

LEMMA UploadCutKeeps ==
  ASSUME OfferInv, UploadCut
  PROVE  OfferInv'
<1> USE DataSourcesAssumption DEF OfferInv, UploadCut, HasName, Passes, person, work, OfferSteps, OfferEnded, Offering, SignedOut, NotYet
<1>1. OfferTypeOK'
  <2>1. FreeName \in Names
    BY FreeNameIsFree
  <2>2. dbs' \in [Accounts -> [Names -> {"free", "theirs", "ours", "part"}]]
    BY DEF OfferTypeOK
  <2>3. warned' \subseteq Accounts \X (Names \cup {TheToken})
    BY WarnedGrows, <2>1 DEF OfferTypeOK
  <2> QED
    BY <2>1, <2>2, <2>3 DEF OfferTypeOK
<1>2. Placed'
  BY DEF Placed, OfferTypeOK, MdCopy, Duck, Local
<1>3. Mentioned'
  BY DEF Mentioned, Placed, OfferTypeOK, Local, Duck
<1>4. TokenKnown'
  BY DEF TokenKnown, Placed, OfferTypeOK, MdCopy, Local
<1>5. AccountNamed'
  BY DEF AccountNamed, OfferTypeOK, MdCopy
<1>6. LackingIsSaid'
  BY DEF LackingIsSaid, Mentioned, Placed, OfferTypeOK, Local, Duck
<1>7. TokenIsSaid'
  BY DEF TokenIsSaid, TokenKnown, Placed, OfferTypeOK, MdCopy
<1>8. PartsAreSaid'
  BY DEF PartsAreSaid, OfferTypeOK
<1> QED
  BY <1>1, <1>2, <1>3, <1>4, <1>5, <1>6, <1>7, <1>8

LEMMA CreateCopyKeeps ==
  ASSUME OfferInv, NEW d \in todo, CreateCopy(d)
  PROVE  OfferInv'
<1> USE DataSourcesAssumption DEF OfferInv, CreateCopy, Uses, Passes, person, work, OfferSteps, OfferEnded, Offering, SignedOut, NotYet
<1>1. OfferTypeOK'
  <2>1. md' \in MdCopy
    BY DEF OfferTypeOK, AccountNamed, MdCopy
  <2>2. org' \in [Local -> {"none", "theirs", "made", "ours", "pasted"}]
    BY DEF OfferTypeOK, MdCopy
  <2> QED
    BY <2>1, <2>2 DEF OfferTypeOK
<1>2. Placed' /\ Mentioned' /\ LackingIsSaid'
  BY DEF Placed, Mentioned, LackingIsSaid, OfferTypeOK, MdCopy, Local, Duck
<1>3. TokenKnown' /\ AccountNamed' /\ TokenIsSaid' /\ PartsAreSaid'
  BY DEF TokenKnown, AccountNamed, TokenIsSaid, PartsAreSaid, Placed, OfferTypeOK, MdCopy, Local
<1> QED
  BY <1>1, <1>2, <1>3

LEMMA SkipCopyKeeps ==
  ASSUME OfferInv, NEW d \in todo, SkipCopy(d)
  PROVE  OfferInv'
<1> USE DataSourcesAssumption DEF OfferInv, SkipCopy, Passes, person, work, OfferSteps, OfferEnded, Offering, SignedOut, NotYet
<1>1. OfferTypeOK'
  BY DEF OfferTypeOK
<1>2. Placed' /\ Mentioned' /\ LackingIsSaid'
  BY DEF Placed, Mentioned, LackingIsSaid, OfferTypeOK, MdCopy, Local, Duck
<1>3. TokenKnown' /\ AccountNamed' /\ TokenIsSaid' /\ PartsAreSaid'
  BY DEF TokenKnown, AccountNamed, TokenIsSaid, PartsAreSaid, Placed, OfferTypeOK, MdCopy, Local
<1> QED
  BY <1>1, <1>2, <1>3

LEMMA LoseCopyKeeps ==
  ASSUME OfferInv, NEW d \in todo, LoseCopy(d)
  PROVE  OfferInv'
<1> USE DataSourcesAssumption DEF OfferInv, LoseCopy, Passes, person, work, OfferSteps, OfferEnded, Offering, SignedOut, NotYet
<1>1. OfferTypeOK'
  <2>1. org' \in [Local -> {"none", "theirs", "made", "ours", "pasted"}]
    BY DEF OfferTypeOK, MdCopy
  <2> QED
    BY <2>1 DEF OfferTypeOK
<1>2. Placed' /\ Mentioned' /\ LackingIsSaid'
  BY DEF Placed, Mentioned, LackingIsSaid, OfferTypeOK, MdCopy, Local, Duck
<1>3. TokenKnown' /\ AccountNamed' /\ TokenIsSaid' /\ PartsAreSaid'
  BY DEF TokenKnown, AccountNamed, TokenIsSaid, PartsAreSaid, Placed, OfferTypeOK, MdCopy, Local
<1> QED
  BY <1>1, <1>2, <1>3

LEMMA CopiesDoneKeeps ==
  ASSUME OfferInv, CopiesDone
  PROVE  OfferInv'
<1> USE DataSourcesAssumption DEF OfferInv, CopiesDone, Passes, person, work, OfferSteps, OfferEnded, Offering, SignedOut, NotYet
<1>1. OfferTypeOK'
  BY DEF OfferTypeOK
<1>2. Placed' /\ Mentioned' /\ LackingIsSaid'
  BY DEF Placed, Mentioned, LackingIsSaid, OfferTypeOK, MdCopy, Local, Duck
<1>3. TokenKnown' /\ AccountNamed' /\ TokenIsSaid' /\ PartsAreSaid'
  BY DEF TokenKnown, AccountNamed, TokenIsSaid, PartsAreSaid, Placed, OfferTypeOK, MdCopy, Local
<1> QED
  BY <1>1, <1>2, <1>3

LEMMA CopyForbiddenKeeps ==
  ASSUME OfferInv, CopyForbidden
  PROVE  OfferInv'
<1> USE DataSourcesAssumption DEF OfferInv, CopyForbidden, Passes, person, work, OfferSteps, OfferEnded, Offering, SignedOut, NotYet
<1>1. OfferTypeOK'
  BY OfferedAreHere DEF OfferTypeOK
<1>2. Placed'
  BY OfferedAreHere DEF Placed, OfferTypeOK, MdCopy, Duck, Local, Lacks
<1>3. Mentioned'
  <2>1. ASSUME NEW s \in Local, org[s] = "none" PROVE s \in said' \cup skipped'
    <3>1. CASE s \in said \cup skipped
      BY <3>1
    <3>2. CASE \E f \in unoffered : s \in SourcesOf(f)
      BY <2>1, <3>2 DEF Lacks
    <3> QED
      BY <2>1, <3>1, <3>2 DEF Mentioned, Placed
  <2> QED
    BY <2>1 DEF Mentioned
<1>4. TokenKnown'
  BY DEF TokenKnown, Placed, OfferTypeOK, MdCopy, Local
<1>5. AccountNamed'
  BY DEF AccountNamed, OfferTypeOK, MdCopy
<1>6. LackingIsSaid'
  BY DEF LackingIsSaid, Mentioned, Placed, OfferTypeOK, Local, Duck
<1>7. TokenIsSaid'
  BY DEF TokenIsSaid, TokenKnown, Placed, OfferTypeOK, MdCopy
<1>8. PartsAreSaid'
  BY DEF PartsAreSaid, OfferTypeOK
<1> QED
  BY <1>1, <1>2, <1>3, <1>4, <1>5, <1>6, <1>7, <1>8

LEMMA FilesDoneKeeps ==
  ASSUME OfferInv, FilesDone
  PROVE  OfferInv'
<1> USE DataSourcesAssumption DEF OfferInv, FilesDone, Passes, person, work, OfferSteps, OfferEnded, Offering, SignedOut, NotYet
<1>1. OfferTypeOK'
  BY DEF OfferTypeOK
<1>2. Placed' /\ Mentioned' /\ LackingIsSaid'
  BY DEF Placed, Mentioned, LackingIsSaid, OfferTypeOK, MdCopy, Local, Duck
<1>3. TokenKnown' /\ AccountNamed' /\ TokenIsSaid' /\ PartsAreSaid'
  BY DEF TokenKnown, AccountNamed, TokenIsSaid, PartsAreSaid, Placed, OfferTypeOK, MdCopy, Local
<1> QED
  BY <1>1, <1>2, <1>3

LEMMA OfferFailsKeeps ==
  ASSUME OfferInv, OfferFails
  PROVE  OfferInv'
<1> USE DataSourcesAssumption DEF OfferInv, OfferFails, Passes, person, work, OfferSteps, OfferEnded, Offering, SignedOut, NotYet
<1>1. OfferTypeOK'
  BY DEF OfferTypeOK
<1>2. Placed' /\ Mentioned' /\ LackingIsSaid'
  BY DEF Placed, Mentioned, LackingIsSaid, OfferTypeOK, MdCopy, Local, Duck
<1>3. TokenKnown' /\ AccountNamed' /\ TokenIsSaid' /\ PartsAreSaid'
  BY DEF TokenKnown, AccountNamed, TokenIsSaid, PartsAreSaid, Placed, OfferTypeOK, MdCopy, Local
<1> QED
  BY <1>1, <1>2, <1>3

LEMMA OfferKilledKeeps ==
  ASSUME OfferInv, OfferKilled
  PROVE  OfferInv'
<1> USE DataSourcesAssumption DEF OfferInv, OfferKilled, Passes, person, work, OfferSteps, OfferEnded, Offering, SignedOut, NotYet
<1>1. OfferTypeOK'
  BY DEF OfferTypeOK
<1>2. Placed' /\ Mentioned' /\ LackingIsSaid'
  BY DEF Placed, Mentioned, LackingIsSaid, OfferTypeOK, MdCopy, Local, Duck
<1>3. TokenKnown' /\ AccountNamed' /\ TokenIsSaid' /\ PartsAreSaid'
  BY DEF TokenKnown, AccountNamed, TokenIsSaid, PartsAreSaid, Placed, OfferTypeOK, MdCopy, Local
<1> QED
  BY <1>1, <1>2, <1>3

LEMMA FinishKeeps ==
  ASSUME OfferInv, Finish
  PROVE  OfferInv'
<1> USE DataSourcesAssumption DEF OfferInv, Finish, Unused, Said, Passes, person, work, OfferSteps, OfferEnded, Offering, SignedOut, NotYet
<1>1. OfferTypeOK'
  BY DEF OfferTypeOK
<1>2. Placed'
  BY DEF Placed, OfferTypeOK, MdCopy, Duck, Local
<1>3. Mentioned'
  BY DEF Mentioned, Placed, OfferTypeOK, Local, Duck
<1>4. TokenKnown'
  BY DEF TokenKnown, Placed, OfferTypeOK, MdCopy, Local
<1>5. AccountNamed'
  BY DEF AccountNamed, OfferTypeOK, MdCopy
<1>6. LackingIsSaid'
  BY DEF LackingIsSaid, Mentioned, Placed, OfferTypeOK, Local, Duck
<1>7. TokenIsSaid'
  <2>1. live' => live /\ ~Unused
    BY DEF OfferTypeOK
  <2> HIDE DEF Finish
  <2>2. live' => \E s \in Duck : org[s] = "ours"
    BY <2>1 DEF TokenKnown
  <2> QED
    BY <2>2 DEF TokenIsSaid, Finish
<1>8. PartsAreSaid'
  BY DEF PartsAreSaid, OfferTypeOK
<1> QED
  BY <1>1, <1>2, <1>3, <1>4, <1>5, <1>6, <1>7, <1>8

LEMMA RevokeFailsKeeps ==
  ASSUME OfferInv, RevokeFails
  PROVE  OfferInv'
<1> USE DataSourcesAssumption DEF OfferInv, RevokeFails, Unused, Said, Passes, person, work, OfferSteps, OfferEnded, Offering, SignedOut, NotYet
<1>1. OfferTypeOK'
  <2>1. warned' \subseteq Accounts \X (Names \cup {TheToken})
    BY WarnedGrows DEF AccountNamed
  <2> QED
    BY <2>1 DEF OfferTypeOK
<1>2. Placed' /\ Mentioned' /\ LackingIsSaid'
  BY DEF Placed, Mentioned, LackingIsSaid, OfferTypeOK, MdCopy, Local, Duck
<1>3. TokenKnown' /\ AccountNamed' /\ TokenIsSaid' /\ PartsAreSaid'
  BY DEF TokenKnown, AccountNamed, TokenIsSaid, PartsAreSaid, Placed, OfferTypeOK, MdCopy, Local
<1> QED
  BY <1>1, <1>2, <1>3

LEMMA SwitchKeeps ==
  ASSUME OfferInv, NEW a \in Accounts \cup {SignedOut}, Switch(a)
  PROVE  OfferInv'
<1> USE DataSourcesAssumption DEF OfferInv, Switch, Passes, person, work, OfferSteps, OfferEnded, Offering, SignedOut, NotYet
<1>1. OfferTypeOK'
  <2>1. others' \in 0 .. MaxOthers
    BY ActsAreLeft
  <2> QED
    BY <2>1 DEF OfferTypeOK
<1>2. Placed' /\ Mentioned' /\ LackingIsSaid'
  BY DEF Placed, Mentioned, LackingIsSaid, OfferTypeOK, MdCopy, Local, Duck
<1>3. TokenKnown' /\ AccountNamed' /\ TokenIsSaid' /\ PartsAreSaid'
  BY DEF TokenKnown, AccountNamed, TokenIsSaid, PartsAreSaid, Placed, OfferTypeOK, MdCopy, Local
<1> QED
  BY <1>1, <1>2, <1>3

LEMMA MakeDatabaseKeeps ==
  ASSUME OfferInv, NEW a \in Accounts, NEW n \in Names, MakeDatabase(a, n)
  PROVE  OfferInv'
<1> USE DataSourcesAssumption DEF OfferInv, MakeDatabase, Passes, person, work, OfferSteps, OfferEnded, Offering, SignedOut, NotYet
<1>1. OfferTypeOK'
  <2>1. dbs' \in [Accounts -> [Names -> {"free", "theirs", "ours", "part"}]]
    BY DEF OfferTypeOK
  <2>2. others' \in 0 .. MaxOthers
    BY ActsAreLeft
  <2> QED
    BY <2>1, <2>2 DEF OfferTypeOK
<1>2. Placed' /\ Mentioned' /\ LackingIsSaid'
  BY DEF Placed, Mentioned, LackingIsSaid, OfferTypeOK, MdCopy, Local, Duck
<1>3. TokenKnown' /\ AccountNamed' /\ TokenIsSaid' /\ PartsAreSaid'
  BY ZenonT(60) DEF TokenKnown, AccountNamed, TokenIsSaid, PartsAreSaid, Placed, OfferTypeOK, MdCopy, Local
<1> QED
  BY <1>1, <1>2, <1>3

-----------------------------------------------------------------------------

LEMMA AllActsAreLeft ==
  ASSUME DataSourcesAssumption
  PROVE  MaxOthers \in 0 .. MaxOthers
  BY DEF DataSourcesAssumption

LEMMA OfferInitially == OfferInit => OfferInv
<1> SUFFICES ASSUME OfferInit PROVE OfferInv
  OBVIOUS
<1> USE DataSourcesAssumption DEF OfferInit, SignedOut, NotYet
<1>1. OfferTypeOK
  <2>1. md \in MdCopy
    BY DEF MdCopy
  <2>2. dbs \in [Accounts -> [Names -> {"free", "theirs", "ours", "part"}]]
    BY Zenon
  <2>3. org \in [Local -> {"none", "theirs", "made", "ours", "pasted"}]
    OBVIOUS
  <2>4. others = MaxOthers /\ MaxOthers \in Nat /\ offer = "list"
    BY DEF DataSourcesAssumption
  <2>5. cli \in Accounts \cup {SignedOut} /\ err = FALSE /\ live = FALSE /\ file = NoFile
        /\ todo = {} /\ unoffered = {} /\ skipped = {} /\ said = {} /\ warned = {} /\ lost = {}
    OBVIOUS
  <2> HIDE DEF OfferInit
  <2>6. others \in 0 .. MaxOthers
    BY <2>4, AllActsAreLeft
  <2>7. offer \in OfferSteps /\ live \in BOOLEAN /\ err \in BOOLEAN
    BY <2>4, <2>5 DEF OfferSteps
  <2> QED
    BY <2>1, <2>2, <2>3, <2>5, <2>6, <2>7 DEF OfferTypeOK
<1>2. Placed /\ Mentioned /\ TokenKnown /\ AccountNamed
  BY DEF Placed, Offering, Mentioned, TokenKnown, AccountNamed, OfferSteps, Local
<1>3. LackingIsSaid /\ TokenIsSaid /\ PartsAreSaid
  BY DEF LackingIsSaid, TokenIsSaid, PartsAreSaid
<1> QED
  BY <1>1, <1>2, <1>3 DEF OfferInv

LEMMA OfferNexts == OfferInv /\ [OfferNext]_offerVars => OfferInv'
<1> SUFFICES ASSUME OfferInv, [OfferNext]_offerVars PROVE OfferInv'
  OBVIOUS
<1>1. CASE UNCHANGED offerVars
  <2> USE <1>1 DEF OfferInv, offerVars, person, work
  <2>1. OfferTypeOK' /\ Placed' /\ Mentioned'
    BY DEF OfferTypeOK, Placed, Mentioned
  <2>2. TokenKnown' /\ AccountNamed' /\ LackingIsSaid' /\ TokenIsSaid' /\ PartsAreSaid'
    BY DEF TokenKnown, AccountNamed, LackingIsSaid, TokenIsSaid, PartsAreSaid
  <2> QED
    BY <2>1, <2>2
<1>2. CASE OfferNext
  <2>1. CASE Copy
    BY <2>1, NextFileKeeps, AskUploadKeeps, SkipUploadKeeps, SignedInKeeps, CliLoginKeeps, NotSignedInKeeps, SessionKeeps,
       SessionFailsKeeps, AskAgainKeeps, HasTokenKeeps, MakeTokenKeeps, PasteTokenKeeps, NoTokenMadeKeeps, UploadKeeps,
       UploadTakenKeeps, UploadFailsKeeps, UploadBreaksKeeps, UploadCutKeeps, CreateCopyKeeps, SkipCopyKeeps, LoseCopyKeeps,
       CopiesDoneKeeps, CopyForbiddenKeeps, FilesDoneKeeps DEF Copy
  <2>2. ASSUME NEW d \in todo, Decline({d}) PROVE OfferInv'
    BY <2>2, DeclineKeeps
  <2>3. CASE Decline(todo)
    BY <2>3, DeclineKeeps
  <2> QED
    BY <1>2, <2>1, <2>2, <2>3, ListKeeps, ListUnreadKeeps, ListForbiddenKeeps, CreateDirectKeeps, LoseDirectKeeps, DirectForbiddenKeeps,
       DirectDoneKeeps, LookAheadKeeps, OfferFailsKeeps, OfferKilledKeeps, FinishKeeps, RevokeFailsKeeps, SwitchKeeps,
       MakeDatabaseKeeps DEF OfferNext
<1> QED
  BY <1>1, <1>2

\* What a publish believes of the account, the token and its data sources is
\* what there is, but for what was lost or another window changed (mdCopy).
THEOREM OfferIsSound == OfferSpec => []OfferInv
  BY OfferInitially, OfferNexts, PTL DEF OfferSpec

\* What a publish leaves undone, and what it leaves behind, it has told of
\* (datasources.go:33, motherduck.go:412).
THEOREM EndIsAlwaysTold == OfferSpec => []EndIsTold
<1>1. OfferInv => EndIsTold
  BY DEF OfferInv, TokenIsSaid, PartsAreSaid, EndIsTold, LeftoversAreSaid
<1> QED
  BY <1>1, OfferIsSound, PTL

\* What a publish does in the person's account and the org is what was agreed
\* to (motherduck.go:88, 427).
THEOREM OfferDoesAsAgreed == OfferSpec => DoesAsAgreed
<1> DEFINE RevokesStep == live /\ ~live' => (\A s \in Duck : org[s] # "ours") \/ "answer" \in lost
           TheirsStep ==
             /\ \A a \in Accounts, n \in Names : dbs[a][n] # "free" => dbs'[a][n] = dbs[a][n]
             /\ \A s \in Local : org[s] = "theirs" => org'[s] = "theirs"
           UploadsStep ==
             \A a \in Accounts, n \in Names : dbs'[a][n] # dbs[a][n] /\ dbs'[a][n] # "theirs" => md.named = a \/ "account" \in lost
<1>1. OfferInv /\ [OfferNext]_offerVars => [RevokesStep]_offerVars
  <2> SUFFICES ASSUME OfferInv, OfferNext, live, ~live' PROVE (\A s \in Duck : org[s] # "ours") \/ "answer" \in lost
    BY DEF offerVars
  <2>1. Finish
    BY DEF OfferNext, Copy, List, ListUnread, ListForbidden, Decline, CreateDirect, LoseDirect, DirectForbidden, DirectDone, LookAhead,
      OfferFails, OfferKilled, RevokeFails, Switch, MakeDatabase, NextFile, AskUpload, SkipUpload, SignedIn, CliLogin,
      NotSignedIn, Session, SessionFails, AskAgain, HasToken, MakeToken, Makes, PasteToken, NoTokenMade, Upload, UploadTaken,
      UploadFails, UploadBreaks, UploadCut, CreateCopy, SkipCopy, LoseCopy, CopiesDone, CopyForbidden, FilesDone
  <2>2. Unused
    BY <2>1 DEF Finish, OfferInv, OfferTypeOK
  <2> QED
    BY <2>2 DEF Unused, OfferInv, TokenKnown
<1>2. OfferInv /\ [OfferNext]_offerVars => [TheirsStep]_offerVars
  <2> SUFFICES ASSUME OfferInv, OfferNext PROVE TheirsStep
    BY DEF offerVars
  <2>1. \/ UNCHANGED dbs
        \/ \E a \in Accounts \cup {SignedOut} : \E n, x : dbs[a][n] = "free" /\ dbs' = [dbs EXCEPT ![a][n] = x]
    BY DEF OfferNext, Copy, List, ListUnread, ListForbidden, Decline, CreateDirect, LoseDirect, DirectForbidden, DirectDone, LookAhead,
      OfferFails, OfferKilled, Finish, RevokeFails, Switch, MakeDatabase, NextFile, AskUpload, SkipUpload, SignedIn, CliLogin,
      NotSignedIn, Session, SessionFails, AskAgain, HasToken, MakeToken, PasteToken, NoTokenMade, Upload, Creates, UploadTaken,
      UploadFails, UploadBreaks, UploadCut, CreateCopy, SkipCopy, LoseCopy, CopiesDone, CopyForbidden, FilesDone, person,
      OfferInv, OfferTypeOK
  <2>2. UNCHANGED org \/ \E d \in todo : \E x : org' = [org EXCEPT ![d] = x] /\ offer \in {"direct", "copies"}
    BY DEF OfferNext, Copy, List, ListUnread, ListForbidden, Decline, CreateDirect, LoseDirect, DirectForbidden, DirectDone, LookAhead,
      OfferFails, OfferKilled, Finish, RevokeFails, Switch, MakeDatabase, NextFile, AskUpload, SkipUpload, SignedIn, CliLogin,
      NotSignedIn, Session, SessionFails, AskAgain, HasToken, MakeToken, PasteToken, NoTokenMade, Upload, UploadTaken,
      UploadFails, UploadBreaks, UploadCut, CreateCopy, SkipCopy, LoseCopy, CopiesDone, CopyForbidden, FilesDone
  <2>3. \A a \in Accounts, n \in Names : dbs[a][n] # "free" => dbs'[a][n] = dbs[a][n]
    BY <2>1 DEF OfferInv, OfferTypeOK
  <2>4. \A s \in Local : org[s] = "theirs" => org'[s] = "theirs"
    BY <2>2 DEF OfferInv, OfferTypeOK, Placed
  <2> QED
    BY <2>3, <2>4
<1>3. OfferInv /\ [OfferNext]_offerVars => [UploadsStep]_offerVars
  <2> SUFFICES ASSUME OfferInv, OfferNext, NEW a \in Accounts, NEW n \in Names, dbs'[a][n] # dbs[a][n], dbs'[a][n] # "theirs"
               PROVE  md.named = a \/ "account" \in lost
    BY DEF offerVars
  <2>1. \/ offer = "upload" /\ cli # SignedOut /\ \E m, x : dbs' = [dbs EXCEPT ![cli][m] = x]
        \/ \E b \in Accounts, m \in Names : MakeDatabase(b, m)
    BY DEF OfferNext, Copy, List, ListUnread, ListForbidden, Decline, CreateDirect, LoseDirect, DirectForbidden, DirectDone, LookAhead,
      OfferFails, OfferKilled, Finish, RevokeFails, Switch, NextFile, AskUpload, SkipUpload, SignedIn, CliLogin, NoCopy, Passes,
      NotSignedIn, Session, SessionFails, AskAgain, HasToken, MakeToken, PasteToken, NoTokenMade, Upload, UploadTaken,
      UploadFails, UploadBreaks, UploadCut, CreateCopy, SkipCopy, LoseCopy, CopiesDone, CopyForbidden, FilesDone, person
  <2>2. offer = "upload" /\ a = cli
    BY <2>1 DEF MakeDatabase, OfferInv, OfferTypeOK
  <2> QED
    BY <2>2 DEF OfferInv, AccountNamed, OfferTypeOK
<1> QED
  BY <1>1, <1>2, <1>3, OfferIsSound, PTL DEF OfferSpec, DoesAsAgreed, RevokesOnlyUnused, TheirsIsUntouched, UploadsWhereAgreed

=============================================================================
