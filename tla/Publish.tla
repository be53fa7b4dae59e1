------------------------------ MODULE Publish ------------------------------
(***************************************************************************)
(* `anfra publish` (internal/publish/publish.go, state.go, org.go; its     *)
(* command in cmd/anfra/publish.go; its client in internal/cloudapi): runs *)
(* of the command, in one folder or several, publish to an org's server.   *)
(* A server keeps blobs, collects those its revision does not name, and    *)
(* has one published revision, named here after the run that made it.      *)
(***************************************************************************)
EXTENDS Naturals, FiniteSets, Functions

CONSTANTS Publishes,      \* the runs of `anfra publish`
          FolderOf(_),    \* the folder each runs in
          Others,         \* the revisions published by other means: on the
                          \* server's pages, or from other machines
          TheirFiles,     \* what those may publish
          Orgs, Paths, Blobs,
          SizeOf(_),      \* a blob's bytes
          Cloned,         \* the files, by blob id, of a clone of the repo
          FileBytes, UploadBlobs, UploadBytes,  \* a server's limits
          MaxEdits        \* how many times a file may be edited

Nothing == "nothing"    \* no org, no revision
Starting == "starting"  \* the revision of the repo's starting files

ASSUME PublishAssumption ==
  /\ MaxEdits \in Nat
  /\ UploadBlobs \in Nat \ {0}
  /\ UploadBytes \in Nat
  /\ TheirFiles \cup {Cloned} \subseteq [Paths -> Blobs]
  /\ FileBytes \in Nat
  /\ \A b \in Blobs : SizeOf(b) \in Nat
  /\ {Nothing, Starting} \cap (Publishes \cup Others \cup Orgs) = {}
  /\ Publishes \cap Others = {}

Folders == {FolderOf(p) : p \in Publishes}
Revisions == Publishes \cup Others \cup {Starting}

VARIABLES
  disk,    \* each folder's files
  edits,   \* the edits left
  conf,    \* .anfra/config.yml's org.url, for each folder
  last,    \* published.json: the revision each folder last published
  head,    \* each org's published revision
  blobs,   \* the blobs each org's server has
  files,   \* the files of each revision
  pc,      \* where each run is
  dest,    \* its org
  sets,    \* whether it is to write that org to the config
  oids,    \* its files, by blob id, as it read them
  seen,    \* the revision that Status answered
  agreed,  \* whether replacing that one was confirmed, or --yes was passed
  missing, \* the blobs still to upload
  batch,   \* those of the next CreateBlobs
  again,   \* whether a publish has been answered blobs_missing
  saved,   \* published.json, as the run read it to record its revision
  own,     \* history: the revisions each folder was told are its own
  cut      \* history: the runs whose Publish was done and not answered

server == <<head, blobs, files>>
folder == <<disk, edits, conf, last>>
target == <<dest, sets>>
upload == <<missing, batch>>
locals == <<target, oids, seen, agreed, upload, again, saved>>
history == <<own, cut>>
vars == <<folder, server, pc, locals, history>>

Ended == {"published", "not published", "killed"}
Steps == {"off", "destination", "reading", "status", "confirm",
          "listing", "uploading", "publishing", "record", "writing"}

\* Before its first request that may be answered, and while one is.
Open == Steps \ {"off", "record", "writing"}

FileSets == [Paths -> Blobs]

TypeOK ==
  /\ disk \in [Folders -> FileSets]
  /\ edits \in 0 .. MaxEdits
  /\ conf \in [Folders -> Orgs \cup {Nothing}]
  /\ last \in [Folders -> [Orgs -> Revisions \cup {Nothing}]]
  /\ head \in [Orgs -> Revisions]
  /\ blobs \in [Orgs -> SUBSET Blobs]
  /\ files \in [Revisions -> FileSets \cup {<<>>}]
  /\ pc \in [Publishes -> Steps \cup Ended]
  /\ dest \in [Publishes -> Orgs \cup {Nothing}]
  /\ sets \in [Publishes -> BOOLEAN]
  /\ oids \in [Publishes -> FileSets \cup {<<>>}]
  /\ seen \in [Publishes -> Revisions \cup {Nothing}]
  /\ agreed \in [Publishes -> BOOLEAN]
  /\ missing \in [Publishes -> SUBSET Blobs]
  /\ batch \in [Publishes -> SUBSET Blobs]
  /\ again \in [Publishes -> BOOLEAN]
  /\ saved \in [Publishes -> [Orgs -> Revisions \cup {Nothing}]]
  /\ own \in [Folders -> [Orgs -> SUBSET Revisions]]
  /\ cut \in SUBSET Publishes

Unrecorded == [o \in Orgs |-> Nothing]

\* Clones of one repo, which has no org yet.
Init ==
  /\ disk = [f \in Folders |-> Cloned]
  /\ edits = MaxEdits
  /\ conf = [f \in Folders |-> Nothing]
  /\ last = [f \in Folders |-> Unrecorded]
  /\ head = [o \in Orgs |-> Starting]
  /\ blobs = [o \in Orgs |-> {}]
  /\ files = [r \in Revisions |-> <<>>]
  /\ pc = [p \in Publishes |-> "off"]
  /\ dest = [p \in Publishes |-> Nothing]
  /\ sets = [p \in Publishes |-> FALSE]
  /\ oids = [p \in Publishes |-> <<>>]
  /\ seen = [p \in Publishes |-> Nothing]
  /\ agreed = [p \in Publishes |-> FALSE]
  /\ missing = [p \in Publishes |-> {}]
  /\ batch = [p \in Publishes |-> {}]
  /\ again = [p \in Publishes |-> FALSE]
  /\ saved = [p \in Publishes |-> Unrecorded]
  /\ own = [f \in Folders |-> [o \in Orgs |-> {}]]
  /\ cut = {}

\* What a run holds goes with its process.
Gone(p) ==
  /\ dest' = [dest EXCEPT ![p] = Nothing]
  /\ sets' = [sets EXCEPT ![p] = FALSE]
  /\ oids' = [oids EXCEPT ![p] = <<>>]
  /\ seen' = [seen EXCEPT ![p] = Nothing]
  /\ agreed' = [agreed EXCEPT ![p] = FALSE]
  /\ missing' = [missing EXCEPT ![p] = {}]
  /\ batch' = [batch EXCEPT ![p] = {}]
  /\ again' = [again EXCEPT ![p] = FALSE]
  /\ saved' = [saved EXCEPT ![p] = Unrecorded]

Moves(p, from, to) == pc[p] = from /\ pc' = [pc EXCEPT ![p] = to]
Set(f, p, v) == [f EXCEPT ![p] = v]

(***************************************************************************)
(* The destination: the configured org, --set-org's, or one chosen at the  *)
(* terminal; another one, where its login does not load and the person     *)
(* then agrees to change it.  It is saved once its login loads, before the *)
(* repo is validated.                                                      *)
(***************************************************************************)
Begin(p, o) ==
  /\ Moves(p, "off", "destination")
  /\ dest' = Set(dest, p, o)
  /\ sets' \in {Set(sets, p, s) : s \in {TRUE, o # conf[FolderOf(p)]}}
  /\ UNCHANGED <<folder, server, oids, seen, agreed, upload, again, saved, history>>

\* A recovery applies to a destination that is configured: not a chosen one.
Login(p, o) ==
  LET f == FolderOf(p)
      writes == sets[p] \/ o # dest[p]
  IN /\ Moves(p, "destination", "reading")
     /\ dest' = Set(dest, p, o)
     /\ sets' = Set(sets, p, FALSE)
     /\ conf' = IF writes THEN Set(conf, f, o) ELSE conf
     /\ UNCHANGED <<disk, edits, last, server, oids, seen, agreed, upload,
                    again, saved, history>>

\* Validated here, and read.
Read(p) ==
  /\ Moves(p, "reading", "status")
  /\ oids' = Set(oids, p, disk[FolderOf(p)])
  /\ UNCHANGED <<folder, server, target, seen, agreed, upload, again, saved, history>>

\* The org's limits, checked before anything of it is changed; what is next
\* offered, the data sources it lacks, is the module DataSources.
MaxFileBytes == IF FileBytes > 0 /\ FileBytes < UploadBytes THEN FileBytes ELSE UploadBytes
Fits(p) == \A b \in Range(oids[p]) : SizeOf(b) <= MaxFileBytes

Status(p) ==
  /\ Moves(p, "status", "confirm")
  /\ Fits(p)
  /\ seen' = Set(seen, p, head[dest[p]])
  /\ UNCHANGED <<folder, server, target, oids, agreed, upload, again, saved, history>>

\* What was published since this folder last published is confirmed first.
\* Mutant of Elsewhere: any publish recorded by this folder will do.
ElsewhereOnce(p) == seen[p] # Starting /\ last[FolderOf(p)][dest[p]] = Nothing
Elsewhere(p) == seen[p] # Starting /\ last[FolderOf(p)][dest[p]] # seen[p]

Confirm(p) ==
  /\ Moves(p, "confirm", "listing")
  /\ agreed' = Set(agreed, p, Elsewhere(p))
  /\ UNCHANGED <<folder, server, target, oids, seen, upload, again, saved, history>>

(***************************************************************************)
(* The content the server lacks, uploaded in calls within its limits.      *)
(***************************************************************************)
\* One call: the oids are no more than the files, which are within its limit.
ListMissing(p) ==
  /\ Moves(p, "listing", "uploading")
  /\ missing' = Set(missing, p, Range(oids[p]) \ blobs[dest[p]])
  /\ UNCHANGED <<folder, server, target, oids, seen, agreed, batch, again, saved, history>>

\* The bytes of some blobs: the places in them, each of which is one.
Content(B) == UNION {{b} \X (1 .. SizeOf(b)) : b \in B}
Bytes(B) == Cardinality(Content(B))

Full(p, b) ==
  Cardinality(batch[p]) = UploadBlobs \/ Bytes(batch[p]) + SizeOf(b) > UploadBytes

\* Reread from a file that held it, which still must.
Reread(p, b) ==
  /\ pc[p] = "uploading"
  /\ b \in missing[p]
  /\ batch[p] = {} \/ ~Full(p, b)
  /\ \E x \in Paths : oids[p][x] = b /\ disk[FolderOf(p)][x] = b
  /\ missing' = Set(missing, p, missing[p] \ {b})
  /\ batch' = Set(batch, p, batch[p] \cup {b})
  /\ UNCHANGED <<folder, server, pc, target, oids, seen, agreed, again, saved, history>>

Flush(p) ==
  /\ pc[p] = "uploading"
  /\ batch[p] # {}
  /\ missing[p] = {} \/ \E b \in missing[p] : Full(p, b)
  /\ blobs' = [blobs EXCEPT ![dest[p]] = @ \cup batch[p]]
  /\ batch' = Set(batch, p, {})
  /\ UNCHANGED <<folder, head, files, pc, target, oids, seen, agreed, missing,
                 again, saved, history>>

Uploaded(p) ==
  /\ Moves(p, "uploading", "publishing")
  /\ missing[p] = {} /\ batch[p] = {}
  /\ UNCHANGED <<folder, server, locals, history>>

(***************************************************************************)
(* Publish: the whole of the org's repo, replaced.                         *)
(***************************************************************************)
Stored(p) == Range(oids[p]) \subseteq blobs[dest[p]]
Same(p) == files[head[dest[p]]] = oids[p]

\* What the server does; the same files are the same revision.
Serve(p) ==
  /\ Stored(p)
  /\ IF Same(p) THEN UNCHANGED server
     ELSE /\ head' = Set(head, dest[p], p)
          /\ files' = Set(files, p, oids[p])
          /\ UNCHANGED blobs

Publish(p) ==
  /\ Moves(p, "publishing", "record")
  /\ Serve(p)
  /\ seen' = Set(seen, p, head'[dest[p]])
  /\ own' = [own EXCEPT ![FolderOf(p)][dest[p]] = @ \cup {seen'[p]}]
  /\ oids' = Set(oids, p, <<>>)
  /\ agreed' = Set(agreed, p, FALSE)
  /\ UNCHANGED <<folder, target, upload, again, saved, cut>>

\* Mutant of Retry: as often as the server says blobs_missing.
RetryEver(p) == UNCHANGED again
\* Once more.
Retry(p) == ~again[p] /\ again' = Set(again, p, TRUE)

\* Uploaded, then collected before the publish named it.
PublishMissing(p) ==
  /\ Moves(p, "publishing", "uploading")
  /\ ~Stored(p)
  /\ Retry(p)
  /\ missing' = Set(missing, p, Range(oids[p]) \ blobs[dest[p]])
  /\ UNCHANGED <<folder, server, target, oids, seen, agreed, batch, saved, history>>

\* Best effort: read the file, then write all of it.
RecordRead(p) ==
  /\ Moves(p, "record", "writing")
  /\ saved' = Set(saved, p, last[FolderOf(p)])
  /\ UNCHANGED <<folder, server, target, oids, seen, agreed, upload, again, history>>

RecordWrite(p) ==
  /\ Moves(p, "writing", "published")
  /\ last' = Set(last, FolderOf(p), [saved[p] EXCEPT ![dest[p]] = seen[p]])
  /\ Gone(p)
  /\ UNCHANGED <<disk, edits, conf, server, history>>

RecordFails(p) ==
  /\ Moves(p, "writing", "published")
  /\ Gone(p)
  /\ UNCHANGED <<folder, server, history>>

(***************************************************************************)
(* What ends a run before that.                                            *)
(***************************************************************************)
\* Refused, at a question too; or failed by the server, the network, the
\* disk, or a file that has changed.
\* Mutant of MayFail: a run fails when its revision cannot be recorded.
MayFailLate == Open \cup {"writing"}
MayFail == Open
Fail(p) ==
  /\ pc[p] \in MayFail
  /\ pc' = Set(pc, p, "not published")
  /\ Gone(p)
  /\ UNCHANGED <<folder, server, history>>

\* A call the server did, whose answer never came, or was cut off by Ctrl-C.
LoseUpload(p) ==
  /\ Moves(p, "uploading", "not published")
  /\ blobs' = [blobs EXCEPT ![dest[p]] = @ \cup batch[p]]
  /\ Gone(p)
  /\ UNCHANGED <<folder, head, files, history>>

LosePublish(p) ==
  /\ Moves(p, "publishing", "not published")
  /\ Serve(p)
  /\ cut' = cut \cup {p}
  /\ Gone(p)
  /\ UNCHANGED <<folder, own>>

\* A process killed as it writes published.json leaves what does not parse.
Kill(p) ==
  /\ pc[p] \in Steps \ {"off"}
  /\ pc' = Set(pc, p, "killed")
  /\ last' \in {last} \cup
       {Set(last, FolderOf(p), Unrecorded) : x \in {y \in {p} : pc[y] = "writing"}}
  /\ Gone(p)
  /\ UNCHANGED <<disk, edits, conf, server, history>>

(***************************************************************************)
(* The person, other publishers, and the server's collector.               *)
(***************************************************************************)
Edit(f, x, b) ==
  /\ edits > 0
  /\ edits' = edits - 1
  /\ disk[f][x] # b
  /\ disk' = [disk EXCEPT ![f][x] = b]
  /\ UNCHANGED <<conf, last, server, pc, locals, history>>

PublishElsewhere(o, r, fs) ==
  /\ files[r] = <<>>
  /\ head' = [head EXCEPT ![o] = r]
  /\ files' = [files EXCEPT ![r] = fs]
  /\ blobs' = [blobs EXCEPT ![o] = @ \cup Range(fs)]
  /\ UNCHANGED <<folder, pc, locals, history>>

Collect(o, b) ==
  /\ b \in blobs[o] \ Range(files[head[o]])
  /\ blobs' = [blobs EXCEPT ![o] = @ \ {b}]
  /\ UNCHANGED <<folder, head, files, pc, locals, history>>

Step(p) ==
  \/ \E o \in Orgs : Begin(p, o) \/ Login(p, o)
  \/ Read(p) \/ Status(p) \/ Confirm(p) \/ ListMissing(p)
  \/ \E b \in Blobs : Reread(p, b)
  \/ Flush(p) \/ Uploaded(p) \/ Publish(p) \/ PublishMissing(p)
  \/ RecordRead(p) \/ RecordWrite(p) \/ RecordFails(p) \/ Fail(p)

Next ==
  \/ \E p \in Publishes : Step(p) \/ LoseUpload(p) \/ LosePublish(p) \/ Kill(p)
  \/ \E f \in Folders, x \in Paths, b \in Blobs : Edit(f, x, b)
  \/ \E o \in Orgs, r \in Others, fs \in TheirFiles : PublishElsewhere(o, r, fs)
  \/ \E o \in Orgs, b \in Blobs : Collect(o, b)

Spec == Init /\ [][Next]_vars /\ \A p \in Publishes : WF_vars(Step(p))

(***************************************************************************)
(* Properties.                                                             *)
(***************************************************************************)
\* A publish replaces a revision nobody published, one this folder was told is
\* its own, or one the person agreed to replace (publish.go:213); or else one
\* published since it asked for the org's status, of which nothing was asked.
Agreed(p, r) ==
  \/ r = Starting
  \/ r \in own[FolderOf(p)][dest[p]]
  \/ agreed[p] /\ r = seen[p]
Replaces(p) == pc[p] = "publishing" /\ pc'[p] # "publishing" /\ head' # head
ReplacesUnagreedOnlyIfLate ==
  [][\A p \in Publishes : Replaces(p)
       => Agreed(p, head[dest[p]]) \/ head[dest[p]] # seen[p]]_vars

\* A run that ends saying it has not published has made no revision of the
\* org's (cmd/anfra/publish.go:89), unless its publish was never answered.
NotPublishedIsSo ==
  \A p \in Publishes :
    pc[p] = "not published" /\ files[p] # <<>> => p \in cut

\* Every upload is within the server's limits, for any sizes of the files the
\* limits let through (publish.go:311).
UploadsWithinLimits ==
  \A p \in Publishes :
    Cardinality(batch[p]) <= UploadBlobs /\ Bytes(batch[p]) <= UploadBytes

\* Both: what a run sends is within the limits, and what it says is so.
PublishIsSound == NotPublishedIsSo /\ UploadsWithinLimits

\* Every run that begins ends, whatever the server collects meanwhile.
PublishEnds == \A p \in Publishes : pc[p] # "off" ~> pc[p] \in Ended

=============================================================================
