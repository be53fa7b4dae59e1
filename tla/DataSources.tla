---------------------------- MODULE DataSources ----------------------------
(***************************************************************************)
(* What a publish offers an org: the data sources of this folder that the  *)
(* org lacks, and for DuckDB ones, files here, a copy in the person's      *)
(* MotherDuck account (internal/publish/datasources.go and motherduck.go,  *)
(* over internal/motherduck).  One publish, beside the person, who may     *)
(* sign the MotherDuck CLI in to another account, and make databases.      *)
(* All files have one base name: they contend for the names made from it.  *)
(***************************************************************************)
EXTENDS Naturals, FiniteSets, FiniteSetsExt

CONSTANTS Warehouse,    \* the data sources that are not DuckDB files
          Files,        \* the DuckDB files here
          SourcesOf(_), \* the data sources of each
          Accounts,     \* MotherDuck accounts
          OrgHas,       \* the data sources the org has
          Taken,        \* the names of the databases each account has
          MaxNames,     \* how many names are tried: name, name_2, ... name_99
          MaxOthers     \* how often the person acts in another window

SignedOut == "signed out"  \* the CLI is not signed in, or is not there
NotYet == "not yet"        \* not looked at
NoFile == "no file"
TheFile == "data_sources.yml"  \* the file they are declared in
TheToken == 0              \* the org's token, among what is left in an account

Duck == UNION {SourcesOf(f) : f \in Files}
Local == Warehouse \cup Duck
Names == 1 .. MaxNames

ASSUME DataSourcesAssumption ==
  /\ MaxNames \in Nat /\ MaxOthers \in Nat
  /\ Warehouse \cap Duck = {}
  /\ {SignedOut, NotYet} \cap Accounts = {}
  /\ NoFile \notin Files
  /\ TheFile \notin Local

VARIABLES
  org,     \* each data source on the org: "none", "theirs", "made", or the
           \* token that a copy's was made with: "ours", "pasted"
  dbs,     \* each account's databases, by name: "free", "theirs", "ours", "part"
  cli,     \* the account the MotherDuck CLI is signed in to
  others,  \* the person's acts left
  offer,      \* where the publish is
  err,     \* whether offerCopies is to return an error
  todo,    \* the data sources to create
  unoffered,   \* the files not yet offered
  file,    \* the file being offered
  skipped, \* the data sources left out
  said,    \* those a warning or a hint has named, or the file itself
  md,      \* the fields of mdCopy
  live,    \* whether the token this publish made works
  warned,  \* what was said to be left behind: databases, and the token
  lost     \* history: what the code could not know of

person == <<dbs, cli, others>>
work == <<todo, unoffered, file, skipped>>
offerVars == <<org, person, offer, err, work, said, md, live, warned, lost>>

OfferEnded == {"ok", "failed", "killed"}
OfferSteps == {"list", "direct", "file", "asking", "signing in", "session", "again",
          "token", "upload", "copies", "finish"}

\* mdCopy.
MdCopy ==
  [seen : Accounts \cup {SignedOut, NotYet}, \* looking, and seen
   user : Accounts \cup {SignedOut},  \* status, once ready
   session : Accounts \cup {SignedOut},
   named : Accounts \cup {SignedOut},
   databases : SUBSET Names,
   all : BOOLEAN, gaveUp : BOOLEAN,
   token : {"none", "ours", "pasted"}, used : BOOLEAN]

OfferTypeOK ==
  /\ org \in [Local -> {"none", "theirs", "made", "ours", "pasted"}]
  /\ dbs \in [Accounts -> [Names -> {"free", "theirs", "ours", "part"}]]
  /\ cli \in Accounts \cup {SignedOut}
  /\ others \in 0 .. MaxOthers
  /\ offer \in OfferSteps \cup OfferEnded
  /\ err \in BOOLEAN
  /\ todo \subseteq Local
  /\ unoffered \subseteq Files
  /\ file \in Files \cup {NoFile}
  /\ skipped \subseteq Local
  /\ said \subseteq Local \cup {TheFile}
  /\ md \in MdCopy
  /\ live \in BOOLEAN
  /\ warned \subseteq Accounts \X (Names \cup {TheToken})
  /\ lost \subseteq {"answer", "account", "check", "token"}

OfferInit ==
  /\ org = [s \in Local |-> IF s \in OrgHas THEN "theirs" ELSE "none"]
  /\ dbs = [a \in Accounts |->
              [n \in Names |-> IF <<a, n>> \in Taken THEN "theirs" ELSE "free"]]
  /\ cli \in Accounts \cup {SignedOut}
  /\ others = MaxOthers
  /\ offer = "list" /\ err = FALSE
  /\ todo = {} /\ unoffered = {} /\ file = NoFile
  /\ skipped = {} /\ said = {}
  /\ md = [seen |-> NotYet, user |-> SignedOut, session |-> SignedOut,
           named |-> SignedOut, databases |-> {}, all |-> FALSE,
           gaveUp |-> FALSE, token |-> "none", used |-> FALSE]
  /\ live = FALSE
  /\ warned = {} /\ lost = {}

Passes(from, to) == offer = from /\ offer' = to
Lacks(S) == {s \in S : org[s] = "none"}

(***************************************************************************)
(* offerDataSourcesToOrg: the data sources the org's server can reach.     *)
(***************************************************************************)
List ==
  /\ Passes("list", "direct")
  /\ todo' = Lacks(Warehouse)
  /\ unoffered' = {f \in Files : Lacks(SourcesOf(f)) # {}}
  /\ UNCHANGED <<org, person, err, file, skipped, said, md, live, warned, lost>>

\* The file does not load: the publish goes on with that said, naming none.
ListUnread ==
  /\ Passes("list", "ok")
  /\ said' = {TheFile}
  /\ UNCHANGED <<org, person, err, work, md, live, warned, lost>>

\* Without the permission to list them, each is named in a hint.
ListForbidden ==
  /\ Passes("list", "ok")
  /\ said' = Local
  /\ UNCHANGED <<org, person, err, work, md, live, warned, lost>>

\* No to this one; with no one to ask, to all that are left.
Decline(S) ==
  /\ offer = "direct"
  /\ skipped' = skipped \cup S
  /\ todo' = todo \ S
  /\ UNCHANGED <<org, person, offer, err, unoffered, file, said, md, live, warned, lost>>

\* Its connection tested, or created though the test fails.
CreateDirect(d) ==
  /\ offer = "direct"
  /\ org' = [org EXCEPT ![d] = "made"]
  /\ todo' = todo \ {d}
  /\ UNCHANGED <<person, offer, err, unoffered, file, skipped, said, md, live, warned, lost>>

\* Created, and the answer lost: said not to be.
LoseDirect(d) ==
  /\ offer = "direct"
  /\ org' = [org EXCEPT ![d] = "made"]
  /\ todo' = todo \ {d}
  /\ skipped' = skipped \cup {d}
  /\ lost' = lost \cup {"answer"}
  /\ UNCHANGED <<person, offer, err, unoffered, file, said, md, live, warned>>

\* Mutant of ForbiddenSays: only the one that was refused is named.
ForbiddenSaysOne == \E d \in todo : said' = said \cup {d}
ForbiddenSays == said' = said \cup todo

\* Only an admin may add one: the rest are named, and no copy is offered.
DirectForbidden ==
  /\ Passes("direct", "ok")
  /\ todo # {}
  /\ ForbiddenSays
  /\ UNCHANGED <<org, person, err, work, md, live, warned, lost>>

DirectDone ==
  /\ Passes("direct", "file")
  /\ todo = {}
  /\ UNCHANGED <<org, person, err, work, said, md, live, warned, lost>>

(***************************************************************************)
(* offerCopies: one file at a time, each said first.  Offering ends in the *)
(* file's data sources created, or skipped.                                *)
(***************************************************************************)
Offered == Lacks(SourcesOf(file))

\* Not offered (no terminal, or given up on), or declined, or failed.
NoCopy(from) ==
  /\ Passes(from, "file")
  /\ skipped' = skipped \cup Offered
  /\ file' = NoFile
  /\ UNCHANGED <<todo, unoffered>>

NextFile(f) ==
  /\ Passes("file", "asking")
  /\ file = NoFile
  /\ f \in unoffered
  /\ unoffered' = unoffered \ {f}
  /\ file' = f
  /\ said' = said \cup Lacks(SourcesOf(f))
  /\ UNCHANGED <<org, person, err, todo, skipped, md, live, warned, lost>>

\* What the CLI says, now: signed out is an answer, no CLI is none signed in.
CliStatus == cli

\* lookAhead, beside the questions, once there is a file to offer.
LookAhead ==
  /\ offer \in {"direct", "asking"}
  /\ unoffered # {} \/ file # NoFile
  /\ md.seen = NotYet
  /\ md' = [md EXCEPT !.seen = CliStatus]
  /\ UNCHANGED <<org, person, offer, err, work, said, live, warned, lost>>

\* The account a question names: the one signed in to, or first seen.
Named == IF md.user # SignedOut THEN md.user ELSE md.seen

\* Yes, or yes to all, now or before.
AskUpload(all) ==
  /\ Passes("asking", "signing in")
  /\ ~md.gaveUp
  /\ md.seen # NotYet
  /\ md' = [md EXCEPT !.all = @ \/ all,
                      !.named = IF Named = SignedOut THEN @ ELSE Named]
  /\ UNCHANGED <<org, person, err, work, said, live, warned, lost>>

SkipUpload(from) ==
  /\ from \in {"asking", "again"}
  /\ NoCopy(from)
  /\ md' = [md EXCEPT !.all = FALSE]
  /\ UNCHANGED <<org, person, err, said, live, warned, lost>>

\* Signed in before; or seen to be, moments ago; or asked of the CLI now.
SignedIn ==
  /\ offer = "signing in"
  /\ IF md.user # SignedOut THEN offer' = "token" /\ UNCHANGED md
     ELSE IF md.seen # SignedOut THEN offer' = "session" /\ UNCHANGED md
     ELSE /\ CliStatus # SignedOut
          /\ offer' = "session"
          /\ md' = [md EXCEPT !.seen = CliStatus]
  /\ UNCHANGED <<org, person, err, work, said, live, warned, lost>>

\* motherduck login: the account chosen in signing in is named by that.
CliLogin(a) ==
  /\ Passes("signing in", "session")
  /\ md.user = SignedOut /\ md.seen = SignedOut /\ CliStatus = SignedOut
  /\ cli' = a
  /\ md' = [md EXCEPT !.seen = a, !.named = a]
  /\ UNCHANGED <<org, dbs, others, err, work, said, live, warned, lost>>

NotSignedIn ==
  /\ md.user = SignedOut /\ md.seen = SignedOut
  /\ NoCopy("signing in")
  /\ md' \in {md, [md EXCEPT !.gaveUp = TRUE]}
  /\ UNCHANGED <<org, person, err, said, live, warned, lost>>

\* The names of an account's databases.
Listed(a) == {n \in Names : dbs[a][n] # "free"}

\* The token and the databases of the account the CLI is signed in to now.
Again == md.named # md.seen
Session ==
  /\ Passes("session", IF Again THEN "again" ELSE "token")
  /\ cli # SignedOut
  /\ md' = [md EXCEPT !.user = md.seen, !.session = cli,
                      !.databases = Listed(cli)]
  /\ UNCHANGED <<org, person, err, work, said, live, warned, lost>>

SessionFails ==
  /\ NoCopy("session")
  /\ md' = [md EXCEPT !.gaveUp = TRUE]
  /\ UNCHANGED <<org, person, err, said, live, warned, lost>>

\* Signed in to an account no question named: asked again, naming it.
AskAgain ==
  /\ Passes("again", "token")
  /\ md' = [md EXCEPT !.named = md.user]
  /\ UNCHANGED <<org, person, err, work, said, live, warned, lost>>

(***************************************************************************)
(* orgToken: a read-only token of the account's, once, before the upload.  *)
(***************************************************************************)
HasToken ==
  /\ Passes("token", "upload")
  /\ md.token # "none"
  /\ UNCHANGED <<org, person, err, work, said, md, live, warned, lost>>

\* MotherDuck makes one of the user's only for a session of theirs.
Makes == md.session = md.user /\ live' = TRUE

MakeToken ==
  /\ Passes("token", "upload")
  /\ md.token = "none"
  /\ Makes
  /\ md' = [md EXCEPT !.token = "ours"]
  /\ UNCHANGED <<org, person, err, work, said, warned, lost>>

PasteToken ==
  /\ Passes("token", "upload")
  /\ md.token = "none"
  /\ md' = [md EXCEPT !.token = "pasted"]
  /\ UNCHANGED <<org, person, err, work, said, live, warned, lost>>

\* Skipped, refused; or made, and its answer lost.
NoTokenMade ==
  /\ md.token = "none"
  /\ NoCopy("token")
  /\ lost' \in {lost, lost \cup {"token"}}
  /\ UNCHANGED <<org, person, err, said, md, live, warned>>

(***************************************************************************)
(* upload: CREATE DATABASE, under the first name not listed.               *)
(***************************************************************************)
FreeName == Min(Names \ md.databases)
HasName == Names \ md.databases # {}

Creates(n) == dbs[cli][n] = "free"

Upload ==
  /\ Passes("upload", "copies")
  /\ HasName /\ cli # SignedOut
  /\ Creates(FreeName)
  /\ dbs' = [dbs EXCEPT ![cli][FreeName] = "ours"]
  /\ md' = [md EXCEPT !.databases = @ \cup {FreeName}]
  /\ todo' = Offered
  /\ UNCHANGED <<org, cli, others, err, unoffered, file, skipped, said, live, warned, lost>>

\* Taken since it was listed; that database is not this upload's.
UploadTaken ==
  /\ NoCopy("upload")
  /\ HasName /\ cli # SignedOut
  /\ dbs[cli][FreeName] # "free"
  /\ md' = [md EXCEPT !.databases = @ \cup {FreeName}]
  /\ UNCHANGED <<org, person, err, said, live, warned, lost>>

\* No name, the file held by another program or changed while it was copied,
\* or refused.
UploadFails ==
  /\ NoCopy("upload")
  /\ UNCHANGED <<org, person, err, said, md, live, warned, lost>>

\* DatabaseExists, whose failure is passed over.
SaysPartial(a, n) ==
  \/ warned' = warned \cup {<<a, n>>} /\ UNCHANGED lost
  \/ lost' = lost \cup {"check"} /\ UNCHANGED warned

UploadBreaks ==
  /\ NoCopy("upload")
  /\ HasName /\ cli # SignedOut
  /\ dbs[cli][FreeName] = "free"
  /\ dbs' = [dbs EXCEPT ![cli][FreeName] = "part"]
  /\ SaysPartial(cli, FreeName)
  /\ UNCHANGED <<org, cli, others, err, said, md, live>>

\* Ctrl-C: said without a check.
UploadCut ==
  /\ Passes("upload", "finish")
  /\ HasName /\ cli # SignedOut
  /\ dbs[cli][FreeName] = "free"
  /\ err' = TRUE
  /\ dbs' = [dbs EXCEPT ![cli][FreeName] = "part"]
  /\ warned' = warned \cup {<<cli, FreeName>>}
  /\ UNCHANGED <<org, cli, others, work, said, md, live, lost>>

(***************************************************************************)
(* The org's data sources on the copy.                                     *)
(***************************************************************************)
\* Mutant of Uses: the token counts as used only by the file's last.
UsesLast(d) == todo = {d}
Uses(d) == TRUE

CreateCopy(d) ==
  /\ offer = "copies"
  /\ org' = [org EXCEPT ![d] = md.token]
  /\ todo' = todo \ {d}
  /\ md' = [md EXCEPT !.used = Uses(d)]
  /\ UNCHANGED <<person, offer, err, unoffered, file, skipped, said, live, warned, lost>>

SkipCopy(d) ==
  /\ offer = "copies"
  /\ todo' = todo \ {d}
  /\ skipped' = skipped \cup {d}
  /\ UNCHANGED <<org, person, offer, err, unoffered, file, said, md, live, warned, lost>>

LoseCopy(d) ==
  /\ offer = "copies"
  /\ org' = [org EXCEPT ![d] = md.token]
  /\ todo' = todo \ {d}
  /\ skipped' = skipped \cup {d}
  /\ lost' = lost \cup {"answer"}
  /\ UNCHANGED <<person, offer, err, unoffered, file, said, md, live, warned>>

CopiesDone ==
  /\ Passes("copies", "file")
  /\ todo = {}
  /\ file' = NoFile
  /\ UNCHANGED <<org, person, err, todo, unoffered, skipped, said, md, live, warned, lost>>

\* Forbidden: no more copies, and no error.
CopyForbidden ==
  /\ Passes("copies", "finish")
  /\ todo # {}
  /\ skipped' = skipped \cup todo \cup Lacks(UNION {SourcesOf(f) : f \in unoffered})
  /\ todo' = {}
  /\ UNCHANGED <<org, person, err, unoffered, file, said, md, live, warned, lost>>

FilesDone ==
  /\ Passes("file", "finish")
  /\ file = NoFile /\ unoffered = {}
  /\ UNCHANGED <<org, person, err, work, said, md, live, warned, lost>>

\* The server's or the context's error, or quitting to switch accounts.
OfferFails ==
  /\ offer \in OfferSteps \ {"finish"}
  /\ offer' = "finish"
  /\ err' = TRUE
  /\ UNCHANGED <<org, person, work, said, md, live, warned, lost>>

OfferKilled ==
  /\ offer \in OfferSteps
  /\ offer' = "killed"
  /\ UNCHANGED <<org, person, err, work, said, md, live, warned, lost>>

(***************************************************************************)
(* finish: the token goes if no data source came to use it, though the     *)
(* context has ended; then what was left out is said.                      *)
(***************************************************************************)
Unused == md.token = "ours" /\ ~md.used

Said == said' = IF err THEN said ELSE said \cup skipped

Finish ==
  /\ Passes("finish", IF err THEN "failed" ELSE "ok")
  /\ live' = (live /\ ~Unused)
  /\ Said
  /\ UNCHANGED <<org, person, err, work, md, warned, lost>>

RevokeFails ==
  /\ Passes("finish", IF err THEN "failed" ELSE "ok")
  /\ Unused
  /\ warned' = warned \cup {<<md.user, TheToken>>}
  /\ Said
  /\ UNCHANGED <<org, person, err, work, md, live, lost>>

(***************************************************************************)
(* The person, in another window.                                          *)
(***************************************************************************)
Switch(a) ==
  /\ others > 0 /\ others' = others - 1
  /\ cli # a /\ cli' = a
  /\ lost' = IF md.seen \in Accounts THEN lost \cup {"account"} ELSE lost
  /\ UNCHANGED <<org, dbs, offer, err, work, said, md, live, warned>>

MakeDatabase(a, n) ==
  /\ others > 0 /\ others' = others - 1
  /\ dbs[a][n] = "free"
  /\ dbs' = [dbs EXCEPT ![a][n] = "theirs"]
  /\ UNCHANGED <<org, cli, offer, err, work, said, md, live, warned, lost>>

Copy ==
  \/ \E f \in Files : NextFile(f)
  \/ \E all \in BOOLEAN : AskUpload(all)
  \/ \E from \in OfferSteps : SkipUpload(from)
  \/ SignedIn \/ (\E a \in Accounts : CliLogin(a)) \/ NotSignedIn
  \/ Session \/ SessionFails \/ AskAgain
  \/ HasToken \/ MakeToken \/ PasteToken \/ NoTokenMade
  \/ Upload \/ UploadTaken \/ UploadFails \/ UploadBreaks \/ UploadCut
  \/ \E d \in todo : CreateCopy(d) \/ SkipCopy(d) \/ LoseCopy(d)
  \/ CopiesDone \/ CopyForbidden \/ FilesDone

OfferNext ==
  \/ List \/ ListUnread \/ ListForbidden
  \/ \E d \in todo : Decline({d}) \/ CreateDirect(d) \/ LoseDirect(d)
  \/ Decline(todo)
  \/ DirectForbidden \/ DirectDone
  \/ LookAhead \/ Copy \/ OfferFails \/ OfferKilled \/ Finish \/ RevokeFails
  \/ \E a \in Accounts \cup {SignedOut} : Switch(a)
  \/ \E a \in Accounts, n \in Names : MakeDatabase(a, n)

OfferSpec == OfferInit /\ [][OfferNext]_offerVars

(***************************************************************************)
(* Properties.                                                             *)
(***************************************************************************)
\* A publish that goes on has named every data source the org lacks, though
\* one was refused, or could not be made, or no one was there to ask
\* (datasources.go:33); but for two ends of the offer.  A data_sources.yml that
\* does not load is said itself, and names none (datasources.go:48).  And where
\* adding one of the others was forbidden, DuckDB ones and declined ones go
\* unnamed, as the offer ends where it is.
LackingIsSaid ==
  offer = "ok" => \A s \in Local :
    org[s] = "none" => \/ s \in said
                       \/ said = {TheFile}
                       \/ todo # {} /\ s \in Duck \cup skipped

\* What is left in the person's account, when the publish ends by itself, is
\* used by the org or was said: a token, and a database partly made, unless
\* the check for one failed (motherduck.go:412, 528).  A token whose making
\* was never answered is no one's to revoke.
LeftoversAreSaid ==
  offer \in {"ok", "failed"} =>
    /\ live => <<md.user, TheToken>> \in warned \/ \E s \in Duck : org[s] = "ours"
    /\ \A a \in Accounts, n \in Names :
         dbs[a][n] = "part" => <<a, n>> \in warned \/ "check" \in lost

\* Both: what a publish leaves undone, and what it leaves behind.
EndIsTold == LackingIsSaid /\ LeftoversAreSaid

\* The token is revoked only if the org reads nothing with it, or was given
\* it in a call whose answer was lost (motherduck.go:88).
RevokesOnlyUnused ==
  [][live /\ ~live' =>
       (\A s \in Duck : org[s] # "ours") \/ "answer" \in lost]_offerVars

\* Nothing the account or the org had is changed, whatever is made there
\* between the listing and the upload (motherduck.go:88, 427).
TheirsIsUntouched ==
  [][/\ \A a \in Accounts, n \in Names :
          dbs[a][n] # "free" => dbs'[a][n] = dbs[a][n]
     /\ \A s \in Local : org[s] = "theirs" => org'[s] = "theirs"]_offerVars

\* A file goes only to an account that was named when it was agreed to, or
\* to the one the CLI was switched to after it was looked at.
UploadsWhereAgreed ==
  [][\A a \in Accounts, n \in Names :
       dbs'[a][n] # dbs[a][n] /\ dbs'[a][n] # "theirs" =>
         md.named = a \/ "account" \in lost]_offerVars

\* What a setup does it was agreed to do: to a token nothing reads with, in an
\* account that was named, beside what others made there.
DoesAsAgreed == RevokesOnlyUnused /\ TheirsIsUntouched /\ UploadsWhereAgreed
=============================================================================
