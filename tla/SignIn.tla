------------------------------- MODULE SignIn --------------------------------
(***************************************************************************)
(* anfra auth login and logout, and the two ways anfra publish finds an    *)
(* org to publish to (cmd/anfra/auth.go): the pickers and the activity of  *)
(* internal/cliui around one login or logout of internal/cliauth, beside   *)
(* the person's keys, the browser, the server and the login's timeout.     *)
(* What a save is on disk is Credentials': here it is done, or fails.      *)
(***************************************************************************)
EXTENDS FiniteSets, Naturals

CONSTANTS
  Orgs, NoOrg,
  Depth \* the folders from the one auth status runs in up to the file system's root

\* An org is its server's address, and no choice, config or address that is not one.
ASSUME SignInConstants ==
  /\ NoOrg \notin Orgs /\ Depth \in Nat \ {0}
  /\ (Orgs \cup {NoOrg}) \cap {"url", "cloud", "another", "cancel", "change", "bad", "none"} = {}

VARIABLES
  command,     \* "login", "logout", or publish's: "select" without an org, "recover" without a login; or "status"
  linked,      \* the repo's org, or NoOrg
  given,       \* the address the command is given: an org, NoOrg, or "bad"
  terminal,    \* [interactive, machine, cloud]: authTerminal's, and whether a cloud URL is configured
  saved,       \* the orgs with a saved login
  stale,       \* those of them whose login is no longer of use
  at,          \* where the command is
  ask,         \* the picker that is open, its choices, and whether it takes a URL
  target,      \* the org hinted at, then the one authenticated, picked or signed out of
  work,        \* [browser, callback, result]: of a login; result of either
  ctx,         \* the work's context: "live", "canceled" or "expired"
  told,        \* what the command ends with
  folders,     \* status's: each's config (its org.url, "none" there, "bad"), and whether a repo ends, or home is, there
  issued,      \* the server's: the grant it issued to this login, and whether it is live
  past         \* history: the orgs agreed to, a key that cancels, a reply lost, the orgs signed out of and those listed

signIn == <<command, linked, given, terminal, saved, stale, at, ask, target, work, ctx, told, folders, issued, past>>
setting == <<command, linked, given, terminal, folders, stale>>

Closed == [of |-> "none", choices |-> {}, editing |-> FALSE]
NoWork == [browser |-> "closed", callback |-> "none", result |-> "none"]
NoGrant == [org |-> NoOrg, live |-> FALSE]

SignInInit ==
  /\ command \in {"login", "logout", "select", "recover", "status"}
  /\ linked \in (IF command = "recover" THEN Orgs ELSE IF command \in {"select", "status"} THEN {NoOrg} ELSE Orgs \cup {NoOrg})
  /\ folders \in (IF command = "status" THEN [1 .. Depth -> [config : Orgs \cup {NoOrg, "none", "bad"}, boundary : BOOLEAN]] ELSE {<<>>})
  /\ given \in (IF command \in {"login", "logout"} THEN Orgs \cup {NoOrg, "bad"} ELSE {NoOrg})
  /\ terminal \in [interactive : (IF command \in {"login", "logout"} THEN BOOLEAN ELSE {TRUE}),
                  machine : (IF command = "login" THEN BOOLEAN ELSE {FALSE}), cloud : (IF command = "status" THEN {TRUE} ELSE BOOLEAN)]
  /\ saved \in SUBSET (IF command = "recover" THEN Orgs \ {linked} ELSE Orgs)
  /\ stale \in (IF command = "status" THEN SUBSET saved ELSE {{}})
  /\ at = "start" /\ ask = Closed /\ target = NoOrg /\ work = NoWork /\ ctx = "live"
  /\ told = "nothing" /\ issued = NoGrant
  /\ past = [agreed |-> {}, canceled |-> FALSE, lost |-> FALSE, removed |-> {}, listed |-> {}]

-----------------------------------------------------------------------------
(* The pickers. *)

\* StoredLogins: each with whether it can be used, told without asking a server.
Stored == [org : saved \ stale, login : {"valid"}] \cup [org : stale, login : {"invalid"}]
StoredOrgs == {l.org : l \in Stored}

\* What each picker offers.
Offers(of) ==
  CASE of = "address"     -> {"url"} \cup IF terminal.cloud THEN {"cloud"} ELSE {}
    [] of = "stored"      -> StoredOrgs
    [] of = "target"      -> StoredOrgs \cup {"another"}
    [] of = "linked"      -> {linked, "another"}
    [] of = "alternative" -> (StoredOrgs \ {linked}) \cup {"another"}
    [] of = "change"      -> {"cancel", "change"}

\* PickOrg opens: on the URL at once, when that is all there is to choose.
Opens(of, choices) ==
  /\ at' = "pick"
  /\ ask' = [of |-> of, choices |-> choices, editing |-> choices = {"url"}]
Asks(of) == Opens(of, Offers(of))

Ends(what) == at' = "end" /\ told' = what /\ ask' = Closed
LogsIn(hint) == at' = "connect" /\ target' = hint /\ ask' = Closed

\* logoutOrg
StartLogout ==
  /\ command = "logout"
  /\ IF given \in Orgs THEN at' = "signout" /\ target' = given /\ UNCHANGED <<ask, told>>
     ELSE IF given = "bad" \/ ~terminal.interactive THEN Ends("refused") /\ UNCHANGED target
     ELSE IF StoredOrgs = {} THEN Ends("none saved") /\ UNCHANGED target
     ELSE Asks("stored") /\ UNCHANGED <<target, told>>
\* loginServer and loginAddress, of auth login
StartLogin ==
  /\ command = "login"
  /\ IF given \in Orgs THEN LogsIn(given) /\ UNCHANGED told
     ELSE IF given = "bad" \/ ~terminal.interactive THEN Ends("refused") /\ UNCHANGED target
     ELSE Asks("address") /\ UNCHANGED <<target, told>>
\* selectPublishOrg
StartSelect == command = "select" /\ Asks(IF StoredOrgs = {} THEN "address" ELSE "target") /\ UNCHANGED <<target, told>>
\* recoverPublishOrg
StartRecover == command = "recover" /\ Asks("linked") /\ UNCHANGED <<target, told>>

\* statusRepoOrg: the org of the nearest config, looked for up to the repo's root,
\* or home, from that folder or any above it.
UpFrom[n \in 1 .. Depth] ==
  IF folders[n].config # "none" THEN folders[n].config
  ELSE IF folders[n].boundary \/ n = Depth THEN NoOrg ELSE UpFrom[n + 1]
Configured == UpFrom[1]
\* authStatus: the saved logins, and the repo's org among them or missing.
StatusSays ==
  Stored \cup (IF Configured \in Orgs \ StoredOrgs THEN {[org |-> Configured, login |-> "missing"]} ELSE {})
Status ==
  /\ command = "status"
  /\ IF Configured = "bad" THEN Ends("failed") /\ UNCHANGED target
     ELSE Ends("status") /\ target' = Configured

Start ==
  /\ at = "start"
  /\ Status \/ StartLogin \/ StartLogout \/ StartSelect \/ StartRecover
  /\ past' = IF command = "status" THEN [past EXCEPT !.listed = StatusSays] ELSE past
  /\ UNCHANGED <<setting, saved, work, ctx, issued>>

Agrees(o) == past' = [past EXCEPT !.agreed = @ \cup {o}]

\* Mutant of Recovered: a login to another org than the repo's is not asked about.
RecoveredUnasked(o) == target' = o /\ Ends("chosen")
\* The org recoverPublishOrg has: another than the repo's is asked about.
Recovered(o) ==
  /\ target' = o
  /\ IF o # linked THEN Opens("change", Offers("change")) /\ UNCHANGED told ELSE Ends("chosen")

\* What the command does with what was picked.
Picked(c) ==
  CASE ask.of = "address" -> LogsIn(NoOrg) /\ UNCHANGED <<told, past>>
    [] ask.of = "stored" -> at' = "signout" /\ target' = c /\ ask' = Closed /\ Agrees(c) /\ UNCHANGED told
    [] ask.of = "target" /\ c # "another" -> Ends("chosen") /\ target' = c /\ Agrees(c)
    [] ask.of = "confirm" -> Ends("chosen") /\ Agrees(c) /\ UNCHANGED target
    [] ask.of = "linked" /\ c = linked -> LogsIn(linked) /\ UNCHANGED <<told, past>>
    [] ask.of = "linked" /\ c = "another" /\ StoredOrgs \ {linked} # {} -> Asks("alternative") /\ UNCHANGED <<target, told, past>>
    [] ask.of = "alternative" /\ c # "another" -> Recovered(c) /\ UNCHANGED past
    [] ask.of = "change" /\ c = "cancel" -> Ends("canceled") /\ UNCHANGED <<target, past>>
    [] ask.of = "change" /\ c = "change" -> Ends("chosen") /\ Agrees(target) /\ UNCHANGED target
    [] OTHER -> Asks("address") /\ UNCHANGED <<target, told, past>>

\* orgPicker.Update: Enter on a choice, Enter after a URL, Esc, Ctrl-C.
Select(c) ==
  /\ at = "pick" /\ ~ask.editing /\ c \in ask.choices
  /\ IF c = "url" THEN ask' = [ask EXCEPT !.editing = TRUE] /\ UNCHANGED <<at, target, told, past>> ELSE Picked(c)
  /\ UNCHANGED <<setting, saved, work, ctx, issued>>
EnterUrl(o) ==
  /\ at = "pick" /\ ask.editing
  /\ LogsIn(o)
  /\ UNCHANGED <<setting, saved, work, ctx, told, issued, past>>
Back ==
  /\ at = "pick" /\ ask.editing
  /\ ask' = [ask EXCEPT !.editing = FALSE]
  /\ UNCHANGED <<setting, saved, at, target, work, ctx, told, issued, past>>
CancelPick ==
  /\ at = "pick"
  /\ Ends("canceled")
  /\ UNCHANGED <<setting, saved, target, work, ctx, issued, past>>

-----------------------------------------------------------------------------
(* Login, in an activity the person may cancel. *)

Working == at \in {"connect", "wait", "exchange", "save", "revoke", "signout", "worked"}
Works(result) == at' = "worked" /\ work' = [work EXCEPT !.result = result, !.browser = "closed"]

\* oauthJSONRequest, and the exchange's: why a request failed.
ErrorOf(c) == IF c = "canceled" THEN "canceled" ELSE IF c = "expired" THEN "timed out" ELSE "failed"

\* The credential file's check, discovery of the server, and the listener.
Connect ==
  /\ at = "connect"
  /\ \/ ctx = "live" /\ at' = "wait" /\ work' = [work EXCEPT !.browser = "opening"]
     \/ Works(ErrorOf(ctx))
  /\ UNCHANGED <<setting, saved, ask, target, ctx, told, issued, past>>

\* openBrowser: without a person to give the link to, a launcher that fails ends it.
Launch ==
  /\ at = "wait" /\ work.browser = "opening"
  /\ \/ work' = [work EXCEPT !.browser = "open"] /\ UNCHANGED at
     \/ IF terminal.machine THEN Works("failed") ELSE work' = [work EXCEPT !.browser = "open"] /\ UNCHANGED at
  /\ UNCHANGED <<setting, saved, ask, target, ctx, told, issued, past>>

\* validateOAuthCallback: of this login and its server, with a code or an error.
Requests == [own : BOOLEAN, code : BOOLEAN, error : BOOLEAN, described : BOOLEAN]
Valid(r) == r.own /\ r.code # r.error /\ (r.code => ~r.described)
\* The callback's handler: the first that is valid counts.
Callback(r) ==
  /\ at = "wait" /\ work.callback = "none" /\ Valid(r)
  /\ work' = [work EXCEPT !.callback = IF r.error THEN "denied" ELSE "code"]
  /\ UNCHANGED <<setting, saved, at, ask, target, ctx, told, issued, past>>

\* waitCallback: whichever is ready, in no order.
TakeCallback ==
  /\ at = "wait" /\ work.callback # "none"
  /\ IF work.callback = "denied" THEN Works("failed") ELSE at' = "exchange" /\ UNCHANGED work
  /\ UNCHANGED <<setting, saved, ask, target, ctx, told, issued, past>>
StopWaiting ==
  /\ at = "wait"
  /\ \/ ctx # "live" /\ Works(ErrorOf(ctx))
     \/ Works("failed") \* the local server stopped
  /\ UNCHANGED <<setting, saved, ask, target, ctx, told, issued, past>>

\* exchangeOAuthCode and validateTokenResponse: the server may issue a grant, of
\* any org, in a reply that is whole, unusable, or lost.
Refused ==
  /\ at = "exchange" /\ ~issued.live
  /\ Works(ErrorOf(ctx))
  /\ UNCHANGED <<setting, saved, ask, target, ctx, told, issued, past>>
Issue(o) ==
  /\ at = "exchange" /\ ctx = "live" /\ ~issued.live
  /\ issued' = [org |-> o, live |-> TRUE]
  /\ UNCHANGED <<setting, saved, at, ask, target, work, ctx, told, past>>
ReplyLost ==
  /\ at = "exchange" /\ issued.live
  /\ past' = [past EXCEPT !.lost = TRUE]
  /\ Works(ErrorOf(ctx))
  /\ UNCHANGED <<setting, saved, ask, target, ctx, told, issued>>
ReplyUsed ==
  /\ at = "exchange" /\ issued.live
  /\ at' = "save" /\ target' = issued.org
  /\ UNCHANGED <<setting, saved, ask, work, ctx, told, issued, past>>
ReplyUnusable ==
  /\ at = "exchange" /\ issued.live
  /\ at' = "revoke"
  /\ UNCHANGED <<setting, saved, ask, target, work, ctx, told, issued, past>>

Save ==
  /\ at = "save"
  /\ saved' = saved \cup {target}
  /\ Works("signed in")
  /\ UNCHANGED <<setting, ask, target, ctx, told, issued, past>>
SaveFails ==
  /\ at = "save"
  /\ at' = "revoke"
  /\ UNCHANGED <<setting, saved, ask, target, work, ctx, told, issued, past>>

\* What was issued is revoked, though the login's context may have ended.
Revoke ==
  /\ at = "revoke"
  /\ \/ issued' = [issued EXCEPT !.live = FALSE] /\ Works("failed")
     \/ Works("may stay") /\ UNCHANGED issued
  /\ UNCHANGED <<setting, saved, ask, target, ctx, told, past>>

\* Manager.Logout: the login goes from here, whether its server revokes it or not.
SignOut ==
  /\ at = "signout"
  /\ \/ target \notin saved /\ Works("none saved") /\ UNCHANGED <<saved, past>>
     \/ /\ target \in saved /\ saved' = saved \ {target}
        /\ past' = [past EXCEPT !.removed = @ \cup {target}]
        /\ \/ ctx = "live" /\ Works("signed out")
           \/ Works("removed")
     \/ Works("failed") /\ UNCHANGED <<saved, past>>
  /\ UNCHANGED <<setting, ask, target, ctx, told, issued>>

\* Esc and Ctrl-C in the activity, a signal, and the login's ten minutes.
Cancel ==
  /\ Working /\ ctx' = IF ctx = "live" THEN "canceled" ELSE ctx
  /\ past' = [past EXCEPT !.canceled = terminal.interactive]
  /\ UNCHANGED <<setting, saved, at, ask, target, work, told, issued>>
Expire ==
  /\ Working /\ command # "logout" /\ ctx = "live" /\ ctx' = "expired"
  /\ UNCHANGED <<setting, saved, at, ask, target, work, told, issued, past>>

\* RunActivity: an activity that was canceled says so, whatever its work did.
Result == IF past.canceled THEN "canceled" ELSE work.result

\* loginOrg's end, and what each command does with its org.
LoggedIn ==
  /\ at = "worked" /\ command # "logout"
  /\ IF Result # "signed in" THEN Ends(Result) /\ UNCHANGED target
     ELSE CASE command = "login" -> Ends("signed in") /\ UNCHANGED target
            [] command = "select" -> Opens("confirm", {target}) /\ UNCHANGED <<target, told>>
            [] command = "recover" -> Recovered(target)
  /\ UNCHANGED <<setting, saved, work, ctx, issued, past>>

\* auth logout's end: without an error as the result says; with one, a login gone
\* from here, and not known to be from the server, is a removal.
LoggedOut ==
  /\ at = "worked" /\ command = "logout"
  /\ Ends(IF past.canceled /\ work.result \in {"none saved", "removed"} THEN "removed" ELSE Result)
  /\ UNCHANGED <<setting, saved, target, work, ctx, issued, past>>

Person == (\E c \in Orgs \cup {"url", "cloud", "another", "cancel", "change"} : Select(c)) \/ (\E o \in Orgs : EnterUrl(o)) \/ Back \/ CancelPick \/ Cancel
Program ==
  \/ Start \/ Connect \/ Launch \/ TakeCallback \/ StopWaiting \/ Refused \/ ReplyLost \/ ReplyUsed \/ ReplyUnusable
  \/ Save \/ SaveFails \/ Revoke \/ SignOut \/ LoggedIn \/ LoggedOut
Others == (\E r \in Requests : Callback(r)) \/ (\E o \in Orgs : Issue(o)) \/ Expire
SignInNext == Person \/ Program \/ Others

-----------------------------------------------------------------------------
\* A grant the server issued is saved here, revoked, or said to be left there:
\* but where its reply never came, or the person canceled, which is all that
\* loginOrg then says, a login that is saved and one that may stay included.
GrantIsHeld ==
  at = "end" /\ issued.live =>
    (issued.org \in saved /\ told \in {"signed in", "chosen", "canceled"}) \/ told = "may stay" \/ past.lost \/ past.canceled

\* A publish goes to the repo's org, or one that was named and agreed to here,
\* whatever the hint was and whichever org the browser's consent was for; and to
\* one with a login.
PublishesWhereAgreed ==
  told = "chosen" => target \in saved /\ (target = linked \/ target \in past.agreed)

\* Only the login that was named, as an address or in the picker, is removed: not
\* that of the repo's org for being so.
RemovesWhatIsNamed == past.removed \subseteq {given} \cup past.agreed

\* The org status takes to be the repo's is that of the folder's own repo: of no
\* config above one that is nearer, or above where the repo ends.  It is listed
\* once, as every saved login is.
StatusIsOfItsRepo ==
  told = "status" =>
    /\ target # NoOrg =>
         \E n \in 1 .. Depth :
           /\ folders[n].config = target
           /\ \A k \in 1 .. n - 1 : folders[k].config = "none" /\ ~folders[k].boundary
    /\ \A o \in saved \cup ({target} \ {NoOrg}) : Cardinality({e \in past.listed : e.org = o}) = 1

SignInIsTrue == StatusIsOfItsRepo /\ GrantIsHeld /\ PublishesWhereAgreed /\ RemovesWhatIsNamed
=============================================================================
