----------------------------- MODULE Credentials -----------------------------
(***************************************************************************)
(* Machine-local logins (internal/cliauth): any number of anfra processes  *)
(* sharing credentials.json under one flock, each renewing a login, saving *)
(* a new one or removing one, while the process may be killed, a write may *)
(* fail and the power may go.                                              *)
(*                                                                         *)
(* The authorization server is external: it issues refresh tokens, numbered*)
(* in order, and takes each once.  A token stands for the access token and *)
(* the grant issued with it.                                               *)
(***************************************************************************)
EXTENDS Naturals, FiniteSets

CONSTANTS Procs,      \* anfra processes
          Orgs,       \* organizations
          MaxTokens,  \* bound: tokens the server issues
          MaxFaults   \* bound: failed writes, kills and power losses

NoOne == "no one"

ASSUME CredentialsAssumption == {MaxTokens, MaxFaults} \subseteq Nat /\ NoOne \notin Procs

Tokens == 1..MaxTokens
Entry == [refresh : 0..MaxTokens, pending : BOOLEAN]
NoEntry == [refresh |-> 0, pending |-> FALSE]

VARIABLES
  file,         \* credentials.json as every process reads it
  fileMaybe,    \* the contents a power loss may leave it with
  marker,       \* orgs with a recovery marker, as every process sees them
  markerMaybe,  \* orgs whose marker a power loss may add or remove
  lock,         \* who holds the flock on credentials.lock
  pc, op, org,  \* what each process is doing, and for which org
  inventory,    \* the contents the lock's last holder read with it
  work,         \* the entry each process is to save
  minted,       \* server: tokens issued
  presented,    \* server: refresh tokens it was sent
  replayed,     \* server: whether one was sent twice
  revoked,      \* server: tokens revoked
  withdrawn,    \* history: tokens revoked since their login failed
  faults        \* failures so far

disk == <<file, fileMaybe, marker, markerMaybe>>
procs == <<pc, op, org, inventory, work>>
server == <<minted, presented, replayed, revoked>>
vars == <<disk, lock, procs, server, withdrawn, faults>>

Waiting == {"browser", "wait", "revoke"}
Critical == {"mark", "marksync", "pend", "pendsync", "post", "revokeOld", "store",
             "storesync", "clear", "clearsync", "remark", "exit"}

TypeOK ==
  /\ file \in [Orgs -> Entry]
  /\ fileMaybe \in SUBSET [Orgs -> Entry]
  /\ file \in fileMaybe
  /\ marker \in SUBSET Orgs
  /\ markerMaybe \in SUBSET Orgs
  /\ lock \in Procs \cup {NoOne}
  /\ pc \in [Procs -> {"idle"} \cup Waiting \cup Critical]
  /\ \A p \in Procs : pc[p] \in Critical <=> lock = p
  /\ op \in [Procs -> {"load", "login", "logout"}]
  /\ org \in [Procs -> Orgs]
  /\ inventory \in [Orgs -> Entry]
  /\ work \in [Procs -> Entry]
  /\ minted \in 0..MaxTokens
  /\ presented \in SUBSET Tokens
  /\ replayed \in BOOLEAN
  /\ revoked \in SUBSET Tokens
  /\ withdrawn \in SUBSET revoked
  /\ faults \in 0..MaxFaults

Init ==
  /\ file = [o \in Orgs |-> NoEntry]
  /\ fileMaybe = {file}
  /\ marker = {}
  /\ markerMaybe = {}
  /\ lock = NoOne
  /\ pc = [p \in Procs |-> "idle"]
  /\ op = [p \in Procs |-> "load"]
  /\ org \in [Procs -> Orgs]
  /\ inventory = file
  /\ work = [p \in Procs |-> NoEntry]
  /\ minted = 0
  /\ presented = {}
  /\ replayed = FALSE
  /\ revoked = {}
  /\ withdrawn = {}
  /\ faults = 0

\* An entry loadAccessToken takes: present, not pending, with no marker.
Usable(o) == file[o] # NoEntry /\ ~file[o].pending /\ o \notin marker
-----------------------------------------------------------------------------
(* Pieces the actions share.                                               *)

Goes(p, to) == pc' = [pc EXCEPT ![p] = to]

\* Mutant of Leaves: an error path that does not release the lock.
LeavesHolding(p) ==
  /\ Goes(p, IF op[p] = "login" THEN "revoke" ELSE "idle")
  /\ UNCHANGED lock

\* withCredentialLock returns; a failed Login then revokes what it was given.
Leaves(p) ==
  /\ lock' = NoOne
  /\ Goes(p, IF op[p] = "login" THEN "revoke" ELSE "idle")

Fault ==
  /\ faults < MaxFaults
  /\ faults' = faults + 1

\* A write that failed before it changed anything.
FailsBefore(p) ==
  /\ Fault
  /\ Leaves(p)
  /\ UNCHANGED <<disk, work>>

\* A directory sync: all that was renamed, created or removed is on disk.
Synced ==
  /\ fileMaybe' = {file}
  /\ markerMaybe' = {}

\* A directory sync, going on to another place, or failing.
Syncs(p, to) ==
  /\ \/ Synced /\ Goes(p, to) /\ UNCHANGED <<lock, faults>>
     \/ Fault /\ Leaves(p) /\ UNCHANGED <<fileMaybe, markerMaybe>>
  /\ UNCHANGED <<file, marker, op, org, inventory, work, server, withdrawn>>

\* saveCredentialInventory up to its rename: every entry the process read, and
\* its own in place of org's.
Saves(p, entry, to) ==
  LET saved == [inventory EXCEPT ![org[p]] = entry]
  IN  /\ \/ /\ file' = saved
            /\ fileMaybe' = fileMaybe \cup {saved}
            /\ Goes(p, to)
            /\ UNCHANGED <<marker, markerMaybe, work, lock, faults>>
         \/ FailsBefore(p)
      /\ UNCHANGED <<op, org, inventory, server, withdrawn>>
-----------------------------------------------------------------------------
(* Taking the lock.                                                        *)

Begin(p, what, o) ==
  /\ pc[p] = "idle"
  /\ Goes(p, IF what = "login" THEN "browser" ELSE "wait")
  /\ op' = [op EXCEPT ![p] = what]
  /\ org' = [org EXCEPT ![p] = o]
  /\ work' = [work EXCEPT ![p] = NoEntry]
  /\ UNCHANGED <<disk, lock, inventory, server, withdrawn, faults>>

\* Login before the lock: approval in the browser and the exchange of the
\* code, which the server may complete with its reply lost or rejected.
Exchange(p) ==
  /\ pc[p] = "browser"
  /\ \/ /\ Goes(p, "idle")
        /\ minted' \in {minted, minted + 1} \cap 0..MaxTokens
        /\ UNCHANGED work
     \/ /\ minted < MaxTokens
        /\ minted' = minted + 1
        /\ work' = [work EXCEPT ![p] = [refresh |-> minted', pending |-> FALSE]]
        /\ \/ Goes(p, "wait")
           \/ Goes(p, "revoke")
  /\ UNCHANGED <<disk, lock, op, org, inventory, presented, replayed, revoked,
                 withdrawn, faults>>

\* Mutant of Acquire: the inventory is not reread with the lock held.
AcquireStale(p) ==
  /\ pc[p] = "wait"
  /\ lock = NoOne
  /\ lock' = p
  /\ \/ /\ op[p] = "load"
        /\ \/ Goes(p, "exit")
           \/ Usable(org[p]) /\ Goes(p, "mark")
     \/ /\ op[p] = "login"
        /\ Goes(p, IF org[p] \in marker THEN "store" ELSE "mark")
     \/ /\ op[p] = "logout"
        /\ Goes(p, IF file[org[p]] = NoEntry THEN "exit" ELSE "revokeOld")
  /\ UNCHANGED <<disk, op, org, inventory, work, server, withdrawn, faults>>

\* The inventory is read only with the lock held.  Whether the access token is
\* about to expire, and whether the grant has expired, is the clock's choice.
Acquire(p) ==
  /\ pc[p] = "wait"
  /\ lock = NoOne
  /\ lock' = p
  /\ inventory' = file
  /\ \/ /\ op[p] = "load"
        /\ \/ Goes(p, "exit")
           \/ Usable(org[p]) /\ Goes(p, "mark")
     \/ /\ op[p] = "login"
        /\ Goes(p, IF org[p] \in marker THEN "store" ELSE "mark")
     \/ /\ op[p] = "logout"
        /\ Goes(p, IF file[org[p]] = NoEntry THEN "exit" ELSE "revokeOld")
  /\ UNCHANGED <<disk, op, org, work, server, withdrawn, faults>>

\* The caller's context ends while it polls for the lock.
GivesUp(p) ==
  /\ pc[p] = "wait"
  /\ Goes(p, IF op[p] = "login" THEN "revoke" ELSE "idle")
  /\ UNCHANGED <<disk, lock, op, org, inventory, work, server, withdrawn, faults>>
-----------------------------------------------------------------------------
(* With the lock held.                                                     *)

MarkRefreshRecovery(p) ==
  /\ pc[p] = "mark"
  /\ \/ /\ marker' = marker \cup {org[p]}
        /\ markerMaybe' = markerMaybe \cup {org[p]}
        /\ Goes(p, "marksync")
        /\ UNCHANGED <<file, fileMaybe, work, lock, faults>>
     \/ FailsBefore(p)
  /\ UNCHANGED <<op, org, inventory, server, withdrawn>>

SyncMarker(p) ==
  /\ pc[p] = "marksync"
  /\ Syncs(p, IF op[p] = "load" THEN "pend" ELSE "store")

SavePending(p) ==
  /\ pc[p] = "pend"
  /\ Saves(p, [inventory[org[p]] EXCEPT !.pending = TRUE], "pendsync")

SyncPending(p) ==
  /\ pc[p] = "pendsync"
  /\ Syncs(p, "post")

\* The server takes the token, or the request never reaches it, or it refuses;
\* the reply may be lost on the way back, or be no successor of the entry.
Refresh(p) ==
  LET token == inventory[org[p]].refresh
  IN  /\ pc[p] = "post"
      /\ presented' = presented \cup {token}
      /\ replayed' = (replayed \/ token \in presented)
      /\ \/ /\ minted < MaxTokens
            /\ token \notin presented \cup revoked
            /\ minted' = minted + 1
            /\ \/ /\ work' = [work EXCEPT ![p] = [refresh |-> minted', pending |-> FALSE]]
                  /\ Goes(p, "store")
                  /\ UNCHANGED lock
               \/ Leaves(p) /\ UNCHANGED work
         \/ Leaves(p) /\ UNCHANGED <<minted, work>>
      /\ UNCHANGED <<disk, op, org, inventory, revoked, withdrawn, faults>>

\* Logout: revocation at the server, confirmed or not, before local removal.
RevokeOld(p) ==
  /\ pc[p] = "revokeOld"
  /\ revoked' \in {revoked, revoked \cup {inventory[org[p]].refresh}}
  /\ Goes(p, "store")
  /\ UNCHANGED <<disk, lock, op, org, inventory, work, minted, presented, replayed,
                 withdrawn, faults>>

\* The successor, the new login, or nothing for a logout.
Store(p) ==
  /\ pc[p] = "store"
  /\ Saves(p, work[p], "storesync")

\* Mutant of SyncStore: the rename is taken for durable.
SyncStoreSkipped(p) ==
  /\ pc[p] = "storesync"
  /\ Goes(p, "clear")
  /\ UNCHANGED <<disk, lock, op, org, inventory, work, server, withdrawn, faults>>

SyncStore(p) ==
  /\ pc[p] = "storesync"
  /\ Syncs(p, "clear")

ClearRefreshRecovery(p) ==
  /\ pc[p] = "clear"
  /\ IF org[p] \notin marker
     THEN /\ Goes(p, "exit")
          /\ UNCHANGED <<disk, work, lock, faults>>
     ELSE \/ /\ marker' = marker \ {org[p]}
             /\ markerMaybe' = markerMaybe \cup {org[p]}
             /\ Goes(p, "clearsync")
             /\ UNCHANGED <<file, fileMaybe, work, lock, faults>>
          \/ FailsBefore(p)
  /\ UNCHANGED <<op, org, inventory, server, withdrawn>>

\* Mutant of SyncClear: the marker is not put back when its removal fails.
SyncClearNoRemark(p) ==
  /\ pc[p] = "clearsync"
  /\ \/ Synced /\ Goes(p, "exit") /\ UNCHANGED <<lock, faults>>
     \/ Fault /\ Leaves(p) /\ UNCHANGED <<fileMaybe, markerMaybe>>
  /\ UNCHANGED <<file, marker, op, org, inventory, work, server, withdrawn>>

SyncClear(p) ==
  /\ pc[p] = "clearsync"
  /\ \/ Synced /\ Goes(p, "exit") /\ UNCHANGED faults
     \/ Fault /\ Goes(p, "remark") /\ UNCHANGED <<fileMaybe, markerMaybe>>
  /\ UNCHANGED <<file, marker, lock, op, org, inventory, work, server, withdrawn>>

\* The marker put back after its removal could not be synced; whether that
\* worked is not looked at.
Remark(p) ==
  /\ pc[p] = "remark"
  /\ Leaves(p)
  /\ \/ /\ marker' = marker \cup {org[p]}
        /\ Synced
        /\ UNCHANGED faults
     \/ /\ marker' = marker \cup {org[p]}
        /\ Fault
        /\ UNCHANGED <<fileMaybe, markerMaybe>>
     \/ Fault /\ UNCHANGED <<marker, fileMaybe, markerMaybe>>
  /\ UNCHANGED <<file, op, org, inventory, work, server, withdrawn>>

\* The operation is over: a token handed out, a login required, signed in or
\* signed out.
Exit(p) ==
  /\ pc[p] = "exit"
  /\ lock' = NoOne
  /\ Goes(p, "idle")
  /\ UNCHANGED <<disk, op, org, inventory, work, server, withdrawn, faults>>
-----------------------------------------------------------------------------
(* After a failed Login, and outside the program.                          *)

Revoke(p) ==
  /\ pc[p] = "revoke"
  /\ \/ /\ revoked' = revoked \cup {work[p].refresh}
        /\ withdrawn' = withdrawn \cup {work[p].refresh}
     \/ UNCHANGED <<revoked, withdrawn>>
  /\ Goes(p, "idle")
  /\ UNCHANGED <<disk, lock, op, org, inventory, work, minted, presented, replayed,
                 faults>>

\* The kernel drops a dead process's flock.
Kill(p) ==
  /\ pc[p] # "idle"
  /\ Fault
  /\ Goes(p, "idle")
  /\ lock' = IF lock = p THEN NoOne ELSE lock
  /\ UNCHANGED <<disk, op, org, inventory, work, server, withdrawn>>

\* Each directory entry not yet synced is found either way.
PowerLoss ==
  /\ Fault
  /\ pc' = [p \in Procs |-> "idle"]
  /\ lock' = NoOne
  /\ file' \in fileMaybe
  /\ fileMaybe' = {file'}
  /\ \E kept \in SUBSET markerMaybe : marker' = (marker \ markerMaybe) \cup kept
  /\ markerMaybe' = {}
  /\ UNCHANGED <<op, org, inventory, work, server, withdrawn>>

\* Everything but the wait for the lock.
Works(p) ==
  \/ Exchange(p)
  \/ MarkRefreshRecovery(p) \/ SyncMarker(p)
  \/ SavePending(p) \/ SyncPending(p) \/ Refresh(p)
  \/ RevokeOld(p) \/ Store(p) \/ SyncStore(p)
  \/ ClearRefreshRecovery(p) \/ SyncClear(p) \/ Remark(p)
  \/ Exit(p) \/ Revoke(p)

Next ==
  \/ \E p \in Procs :
       \/ \E what \in {"load", "login", "logout"}, o \in Orgs : Begin(p, what, o)
       \/ Acquire(p) \/ GivesUp(p)
       \/ Works(p)
       \/ Kill(p)
  \/ PowerLoss

Spec == Init /\ [][Next]_vars

\* Every request has a timeout, so a process goes on with what it began; one
\* that polls for the lock, every 25 ms, finds it free if it is free again and
\* again.  Nothing makes a caller give up.
FairSpec == Spec /\ \A p \in Procs : WF_vars(Works(p)) /\ SF_vars(Acquire(p))
-----------------------------------------------------------------------------
(* Properties.                                                             *)

\* "Do not retry the old refresh token" (docs/usage/publishing.md:84): whatever
\* is interrupted, no refresh token reaches the server twice, for the server
\* takes a second use as a theft and ends the grant.
NeverReplayed == ~replayed

\* An entry another process would use is one a power loss cannot undo: "a
\* write-ahead recovery marker outlives a successor rename whose directory
\* sync fails" (refresh_recovery.go:14).
UsableIsDurable ==
  \A o \in Orgs :
    Usable(o) => \A f \in fileMaybe : f[o] = file[o]

\* What the holder of the lock is about to report: that it saved a login or
\* removed one, or that there was none to remove, which Logout reports as removed
\* (oauth_manager.go:185).
Saved(p) == op[p] = "login" \/ work[p] # NoEntry \/ (op[p] = "logout" /\ inventory[org[p]] # NoEntry)
FoundNone(p) == op[p] = "logout" /\ inventory[org[p]] = NoEntry

\* What an operation reports done stays done: a renewed login, a new one, and a
\* removed one are on disk, with no marker, before the operation returns.  But a
\* logout that found nothing to remove syncs nothing: what an earlier one removed
\* and failed to sync, or died before it could, is reported removed, and a power
\* loss may bring it back; never where nothing failed before.
DoneIsDurable ==
  \A p \in Procs :
    LET o == org[p] IN
    pc[p] = "exit" =>
      /\ Saved(p) => (\A f \in fileMaybe : f[o] = work[p]) /\ o \notin marker \cup markerMaybe
      /\ FoundNone(p) => file[o] = NoEntry /\ \A f \in fileMaybe : f[o] = NoEntry \/ faults > 0

\* Both: whatever interrupts them, nothing another process takes for a login, and
\* nothing an operation reported, is undone by a loss of power.
SurvivesPowerLoss == UsableIsDurable /\ DoneIsDurable

\* Every process writes the whole file, yet changes its own org alone: the file
\* is reread under the lock (credential_store.go:39).
OthersUntouched ==
  [][\A o \in Orgs :
       file'[o] # file[o] => \/ \E p \in Procs : lock = p /\ org[p] = o
                             \/ faults' > faults]_vars

\* "A failed removal sync must not make an uncertain save look usable locally"
\* (refresh_recovery.go:54): a login that failed, and was revoked for it, is not
\* left as a usable entry by one failure; it is by two, as the line after it does
\* not look at whether putting the marker back failed as well.
WithdrawnNotUsable ==
  \A o \in Orgs : Usable(o) /\ file[o].refresh \in withdrawn => faults > 1

\* No token the server has done with is used: one sent before, or withdrawn.
NoDeadToken == NeverReplayed /\ WithdrawnNotUsable

\* Every operation ends: no error path, kill or power loss leaves the lock held
\* with others waiting for it.
OperationsEnd == \A p \in Procs : pc[p] # "idle" ~> pc[p] = "idle"
=============================================================================
