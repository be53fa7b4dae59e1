-------------------------- MODULE CredentialsProofs --------------------------
(***************************************************************************)
(* Logins shared by any number of anfra processes, for any organizations,  *)
(* tokens and failures: no refresh token is used twice, and no loss of     *)
(* power undoes what a process takes for a login or reported done.         *)
(***************************************************************************)
EXTENDS Credentials, TLAPS

Entries == [refresh : Nat, pending : BOOLEAN]

Shape ==
  /\ file \in [Orgs -> Entries] /\ fileMaybe \subseteq [Orgs -> Entries] /\ file \in fileMaybe
  /\ marker \subseteq Orgs /\ markerMaybe \subseteq Orgs
  /\ lock \in Procs \cup {NoOne} /\ pc \in [Procs -> {"idle"} \cup Waiting \cup Critical]
  /\ op \in [Procs -> {"load", "login", "logout"}] /\ org \in [Procs -> Orgs]
  /\ inventory \in [Orgs -> Entries] /\ work \in [Procs -> Entries]
  /\ minted \in Nat /\ presented \subseteq 1 .. minted /\ withdrawn \subseteq 1 .. minted /\ faults \in Nat

Locked(p) == pc[p] \in Critical <=> lock = p

\* An entry that may be in the file: its token is not sent, unless it says so,
\* and it is no other organization's.
EntryOf(f, o) ==
  /\ f[o].refresh <= minted /\ (f[o].pending => f[o].refresh # 0)
  /\ f[o].refresh \in presented => f[o].pending
  /\ \A g \in fileMaybe, other \in Orgs \ {o} : f[o].refresh # 0 => f[o].refresh # g[other].refresh

\* What a process is to save is its own until it has saved it.
Unsaved == {"browser", "wait", "mark", "marksync", "pend", "pendsync", "post", "revokeOld", "store"}
Mine(p) ==
  /\ pc[p] \in Unsaved => work[p].refresh \notin presented /\ \A f \in fileMaybe, o \in Orgs : f[o].refresh # work[p].refresh
  /\ pc[p] # "revoke" => work[p].refresh \notin withdrawn
  /\ \A q \in Procs \ {p} : pc[q] # "idle" => work[q].refresh # work[p].refresh
WorkOf(p) ==
  pc[p] # "idle" =>
    /\ work[p].refresh <= minted /\ ~work[p].pending
    /\ op[p] = "login" /\ pc[p] # "browser" => work[p].refresh # 0
    /\ pc[p] \in {"browser", "revoke"} => op[p] = "login"
    /\ op[p] = "logout" \/ pc[p] = "browser" => work[p] = NoEntry
    /\ op[p] = "load" /\ pc[p] \in Unsaved \ {"store"} => work[p] = NoEntry
    /\ work[p].refresh # 0 => Mine(p)

\* How far the holder of the lock is says what the file holds of its org.
Renewing == {"mark", "marksync", "pend", "pendsync", "post"}
HoldsOf(p) ==
  LET o == org[p] IN
  lock = p =>
    /\ \A other \in Orgs \ {o} : inventory[other] = file[other]
    /\ pc[p] \in {"pend", "pendsync", "post"} => op[p] = "load"
    /\ pc[p] = "revokeOld" => op[p] = "logout"
    /\ pc[p] \in {"mark", "marksync"} => op[p] # "logout"
    /\ pc[p] \in Renewing /\ op[p] = "load" =>
         /\ file[o].refresh = inventory[o].refresh /\ inventory[o].refresh \notin presented \cup {0}
         /\ pc[p] = "pendsync" => file[o].pending
         /\ pc[p] = "post" => \A f \in fileMaybe : f[o].pending
    /\ pc[p] \in Renewing \ {"mark"} \/ (pc[p] \in {"store", "storesync"} /\ op[p] # "logout") => o \in marker
    /\ pc[p] \in {"storesync", "clear", "clearsync", "remark"} => file[o] = work[p]
    /\ pc[p] \in {"clear", "clearsync", "remark"} => fileMaybe = {file}
    /\ pc[p] = "clear" => markerMaybe = {}
    /\ pc[p] \in {"clearsync", "remark"} => o \notin marker
    /\ pc[p] = "remark" => faults # 0

\* A token of a failed login may be in the file only under its marker, or where
\* more failed than that login.
Disowned(t) == t \in withdrawn \/ \E p \in Procs : pc[p] = "revoke" /\ work[p].refresh = t
DisownedIsMarked ==
  /\ faults <= 1 => \A o \in Orgs : Disowned(file[o].refresh) => o \in marker
  /\ faults = 0 => \A f \in fileMaybe, o \in Orgs : ~Disowned(f[o].refresh)

\* What a process saved, or read for a login, is on disk.
SavedIsDurable ==
  \A p \in Procs :
    (pc[p] = "exit" /\ (op[p] = "login" \/ work[p] # NoEntry)) =>
      /\ \A f \in fileMaybe : f[org[p]] = work[p]
      /\ org[p] \notin marker \cup markerMaybe
SavedSurvives == UsableIsDurable /\ SavedIsDurable

CredentialsInv ==
  /\ Shape
  /\ \A p \in Procs : Locked(p) /\ WorkOf(p) /\ HoldsOf(p)
  /\ \A f \in fileMaybe, o \in Orgs : EntryOf(f, o)
  /\ DisownedIsMarked
  /\ NeverReplayed /\ SavedSurvives

USE CredentialsAssumption

LEMMA CredentialsStart == Init => CredentialsInv
<1> SUFFICES ASSUME Init PROVE CredentialsInv
  OBVIOUS
<1> USE DEF Init
<1>1. Shape
  BY DEF Shape, NoEntry, Entries
<1>2. \A p \in Procs : Locked(p) /\ WorkOf(p) /\ HoldsOf(p)
  BY DEF Locked, WorkOf, HoldsOf, Critical
<1>3. \A f \in fileMaybe, o \in Orgs : EntryOf(f, o)
  BY DEF EntryOf, NoEntry
<1>4. DisownedIsMarked
  BY DEF DisownedIsMarked, Disowned, NoEntry
<1>5. NeverReplayed /\ SavedSurvives
  BY DEF NeverReplayed, SavedSurvives, UsableIsDurable, SavedIsDurable
<1> QED
  BY <1>1, <1>2, <1>3, <1>4, <1>5 DEF CredentialsInv

\* Going on does not disown what is to be saved, unless the login has failed.
LEMMA GoingOn ==
  ASSUME Shape, NEW p \in Procs, NEW to, pc' = [pc EXCEPT ![p] = to], UNCHANGED <<work, withdrawn>>,
         NEW t, Disowned(t)'
  PROVE  Disowned(t) \/ (to = "revoke" /\ work[p].refresh = t)
<1>1. CASE t \in withdrawn
  BY <1>1 DEF Disowned
<1>2. ASSUME NEW q \in Procs, pc'[q] = "revoke", work'[q].refresh = t PROVE Disowned(t) \/ (to = "revoke" /\ work[p].refresh = t)
  BY <1>2 DEF Disowned, Shape
<1> QED
  BY <1>1, <1>2 DEF Disowned

\* What an operation under way is to save is not disowned.
LEMMA OwnIsNotDisowned ==
  ASSUME CredentialsInv, NEW p \in Procs, pc[p] \notin {"idle", "revoke"}
  PROVE  ~Disowned(work[p].refresh)
<1> USE DEF CredentialsInv
<1>1. work[p].refresh # 0 => Mine(p)
  BY DEF WorkOf
<1>2. work[p].refresh \notin withdrawn
  BY <1>1 DEF Mine, Shape
<1>3. ASSUME NEW q \in Procs, pc[q] = "revoke" PROVE work[q].refresh # work[p].refresh
  BY <1>1, <1>3 DEF Mine, WorkOf
<1> QED
  BY <1>2, <1>3 DEF Disowned

\* A process goes on, the file and what is to be saved staying as they are: what
\* has to hold is of its own stage.
LEMMA StageOnly ==
  ASSUME CredentialsInv, NEW p \in Procs, NEW to \in {"idle"} \cup Waiting \cup Critical, pc' = [pc EXCEPT ![p] = to],
         UNCHANGED <<file, fileMaybe, op, org, inventory, work, minted, presented, withdrawn>>,
         faults <= faults', faults' \in Nat, marker' \subseteq Orgs, markerMaybe' \subseteq Orgs,
         lock' \in Procs \cup {NoOne}, \A q \in Procs : Locked(q)', \A q \in Procs \ {p} : lock' # q,
         pc[p] \notin Unsaved => to \notin Unsaved, pc[p] # "idle", pc[p] # "revoke",
         to # "browser", to = "revoke" => op[p] = "login",
         op[p] = "load" /\ to \in Unsaved \ {"store"} => pc[p] \in Unsaved \ {"store"},
         pc[p] # "browser", HoldsOf(p)'
  PROVE  Shape' /\ (\A q \in Procs : WorkOf(q)' /\ HoldsOf(q)') /\ (\A f \in fileMaybe', o \in Orgs : EntryOf(f, o)')
<1> USE DEF CredentialsInv
<1>1. Shape'
  BY DEF Shape
<1>2. ASSUME NEW q \in Procs PROVE WorkOf(q)'
  <2>1. pc'[p] = to /\ \A r \in Procs \ {p} : pc'[r] = pc[r]
    BY DEF Shape
  <2>2. ASSUME NEW r \in Procs, pc[r] # "idle", work[r].refresh # 0, Mine(r), r = p \/ pc'[r] = pc[r] PROVE Mine(r)'
    BY <2>1, <2>2 DEF Mine
  <2> QED
    BY <2>1, <2>2 DEF WorkOf
<1>3. ASSUME NEW q \in Procs PROVE HoldsOf(q)'
  BY DEF HoldsOf
<1>4. ASSUME NEW f \in fileMaybe', NEW o \in Orgs PROVE EntryOf(f, o)'
  BY DEF EntryOf
<1> QED
  BY <1>1, <1>2, <1>3, <1>4

\* The lock's holder fails at a write or a sync and leaves: a login it has
\* stored by then keeps its marker.
LEMMA FailingKeeps ==
  ASSUME CredentialsInv, NEW p \in Procs, pc[p] \in Critical \ {"clearsync", "remark", "exit"}, Leaves(p), Fault,
         UNCHANGED <<disk, op, org, inventory, work, server, withdrawn>>,
         op[p] = "login" /\ pc[p] \in {"storesync", "clear"} => org[p] \in marker
  PROVE  CredentialsInv'
<1> DEFINE to == IF op[p] = "login" THEN "revoke" ELSE "idle"
<1> USE DEF CredentialsInv, disk, server
<1>1. lock = p /\ lock' = NoOne /\ pc' = [pc EXCEPT ![p] = to] /\ faults' = faults + 1
  BY DEF Locked, Critical, Leaves, Goes, Fault
<1>2. \A q \in Procs : Locked(q)'
  BY <1>1 DEF Locked, Shape, Critical, Waiting
<1>3. to \in {"idle", "revoke"} /\ (to = "revoke" => op[p] = "login")
  OBVIOUS
<1> HIDE DEF to
<1>4. HoldsOf(p)'
  BY <1>1 DEF HoldsOf
<1>5. Shape' /\ (\A q \in Procs : WorkOf(q)' /\ HoldsOf(q)') /\ (\A f \in fileMaybe', o \in Orgs : EntryOf(f, o)')
  <2>1. to \notin Unsaved /\ to # "browser" /\ to \in {"idle"} \cup Waiting \cup Critical /\ faults <= faults' /\ faults' \in Nat
    BY <1>1, <1>3 DEF Unsaved, Waiting, Shape
  <2>2. pc[p] # "idle" /\ pc[p] # "revoke" /\ pc[p] # "browser"
    BY DEF Critical
  <2>3. marker' \subseteq Orgs /\ markerMaybe' \subseteq Orgs /\ lock' \in Procs \cup {NoOne} /\ \A q \in Procs \ {p} : lock' # q
    BY <1>1 DEF Shape
  <2> QED
    BY <1>1, <1>2, <1>3, <1>4, <2>1, <2>2, <2>3, StageOnly
<1>6. DisownedIsMarked'
  <2>1. ASSUME NEW o \in Orgs, Disowned(file[o].refresh)', faults = 0 PROVE o \in marker
    <3>1. ~Disowned(file[o].refresh)
      BY <2>1 DEF DisownedIsMarked, Shape
    <3>2. to = "revoke" /\ work[p].refresh = file[o].refresh
      BY <1>1, <2>1, <3>1, GoingOn
    <3>3. op[p] = "login" /\ work[p].refresh # 0
      BY <1>3, <3>2 DEF WorkOf, Critical
    <3>4. pc[p] \notin Unsaved
      BY <3>2, <3>3 DEF WorkOf, Mine, Critical, Shape
    <3>5. pc[p] \in {"storesync", "clear"}
      BY <3>4 DEF Unsaved, Critical
    <3>6. o = org[p]
      BY <1>1, <3>2, <3>3, <3>5 DEF HoldsOf, EntryOf, Shape
    <3> QED
      BY <3>3, <3>5, <3>6
  <2>2. faults \in Nat
    BY DEF Shape
  <2> QED
    BY <1>1, <2>1, <2>2 DEF DisownedIsMarked
<1>7. NeverReplayed' /\ UsableIsDurable'
  BY DEF SavedSurvives, NeverReplayed, UsableIsDurable, Usable
<1>8. SavedIsDurable'
  <2>1. \A q \in Procs : pc'[q] = "exit" => pc[q] = "exit"
    BY <1>1, <1>3 DEF Shape
  <2> QED
    BY <2>1 DEF SavedSurvives, SavedIsDurable
<1> QED
  BY <1>2, <1>5, <1>6, <1>7, <1>8 DEF SavedSurvives

\* The lock's holder saves an entry: its org's, and the others' as they are.
LEMMA SavingKeeps ==
  ASSUME CredentialsInv, NEW p \in Procs, NEW entry \in Entries, pc[p] \in {"pend", "store"},
         file' = [inventory EXCEPT ![org[p]] = entry], fileMaybe' = fileMaybe \cup {file'},
         Goes(p, IF pc[p] = "pend" THEN "pendsync" ELSE "storesync"),
         UNCHANGED <<marker, markerMaybe, work, lock, faults, op, org, inventory, server, withdrawn>>,
         entry.refresh <= minted, entry.pending => entry.refresh # 0, entry.refresh \in presented => entry.pending,
         \A f \in fileMaybe, other \in Orgs \ {org[p]} : entry.refresh # 0 => entry.refresh # f[other].refresh,
         \A q \in Procs \ {p} : pc[q] \in Unsaved /\ work[q].refresh # 0 => work[q].refresh # entry.refresh,
         Disowned(entry.refresh) => faults # 0 /\ org[p] \in marker,
         pc[p] = "pend" => entry.pending /\ entry.refresh = inventory[org[p]].refresh,
         pc[p] = "store" => entry = work[p]
  PROVE  CredentialsInv'
<1> DEFINE to == IF pc[p] = "pend" THEN "pendsync" ELSE "storesync"
           o == org[p]
<1> USE DEF CredentialsInv, server
<1>1. lock = p /\ pc' = [pc EXCEPT ![p] = to]
  BY DEF Locked, Critical, Goes
<1>2. file' \in [Orgs -> Entries] /\ file'[o] = entry /\ \A x \in Orgs \ {o} : file'[x] = file[x]
  BY <1>1 DEF Shape, HoldsOf
<1>3. Shape'
  BY <1>1, <1>2 DEF Shape, Critical
<1>4. \A q \in Procs : Locked(q)'
  BY <1>1 DEF Locked, Shape, Critical
<1>5. \A f \in fileMaybe' : f \in fileMaybe \/ f = file'
  OBVIOUS
<1>6. ASSUME NEW q \in Procs PROVE WorkOf(q)'
  <2>1. CASE q = p
    <3>1. CASE pc[p] = "pend"
      BY <1>1, <2>1, <3>1 DEF WorkOf, HoldsOf, Shape, Unsaved, NoEntry
    <3>2. CASE pc[p] = "store"
      <4>1. pc'[p] = "storesync" /\ \A r \in Procs \ {p} : pc'[r] = pc[r]
        BY <1>1, <3>2 DEF Shape
      <4>2. work[p].refresh # 0 => Mine(p)'
        BY <3>2, <4>1 DEF WorkOf, Mine, Unsaved
      <4> QED
        BY <2>1, <3>2, <4>1, <4>2 DEF WorkOf, Unsaved
    <3> QED
      BY <3>1, <3>2
  <2>2. CASE q # p
    <3>1. pc'[q] = pc[q] /\ (\A r \in Procs : pc'[r] # "idle" <=> pc[r] # "idle")
      BY <1>1, <2>2 DEF Shape
    <3>2. ASSUME pc[q] \in Unsaved, work[q].refresh # 0, NEW x \in Orgs, Mine(q) PROVE file'[x].refresh # work[q].refresh
      BY <1>2, <2>2, <3>2 DEF Mine, Shape
    <3>3. pc[q] # "idle" /\ work[q].refresh # 0 => Mine(q)'
      BY <1>5, <3>1, <3>2, ZenonT(60) DEF WorkOf, Mine
    <3> QED
      BY <3>1, <3>3 DEF WorkOf
  <2> QED
    BY <2>1, <2>2, SMTT(30)
<1>7. ASSUME NEW q \in Procs PROVE HoldsOf(q)'
  <2>1. CASE q # p
    BY <1>1, <2>1 DEF HoldsOf
  <2>2. CASE q = p
    <3>1. \A x \in Orgs \ {o} : inventory[x] = file'[x]
      BY <1>1, <1>2 DEF HoldsOf
    <3>2. CASE pc[p] = "pend"
      <4>1. pc'[p] = "pendsync"
        BY <1>1, <3>2 DEF Shape
      <4>2. op[p] = "load" /\ o \in marker /\ inventory[o].refresh \notin presented \cup {0}
        BY <1>1, <3>2 DEF HoldsOf, Renewing
      <4> QED
        BY <1>1, <1>2, <2>2, <3>1, <3>2, <4>1, <4>2 DEF HoldsOf
    <3>3. CASE pc[p] = "store"
      <4>1. pc'[p] = "storesync"
        BY <1>1, <3>3 DEF Shape
      <4>2. op[p] # "logout" => o \in marker
        BY <1>1, <3>3 DEF HoldsOf
      <4> QED
        BY <1>1, <1>2, <2>2, <3>1, <3>3, <4>1, <4>2 DEF HoldsOf, Renewing
    <3> QED
      BY <3>2, <3>3
  <2> QED
    BY <2>1, <2>2
<1>8. ASSUME NEW f \in fileMaybe', NEW x \in Orgs PROVE EntryOf(f, x)'
  <2>1. ASSUME NEW g \in fileMaybe', NEW y \in Orgs \ {x}, f[x].refresh # 0 PROVE f[x].refresh # g[y].refresh
    <3>1. \A h \in fileMaybe', z \in Orgs \ {o} : \E k \in fileMaybe : h[z] = k[z]
      BY <1>2, <1>5 DEF Shape
    <3>2. \A h \in fileMaybe' : h[o] = entry \/ \E k \in fileMaybe : h[o] = k[o]
      BY <1>2, <1>5
    <3>3. CASE x # o /\ y # o
      <4>1. PICK k \in fileMaybe : f[x] = k[x]
        BY <3>1, <3>3
      <4>2. PICK m \in fileMaybe : g[y] = m[y]
        BY <2>1, <3>1, <3>3
      <4> QED
        BY <2>1, <4>1, <4>2 DEF EntryOf
    <3>4. CASE x = o
      BY <2>1, <3>1, <3>2, <3>4 DEF EntryOf, Shape
    <3>5. CASE y = o
      BY <2>1, <3>1, <3>2, <3>5 DEF EntryOf, Shape
    <3> QED
      BY <3>3, <3>4, <3>5
  <2>2. /\ f[x].refresh <= minted /\ (f[x].pending => f[x].refresh # 0)
        /\ f[x].refresh \in presented => f[x].pending
    BY <1>2, <1>5 DEF EntryOf, Shape
  <2> QED
    BY <2>1, <2>2 DEF EntryOf
<1>9. DisownedIsMarked'
  <2>1. \A t : Disowned(t)' => Disowned(t)
    <3> SUFFICES ASSUME NEW t, Disowned(t)' PROVE Disowned(t)
      OBVIOUS
    <3>1. to # "revoke"
      OBVIOUS
    <3> HIDE DEF to
    <3>2. Disowned(t) \/ (to = "revoke" /\ work[p].refresh = t)
      BY <1>1, GoingOn
    <3> QED
      BY <3>1, <3>2
  <2> QED
    BY <1>2, <1>5, <2>1 DEF DisownedIsMarked, Shape
<1>10. NeverReplayed'
  BY DEF NeverReplayed
<1>11. UsableIsDurable'
  <2> SUFFICES ASSUME NEW x \in Orgs, Usable(x)', NEW f \in fileMaybe' PROVE f[x] = file'[x]
    BY DEF UsableIsDurable
  <2>1. CASE x = o
    <3>1. pc[p] = "store" /\ op[p] = "logout"
      BY <1>1, <2>1 DEF Usable, HoldsOf, Renewing
    <3> QED
      BY <1>2, <2>1, <3>1 DEF WorkOf, Usable
  <2>2. CASE x # o
    BY <1>2, <1>5, <2>2 DEF SavedSurvives, UsableIsDurable, Usable
  <2> QED
    BY <2>1, <2>2
<1>12. SavedIsDurable'
  <2>1. \A q \in Procs : pc'[q] # "exit"
    BY <1>1 DEF Locked, Critical, Shape
  <2> QED
    BY <2>1 DEF SavedIsDurable
<1> QED
  BY <1>3, <1>4, <1>6, <1>7, <1>8, <1>9, <1>10, <1>11, <1>12 DEF SavedSurvives

LEMMA BeginKeeps ==
  ASSUME CredentialsInv, NEW p \in Procs, NEW what \in {"load", "login", "logout"}, NEW o \in Orgs, Begin(p, what, o)
  PROVE  CredentialsInv'
<1> USE DEF CredentialsInv, Shape, Begin, NoEntry, Goes, disk, procs, server
<1>1. Shape'
  BY DEF Entries, NoEntry, HoldsOf, Waiting, Critical, WorkOf, Mine, Unsaved, EntryOf
<1>2. ASSUME NEW q \in Procs PROVE Locked(q)'
  BY SMTT(30) DEF Locked, Waiting, Critical
<1>3. ASSUME NEW q \in Procs PROVE WorkOf(q)'
  <2>1. CASE q = p
    BY <2>1 DEF WorkOf, Mine, HoldsOf, Renewing, Unsaved, Locked, Critical, NoEntry, Entries, EntryOf
  <2>2. CASE q # p
    <3>1. pc'[q] = pc[q] /\ op'[q] = op[q] /\ org'[q] = org[q] /\ work'[q] = work[q]
      BY <2>2
    <3> QED
      BY <2>2, <3>1 DEF WorkOf, Mine, HoldsOf, Renewing, Unsaved, Locked, Critical, NoEntry, Entries, EntryOf
  <2> QED
    BY <2>1, <2>2
<1>4. ASSUME NEW q \in Procs PROVE HoldsOf(q)'
  BY DEF HoldsOf, Renewing, Locked, Critical, EntryOf, WorkOf
<1>5. ASSUME NEW f \in fileMaybe', NEW x \in Orgs PROVE EntryOf(f, x)'
  BY DEF EntryOf, HoldsOf, Renewing, Locked, Critical, WorkOf, Mine, Unsaved, Entries, NoEntry
<1>6. DisownedIsMarked'
  BY DEF DisownedIsMarked, Disowned, WorkOf, Mine, Unsaved, HoldsOf, Locked, Critical, EntryOf, Entries, NoEntry
<1>7. NeverReplayed'
  BY DEF NeverReplayed, HoldsOf, Locked, Critical, Renewing
<1>8. UsableIsDurable'
  BY DEF SavedSurvives, UsableIsDurable, Usable, HoldsOf, Locked, Critical, WorkOf, NoEntry, Renewing
<1>9. SavedIsDurable'
  <2>1. \A q \in Procs : pc'[q] = "exit" => q # p /\ pc[q] = "exit"
    OBVIOUS
  <2>2. UNCHANGED <<fileMaybe, marker, markerMaybe>> /\ \A q \in Procs \ {p} : op'[q] = op[q] /\ org'[q] = org[q] /\ work'[q] = work[q]
    OBVIOUS
  <2> SUFFICES ASSUME NEW q \in Procs, pc'[q] = "exit", op'[q] = "login" \/ work'[q] # NoEntry
               PROVE  (\A f \in fileMaybe' : f[org'[q]] = work'[q]) /\ org'[q] \notin marker' \cup markerMaybe'
    BY DEF SavedIsDurable
  <2>3. (\A f \in fileMaybe : f[org[q]] = work[q]) /\ org[q] \notin marker \cup markerMaybe
    BY <2>1, <2>2 DEF SavedSurvives, SavedIsDurable
  <2> QED
    BY <2>1, <2>2, <2>3
<1> QED
  BY <1>1, <1>2, <1>3, <1>4, <1>5, <1>6, <1>7, <1>8, <1>9 DEF SavedSurvives

LEMMA AcquireKeeps ==
  ASSUME CredentialsInv, NEW p \in Procs, Acquire(p)
  PROVE  CredentialsInv'
<1> USE DEF CredentialsInv, Shape, Acquire, Usable, NoEntry, Goes, disk, procs, server
<1>1. Shape'
  <2>1. pc' \in [Procs -> {"idle"} \cup Waiting \cup Critical]
    BY DEF Critical
  <2>2. inventory' \in [Orgs -> Entries] /\ lock' \in Procs \cup {NoOne}
    OBVIOUS
  <2> QED
    BY <2>1, <2>2
<1>2. ASSUME NEW q \in Procs PROVE Locked(q)'
  BY DEF Locked, Waiting, Critical
<1>3. ASSUME NEW q \in Procs PROVE WorkOf(q)'
  BY DEF WorkOf, Mine, HoldsOf, Renewing, Unsaved, Locked, Critical, NoEntry, Entries, EntryOf
<1>4. ASSUME NEW q \in Procs PROVE HoldsOf(q)'
  <2>1. CASE q = p
    <3>1. CASE op[p] = "load" /\ pc'[p] = "mark"
      <4>1. file[org[p]].refresh \notin presented \cup {0}
        <5>1. EntryOf(file, org[p]) /\ file[org[p]] \in Entries /\ Usable(org[p])
          BY <3>1
        <5>2. file[org[p]].refresh # 0
          BY <5>1 DEF Entries, NoEntry, Usable
        <5> QED
          BY <5>1, <5>2 DEF EntryOf, Usable
      <4> QED
        BY <2>1, <3>1, <4>1 DEF HoldsOf, Renewing
    <3>2. CASE op[p] # "load" \/ pc'[p] # "mark"
      <4>1. pc'[p] \in {"exit", "mark", "store", "revokeOld"} /\ (pc'[p] = "store" => org[p] \in marker)
        OBVIOUS
      <4>2. (pc'[p] = "mark" => op[p] = "login") /\ (pc'[p] = "revokeOld" => op[p] = "logout")
        BY <3>2
      <4> QED
        BY <2>1, <4>1, <4>2 DEF HoldsOf, Renewing
    <3> QED
      BY <3>1, <3>2
  <2>2. CASE q # p
    BY <2>2 DEF HoldsOf
  <2> QED
    BY <2>1, <2>2
<1>5. ASSUME NEW f \in fileMaybe', NEW x \in Orgs PROVE EntryOf(f, x)'
  BY DEF EntryOf, HoldsOf, Renewing, Locked, Critical, WorkOf, Mine, Unsaved, Entries, NoEntry
<1>6. DisownedIsMarked'
  BY DEF DisownedIsMarked, Disowned, WorkOf, Mine, Unsaved, HoldsOf, Locked, Critical, EntryOf, Entries, NoEntry
<1>7. NeverReplayed'
  BY DEF NeverReplayed, HoldsOf, Locked, Critical, Renewing
<1>8. UsableIsDurable'
  BY DEF SavedSurvives, UsableIsDurable, Usable, HoldsOf, Locked, Critical, WorkOf, NoEntry, Renewing
<1>9. SavedIsDurable'
  BY DEF SavedSurvives, SavedIsDurable, HoldsOf, Locked, Critical, WorkOf, Unsaved, NoEntry
<1> QED
  BY <1>1, <1>2, <1>3, <1>4, <1>5, <1>6, <1>7, <1>8, <1>9 DEF SavedSurvives

LEMMA GivesUpKeeps ==
  ASSUME CredentialsInv, NEW p \in Procs, GivesUp(p)
  PROVE  CredentialsInv'
<1> USE DEF CredentialsInv, Shape, GivesUp, Goes, disk, procs, server
<1>1. Shape'
  BY DEF Entries, NoEntry, HoldsOf, Waiting, Critical, WorkOf, Mine, Unsaved, EntryOf
<1>2. ASSUME NEW q \in Procs PROVE Locked(q)'
  BY DEF Locked, Waiting, Critical
<1>3. ASSUME NEW q \in Procs PROVE WorkOf(q)'
  BY DEF WorkOf, Mine, HoldsOf, Renewing, Unsaved, Locked, Critical, NoEntry, Entries, EntryOf
<1>4. ASSUME NEW q \in Procs PROVE HoldsOf(q)'
  BY DEF HoldsOf, Renewing, Locked, Critical, EntryOf, WorkOf
<1>5. ASSUME NEW f \in fileMaybe', NEW x \in Orgs PROVE EntryOf(f, x)'
  BY DEF EntryOf, HoldsOf, Renewing, Locked, Critical, WorkOf, Mine, Unsaved, Entries, NoEntry
<1>6. DisownedIsMarked'
  <2> DEFINE to == IF op[p] = "login" THEN "revoke" ELSE "idle"
  <2>1. pc' = [pc EXCEPT ![p] = to] /\ (to = "revoke" => op[p] = "login")
    OBVIOUS
  <2> HIDE DEF to
  <2>2. ASSUME NEW f \in fileMaybe, NEW x \in Orgs, Disowned(f[x].refresh)' PROVE Disowned(f[x].refresh)
    <3>1. Disowned(f[x].refresh) \/ (to = "revoke" /\ work[p].refresh = f[x].refresh)
      BY <2>1, <2>2, GoingOn, ZenonT(60)
    <3>2. to = "revoke" => f[x].refresh # work[p].refresh
      BY <2>1 DEF WorkOf, Mine, Unsaved, Locked, Critical
    <3> QED
      BY <3>1, <3>2
  <2>3. UNCHANGED <<file, fileMaybe, faults>> /\ marker \subseteq marker' /\ file \in fileMaybe
    OBVIOUS
  <2> QED
    BY <2>2, <2>3 DEF DisownedIsMarked
<1>7. NeverReplayed'
  BY DEF NeverReplayed, HoldsOf, Locked, Critical, Renewing
<1>8. UsableIsDurable'
  BY DEF SavedSurvives, UsableIsDurable, Usable, HoldsOf, Locked, Critical, WorkOf, NoEntry, Renewing
<1>9. SavedIsDurable'
  BY DEF SavedSurvives, SavedIsDurable, HoldsOf, Locked, Critical, WorkOf, Unsaved, NoEntry
<1> QED
  BY <1>1, <1>2, <1>3, <1>4, <1>5, <1>6, <1>7, <1>8, <1>9 DEF SavedSurvives

LEMMA ExchangeKeeps ==
  ASSUME CredentialsInv, NEW p \in Procs, Exchange(p)
  PROVE  CredentialsInv'
<1> USE DEF CredentialsInv, Shape, Exchange, Goes, disk, procs, server
<1>1. Shape'
  <2>1. pc' \in [Procs -> {"idle"} \cup Waiting \cup Critical]
    BY DEF Waiting
  <2>2. minted' \in Nat /\ minted <= minted'
    OBVIOUS
  <2>3. work' \in [Procs -> Entries]
    <3>1. [refresh |-> minted', pending |-> FALSE] \in Entries
      BY <2>2 DEF Entries
    <3>2. work' = work \/ work' = [work EXCEPT ![p] = [refresh |-> minted', pending |-> FALSE]]
      OBVIOUS
    <3> QED
      BY <3>1, <3>2
  <2> QED
    BY <2>1, <2>2, <2>3
<1>2. ASSUME NEW q \in Procs PROVE Locked(q)'
  BY DEF Locked, Waiting, Critical
<1>3. ASSUME NEW q \in Procs PROVE WorkOf(q)'
  <2>1. minted' \in Nat /\ minted <= minted' /\ pc[p] = "browser" /\ op[p] = "login" /\ work[p] = NoEntry
    BY DEF WorkOf
  <2>2. CASE q = p
    <3>1. CASE pc'[p] = "idle"
      BY <2>2, <3>1 DEF WorkOf
    <3>2. CASE pc'[p] # "idle"
      <4>1. pc'[p] \in {"wait", "revoke"} /\ minted' = minted + 1 /\ work'[p] = [refresh |-> minted', pending |-> FALSE]
        BY <3>2
      <4>2. minted' \notin presented \cup withdrawn /\ minted' # 0
        BY <4>1
      <4>3. \A f \in fileMaybe, o \in Orgs : f[o].refresh # minted'
        BY <4>1 DEF EntryOf, Entries
      <4>4. \A r \in Procs \ {p} : pc'[r] # "idle" => work'[r].refresh # minted'
        <5>1. \A r \in Procs \ {p} : pc'[r] = pc[r] /\ work'[r] = work[r]
          OBVIOUS
        <5> QED
          BY <4>1, <5>1 DEF WorkOf, Entries
      <4>5. Mine(p)'
        BY <4>1, <4>2, <4>3, <4>4 DEF Mine
      <4> QED
        BY <2>1, <2>2, <4>1, <4>2, <4>5 DEF WorkOf, Unsaved
    <3> QED
      BY <3>1, <3>2
  <2>3. CASE q # p
    <3>1. pc'[q] = pc[q] /\ work'[q] = work[q] /\ op'[q] = op[q]
      BY <2>3
    <3>2. work'[p].refresh = 0 \/ work'[p].refresh = minted + 1
      BY <2>1 DEF NoEntry
    <3>3. ASSUME pc[q] # "idle", work[q].refresh # 0 PROVE Mine(q)'
      <4>1. Mine(q) /\ work[q].refresh <= minted /\ work[q].refresh \in Nat
        BY <3>3 DEF WorkOf, Entries
      <4>2. work'[p].refresh # work[q].refresh
        BY <3>2, <3>3, <4>1
      <4>3. \A r \in Procs \ {p} : pc'[r] = pc[r] /\ work'[r] = work[r]
        OBVIOUS
      <4> QED
        BY <3>1, <4>1, <4>2, <4>3 DEF Mine
    <3>4. work[q].refresh <= minted => work[q].refresh <= minted'
      BY <2>1 DEF Entries
    <3> QED
      BY <3>1, <3>3, <3>4 DEF WorkOf
  <2> QED
    BY <2>2, <2>3
<1>4. ASSUME NEW q \in Procs PROVE HoldsOf(q)'
  BY DEF HoldsOf, Renewing, Locked, Critical, EntryOf, WorkOf
<1>5. ASSUME NEW f \in fileMaybe', NEW x \in Orgs PROVE EntryOf(f, x)'
  BY DEF EntryOf, HoldsOf, Renewing, Locked, Critical, WorkOf, Mine, Unsaved, Entries, NoEntry
<1>6. DisownedIsMarked'
  <2>1. ASSUME NEW f \in fileMaybe, NEW x \in Orgs, Disowned(f[x].refresh)' PROVE Disowned(f[x].refresh)
    <3>1. CASE f[x].refresh \in withdrawn
      BY <3>1 DEF Disowned
    <3>2. ASSUME NEW q \in Procs, pc'[q] = "revoke", work'[q].refresh = f[x].refresh PROVE Disowned(f[x].refresh)
      <4>1. CASE q = p
        <5>1. work'[p].refresh = minted + 1
          BY <3>2, <4>1
        <5> QED
          BY <3>2, <4>1, <5>1 DEF EntryOf, Entries
      <4>2. CASE q # p
        BY <3>2, <4>2 DEF Disowned
      <4> QED
        BY <4>1, <4>2
    <3> QED
      BY <2>1, <3>1, <3>2 DEF Disowned
  <2> QED
    BY <2>1 DEF DisownedIsMarked
<1>7. NeverReplayed'
  BY DEF NeverReplayed, HoldsOf, Locked, Critical, Renewing
<1>8. UsableIsDurable'
  BY DEF SavedSurvives, UsableIsDurable, Usable, HoldsOf, Locked, Critical, WorkOf, NoEntry, Renewing
<1>9. SavedIsDurable'
  <2>1. \A q \in Procs : pc'[q] = "exit" => q # p /\ pc[q] = "exit"
    OBVIOUS
  <2>2. UNCHANGED <<fileMaybe, marker, markerMaybe>> /\ \A q \in Procs \ {p} : op'[q] = op[q] /\ org'[q] = org[q] /\ work'[q] = work[q]
    OBVIOUS
  <2> SUFFICES ASSUME NEW q \in Procs, pc'[q] = "exit", op'[q] = "login" \/ work'[q] # NoEntry
               PROVE  (\A f \in fileMaybe' : f[org'[q]] = work'[q]) /\ org'[q] \notin marker' \cup markerMaybe'
    BY DEF SavedIsDurable
  <2>3. (\A f \in fileMaybe : f[org[q]] = work[q]) /\ org[q] \notin marker \cup markerMaybe
    BY <2>1, <2>2 DEF SavedSurvives, SavedIsDurable
  <2> QED
    BY <2>1, <2>2, <2>3
<1> QED
  BY <1>1, <1>2, <1>3, <1>4, <1>5, <1>6, <1>7, <1>8, <1>9 DEF SavedSurvives

\* MarkRefreshRecovery, when it does not fail.
LEMMA MarkingKeeps ==
  ASSUME CredentialsInv, NEW p \in Procs, pc[p] = "mark", marker' = marker \cup {org[p]},
         markerMaybe' = markerMaybe \cup {org[p]}, Goes(p, "marksync"),
         UNCHANGED <<file, fileMaybe, work, lock, faults, op, org, inventory, server, withdrawn>>
  PROVE  CredentialsInv'
<1> USE DEF CredentialsInv, server
<1>1. lock = p /\ pc' = [pc EXCEPT ![p] = "marksync"]
  BY DEF Locked, Critical, Goes
<1>2. \A q \in Procs : Locked(q)'
  BY <1>1 DEF Locked, Shape, Critical
<1>3. HoldsOf(p)'
  BY <1>1 DEF HoldsOf, Renewing, Shape
<1>4. Shape' /\ (\A q \in Procs : WorkOf(q)' /\ HoldsOf(q)') /\ (\A f \in fileMaybe', o \in Orgs : EntryOf(f, o)')
  <2>1. "marksync" \in {"idle"} \cup Waiting \cup Critical /\ pc[p] \in Unsaved \ {"store"}
    BY DEF Critical, Unsaved
  <2>2. marker' \subseteq Orgs /\ markerMaybe' \subseteq Orgs /\ lock' \in Procs \cup {NoOne} /\ \A q \in Procs \ {p} : lock' # q
    BY <1>1 DEF Shape
  <2>3. faults <= faults' /\ faults' \in Nat
    BY DEF Shape
  <2> QED
    BY <1>1, <1>2, <1>3, <2>1, <2>2, <2>3, StageOnly
<1>5. DisownedIsMarked'
  <2>1. ASSUME NEW t, Disowned(t)' PROVE Disowned(t)
    <3>1. Disowned(t) \/ ("marksync" = "revoke" /\ work[p].refresh = t)
      BY <1>1, <2>1, GoingOn
    <3> QED
      BY <3>1
  <2> QED
    BY <2>1 DEF DisownedIsMarked, Shape
<1>6. NeverReplayed' /\ UsableIsDurable'
  BY DEF SavedSurvives, NeverReplayed, UsableIsDurable, Usable
<1>7. SavedIsDurable'
  <2>1. \A q \in Procs : pc'[q] # "exit"
    BY <1>1 DEF Locked, Critical, Shape
  <2> QED
    BY <2>1 DEF SavedIsDurable
<1> QED
  BY <1>2, <1>4, <1>5, <1>6, <1>7 DEF SavedSurvives

LEMMA MarkRefreshRecoveryKeeps ==
  ASSUME CredentialsInv, NEW p \in Procs, MarkRefreshRecovery(p)
  PROVE  CredentialsInv'
<1>1. CASE FailsBefore(p)
  BY <1>1, FailingKeeps DEF MarkRefreshRecovery, FailsBefore, Critical
<1>2. CASE ~FailsBefore(p)
  BY <1>2, MarkingKeeps DEF MarkRefreshRecovery
<1> QED
  BY <1>1, <1>2

\* A sync by the lock's holder, when it does not fail.
LEMMA SyncingKeeps ==
  ASSUME CredentialsInv, NEW p \in Procs, Synced, NEW to, Goes(p, to),
         <<pc[p], to>> \in {<<"marksync", "pend">>, <<"marksync", "store">>, <<"pendsync", "post">>, <<"storesync", "clear">>},
         to = "pend" => op[p] = "load", to = "store" => op[p] = "login",
         UNCHANGED <<file, marker, lock, faults, op, org, inventory, work, server, withdrawn>>
  PROVE  CredentialsInv'
<1> USE DEF CredentialsInv, server
<1>1. lock = p /\ pc' = [pc EXCEPT ![p] = to] /\ fileMaybe' = {file} /\ markerMaybe' = {}
  BY DEF Locked, Critical, Goes, Synced
<1>2. \A f \in fileMaybe' : f = file /\ f \in fileMaybe
  BY <1>1 DEF Shape
<1>3. Shape'
  BY <1>1 DEF Shape, Critical
<1>4. \A q \in Procs : Locked(q)'
  BY <1>1 DEF Locked, Shape, Critical
<1>5. ASSUME NEW q \in Procs PROVE WorkOf(q)'
  <2>1. pc'[p] = to /\ \A r \in Procs \ {p} : pc'[r] = pc[r]
    BY <1>1 DEF Shape
  <2>2. pc[p] \notin {"idle", "browser", "revoke"} /\ to \notin {"idle", "browser", "revoke"} /\ (to \in Unsaved => pc[p] \in Unsaved)
    BY DEF Unsaved
  <2>3. ASSUME pc[q] # "idle", work[q].refresh # 0, Mine(q) PROVE Mine(q)'
    BY <1>2, <2>1, <2>2, <2>3 DEF Mine
  <2>4. op[p] = "load" /\ to \in Unsaved \ {"store"} => pc[p] \in Unsaved \ {"store"}
    BY DEF Unsaved
  <2> QED
    BY <2>1, <2>2, <2>3, <2>4 DEF WorkOf
<1>6. ASSUME NEW q \in Procs PROVE HoldsOf(q)'
  <2>1. CASE q # p
    BY <1>1, <2>1 DEF HoldsOf
  <2>2. CASE q = p
    <3>1. pc'[p] = to
      BY <1>1 DEF Shape
    <3>2. CASE to \in {"pend", "store"}
      BY <1>1, <2>2, <3>1, <3>2 DEF HoldsOf, Renewing
    <3>3. CASE to = "post"
      BY <1>1, <2>2, <3>1, <3>3 DEF HoldsOf, Renewing
    <3>4. CASE to = "clear"
      BY <1>1, <2>2, <3>1, <3>4 DEF HoldsOf, Renewing
    <3> QED
      BY <3>2, <3>3, <3>4
  <2> QED
    BY <2>1, <2>2
<1>7. ASSUME NEW f \in fileMaybe', NEW o \in Orgs PROVE EntryOf(f, o)'
  BY <1>2 DEF EntryOf
<1>8. DisownedIsMarked'
  <2>1. ASSUME NEW t, Disowned(t)' PROVE Disowned(t)
    <3>1. Disowned(t) \/ (to = "revoke" /\ work[p].refresh = t)
      BY <1>1, <2>1, GoingOn
    <3>2. to # "revoke"
      OBVIOUS
    <3> QED
      BY <3>1, <3>2
  <2> QED
    BY <1>2, <2>1 DEF DisownedIsMarked
<1>9. NeverReplayed' /\ UsableIsDurable'
  BY <1>2 DEF NeverReplayed, UsableIsDurable
<1>10. SavedIsDurable'
  <2>1. \A q \in Procs : pc'[q] # "exit"
    BY <1>1 DEF Locked, Critical, Shape
  <2> QED
    BY <2>1 DEF SavedIsDurable
<1> QED
  BY <1>3, <1>4, <1>5, <1>6, <1>7, <1>8, <1>9, <1>10 DEF SavedSurvives

LEMMA SyncMarkerKeeps ==
  ASSUME CredentialsInv, NEW p \in Procs, SyncMarker(p)
  PROVE  CredentialsInv'
<1> DEFINE to == IF op[p] = "load" THEN "pend" ELSE "store"
<1>1. pc[p] = "marksync" /\ UNCHANGED <<file, marker, op, org, inventory, work, server, withdrawn>>
  BY DEF SyncMarker, Syncs
<1>2. lock = p /\ (pc[p] \in {"marksync", "pendsync"} => op[p] \in {"load", "login"}) /\ (op[p] = "login" => org[p] \in marker)
  BY <1>1 DEF CredentialsInv, Locked, Critical, HoldsOf, Renewing, Shape
<1>3. CASE Fault /\ Leaves(p) /\ UNCHANGED <<fileMaybe, markerMaybe>>
  BY <1>1, <1>2, <1>3, FailingKeeps DEF Critical, disk
<1>4. CASE Synced /\ Goes(p, to) /\ UNCHANGED <<lock, faults>>
  BY <1>1, <1>2, <1>4, SyncingKeeps
<1> QED
  BY <1>3, <1>4 DEF SyncMarker, Syncs

LEMMA SyncPendingKeeps ==
  ASSUME CredentialsInv, NEW p \in Procs, SyncPending(p)
  PROVE  CredentialsInv'
<1> DEFINE to == "post"
<1>1. pc[p] = "pendsync" /\ UNCHANGED <<file, marker, op, org, inventory, work, server, withdrawn>>
  BY DEF SyncPending, Syncs
<1>2. lock = p /\ (pc[p] \in {"marksync", "pendsync"} => op[p] \in {"load", "login"}) /\ (op[p] = "login" => org[p] \in marker)
  BY <1>1 DEF CredentialsInv, Locked, Critical, HoldsOf, Renewing, Shape
<1>3. CASE Fault /\ Leaves(p) /\ UNCHANGED <<fileMaybe, markerMaybe>>
  BY <1>1, <1>2, <1>3, FailingKeeps DEF Critical, disk
<1>4. CASE Synced /\ Goes(p, to) /\ UNCHANGED <<lock, faults>>
  BY <1>1, <1>2, <1>4, SyncingKeeps
<1> QED
  BY <1>3, <1>4 DEF SyncPending, Syncs

LEMMA SyncStoreKeeps ==
  ASSUME CredentialsInv, NEW p \in Procs, SyncStore(p)
  PROVE  CredentialsInv'
<1> DEFINE to == "clear"
<1>1. pc[p] = "storesync" /\ UNCHANGED <<file, marker, op, org, inventory, work, server, withdrawn>>
  BY DEF SyncStore, Syncs
<1>2. lock = p /\ (pc[p] \in {"marksync", "pendsync"} => op[p] \in {"load", "login"}) /\ (op[p] = "login" => org[p] \in marker)
  BY <1>1 DEF CredentialsInv, Locked, Critical, HoldsOf, Renewing, Shape
<1>3. CASE Fault /\ Leaves(p) /\ UNCHANGED <<fileMaybe, markerMaybe>>
  BY <1>1, <1>2, <1>3, FailingKeeps DEF Critical, disk
<1>4. CASE Synced /\ Goes(p, to) /\ UNCHANGED <<lock, faults>>
  BY <1>1, <1>2, <1>4, SyncingKeeps
<1> QED
  BY <1>3, <1>4 DEF SyncStore, Syncs

LEMMA SavePendingKeeps ==
  ASSUME CredentialsInv, NEW p \in Procs, SavePending(p)
  PROVE  CredentialsInv'
<1> DEFINE o == org[p]
           entry == [inventory[o] EXCEPT !.pending = TRUE]
<1> USE DEF CredentialsInv
<1>1. CASE FailsBefore(p)
  BY <1>1, FailingKeeps DEF SavePending, Saves, FailsBefore, Critical, disk
<1>2. CASE ~FailsBefore(p)
  <2>1. lock = p /\ pc[p] = "pend" /\ op[p] = "load" /\ o \in marker
    BY DEF SavePending, Locked, Critical, HoldsOf, Renewing
  <2>2. file[o].refresh = inventory[o].refresh /\ inventory[o].refresh \notin presented \cup {0}
    BY <2>1 DEF HoldsOf, Renewing
  <2>3. inventory[o] \in Entries
    BY DEF Shape
  <2>4. entry \in Entries /\ entry.pending = TRUE /\ entry.refresh = file[o].refresh
    BY <2>2, <2>3 DEF Entries
  <2>5. /\ file' = [inventory EXCEPT ![o] = entry] /\ fileMaybe' = fileMaybe \cup {file'} /\ Goes(p, "pendsync")
        /\ UNCHANGED <<marker, markerMaybe, work, lock, faults, op, org, inventory, server, withdrawn>>
    BY <1>2 DEF SavePending, Saves
  <2> HIDE DEF entry
  <2>6. entry.refresh # 0 /\ entry.refresh <= minted
    BY <2>2, <2>4 DEF EntryOf, Shape
  <2>7. \A f \in fileMaybe, other \in Orgs \ {o} : entry.refresh # f[other].refresh
    BY <2>4, <2>6 DEF EntryOf, Shape
  <2>8. \A q \in Procs \ {p} : pc[q] \in Unsaved /\ work[q].refresh # 0 => work[q].refresh # entry.refresh
    BY <2>4 DEF WorkOf, Mine, Shape, Unsaved
  <2>9. Disowned(entry.refresh) => faults # 0
    BY <2>4 DEF DisownedIsMarked, Shape
  <2> QED
    BY <2>1, <2>2, <2>4, <2>5, <2>6, <2>7, <2>8, <2>9, SavingKeeps
<1> QED
  BY <1>1, <1>2

LEMMA StoreKeeps ==
  ASSUME CredentialsInv, NEW p \in Procs, Store(p)
  PROVE  CredentialsInv'
<1> DEFINE entry == work[p]
<1> USE DEF CredentialsInv
<1>1. CASE FailsBefore(p)
  BY <1>1, FailingKeeps DEF Store, Saves, FailsBefore, Critical, disk
<1>2. CASE ~FailsBefore(p)
  <2>1. pc[p] = "store" /\ entry \in Entries
    BY DEF Store, Shape
  <2>2. /\ file' = [inventory EXCEPT ![org[p]] = entry] /\ fileMaybe' = fileMaybe \cup {file'} /\ Goes(p, "storesync")
        /\ UNCHANGED <<marker, markerMaybe, work, lock, faults, op, org, inventory, server, withdrawn>>
    BY <1>2 DEF Store, Saves
  <2>3. entry.refresh <= minted /\ entry.pending = FALSE /\ (entry.refresh # 0 => Mine(p))
    BY <2>1 DEF WorkOf, Shape, Entries
  <2>4. entry.refresh # 0 => \A f \in fileMaybe, x \in Orgs : f[x].refresh # entry.refresh
    BY <2>1, <2>3 DEF Mine, Unsaved
  <2>5. entry.refresh \notin presented
    BY <2>1, <2>3 DEF Mine, Unsaved, Shape
  <2>6. \A q \in Procs \ {p} : pc[q] \in Unsaved /\ work[q].refresh # 0 => work[q].refresh # entry.refresh
    BY <2>3 DEF Mine, Unsaved
  <2>7. ~Disowned(entry.refresh)
    BY <2>1, OwnIsNotDisowned
  <2> HIDE DEF entry
  <2>8. entry = work[p]
    BY DEF entry
  <2>9. Goes(p, IF pc[p] = "pend" THEN "pendsync" ELSE "storesync") /\ pc[p] # "pend"
    BY <2>1, <2>2
  <2>10. \A f \in fileMaybe, other \in Orgs \ {org[p]} : entry.refresh # 0 => entry.refresh # f[other].refresh
    BY <2>4
  <2> HIDE DEF CredentialsInv
  <2> QED
    BY <2>1, <2>2, <2>3, <2>5, <2>6, <2>7, <2>8, <2>9, <2>10, SavingKeeps
<1> QED
  BY <1>1, <1>2

LEMMA RefreshKeeps ==
  ASSUME CredentialsInv, NEW p \in Procs, Refresh(p)
  PROVE  CredentialsInv'
<1> DEFINE o == org[p]
           token == inventory[o].refresh
           minting == [refresh |-> minted + 1, pending |-> FALSE]
<1> USE DEF CredentialsInv
<1>1. pc[p] = "post" /\ lock = p /\ op[p] = "load" /\ file[o].refresh = token /\ token \notin presented \cup {0}
  BY DEF Refresh, Locked, Critical, HoldsOf, Renewing
<1>2. token \in 1 .. minted /\ work[p] = NoEntry
  BY <1>1 DEF EntryOf, WorkOf, Unsaved, Shape, Entries
<1>3. /\ presented' = presented \cup {token} /\ ~replayed'
      /\ UNCHANGED <<disk, op, org, inventory, revoked, withdrawn, faults>>
  <2>1. presented' = presented \cup {token} /\ replayed' = (replayed \/ token \in presented)
    BY DEF Refresh
  <2>2. UNCHANGED <<disk, op, org, inventory, revoked, withdrawn, faults>>
    BY DEF Refresh
  <2>3. ~replayed /\ token \notin presented
    BY <1>1 DEF NeverReplayed
  <2> HIDE DEF token
  <2>4. ~replayed'
    BY <2>1, <2>3, Zenon
  <2> QED
    BY <2>1, <2>2, <2>3, <2>4
<1>4. \/ minted' = minted + 1 /\ work' = [work EXCEPT ![p] = minting] /\ pc' = [pc EXCEPT ![p] = "store"] /\ lock' = lock
      \/ minted' \in {minted, minted + 1} /\ work' = work /\ pc' = [pc EXCEPT ![p] = "idle"] /\ lock' = NoOne
  BY <1>1 DEF Refresh, Leaves, Goes
<1>5. minted \in Nat /\ minted' \in Nat /\ minted <= minted' /\ minting \in Entries /\ minting.refresh = minted + 1 /\ minting.pending = FALSE
  BY <1>4 DEF Shape, Entries
<1> HIDE DEF token, minting
<1>6. Shape'
  <2>1. pc' \in [Procs -> {"idle"} \cup Waiting \cup Critical] /\ work' \in [Procs -> Entries] /\ lock' \in Procs \cup {NoOne}
    BY <1>4, <1>5 DEF Shape, Critical
  <2>2. presented' \subseteq 1 .. minted' /\ withdrawn' \subseteq 1 .. minted'
    BY <1>2, <1>3, <1>5 DEF Shape
  <2> QED
    BY <1>3, <1>5, <2>1, <2>2 DEF Shape, disk
<1>7. \A q \in Procs : Locked(q)'
  BY <1>1, <1>4 DEF Locked, Shape, Critical
<1>8. \A q \in Procs \ {p} : pc'[q] = pc[q] /\ work'[q] = work[q]
  BY <1>4 DEF Shape
<1>9. ASSUME NEW q \in Procs PROVE WorkOf(q)'
  <2>1. CASE q = p
    <3>1. CASE pc'[p] = "idle"
      BY <2>1, <3>1 DEF WorkOf
    <3>2. CASE pc'[p] # "idle"
      <4>1. pc'[p] = "store" /\ work'[p] = minting /\ minted' = minted + 1
        BY <1>4, <3>2 DEF Shape
      <4>2. minted + 1 \notin presented' \cup withdrawn
        BY <1>2, <1>3 DEF Shape
      <4>3. \A f \in fileMaybe, x \in Orgs : f[x].refresh # minted + 1
        BY <1>5 DEF EntryOf, Shape, Entries
      <4>4. \A r \in Procs \ {p} : pc[r] # "idle" => work[r].refresh # minted + 1
        BY <1>5 DEF WorkOf, Shape, Entries
      <4>5. Mine(p)'
        BY <1>3, <1>5, <1>8, <4>1, <4>2, <4>3, <4>4 DEF Mine, disk
      <4> QED
        BY <1>1, <1>3, <1>5, <2>1, <4>1, <4>5 DEF WorkOf, Unsaved
    <3> QED
      BY <3>1, <3>2
  <2>2. CASE q # p
    <3>1. ASSUME pc[q] # "idle", work[q].refresh # 0 PROVE Mine(q)'
      <4>1. Mine(q) /\ work[q].refresh <= minted /\ work[q].refresh \in Nat
        BY <3>1 DEF WorkOf, Shape, Entries
      <4>2. pc[q] \in Unsaved => work[q].refresh # token
        BY <1>1, <4>1 DEF Mine, Shape
      <4>3. pc'[p] # "idle" => work'[p].refresh # work[q].refresh
        BY <1>4, <1>5, <4>1 DEF Shape
      <4> QED
        BY <1>3, <1>8, <2>2, <4>1, <4>2, <4>3 DEF Mine, disk
    <3>2. work[q].refresh <= minted => work[q].refresh <= minted'
      BY <1>5 DEF Shape, Entries
    <3> QED
      BY <1>3, <1>8, <2>2, <3>1, <3>2 DEF WorkOf
  <2> QED
    BY <2>1, <2>2
<1>10. ASSUME NEW q \in Procs PROVE HoldsOf(q)'
  <2>1. CASE lock' = q
    <3>1. q = p /\ pc'[p] = "store"
      BY <1>1, <1>4, <2>1 DEF Shape
    <3>2. o \in marker
      BY <1>1 DEF HoldsOf, Renewing
    <3> QED
      BY <1>1, <1>3, <3>1, <3>2 DEF HoldsOf, Renewing, disk
  <2>2. CASE lock' # q
    BY <2>2 DEF HoldsOf
  <2> QED
    BY <2>1, <2>2
<1>11. ASSUME NEW f \in fileMaybe', NEW x \in Orgs PROVE EntryOf(f, x)'
  <2>1. EntryOf(f, x) /\ f[x].refresh \in Nat
    BY <1>3 DEF disk, Shape, Entries
  <2>2. ASSUME f[x].refresh = token PROVE f[x].pending
    <3>1. x = o
      BY <1>1, <1>3, <2>2 DEF EntryOf, Shape, disk
    <3> QED
      BY <1>1, <1>3, <3>1 DEF HoldsOf, Renewing, disk
  <2> QED
    BY <1>3, <1>5, <2>1, <2>2 DEF EntryOf, disk
<1>12. DisownedIsMarked'
  <2>1. ASSUME NEW t, Disowned(t)' PROVE Disowned(t)
    <3>1. pc'[p] # "revoke"
      BY <1>4 DEF Shape
    <3> QED
      BY <1>3, <1>8, <2>1, <3>1 DEF Disowned
  <2> QED
    BY <1>3, <2>1 DEF DisownedIsMarked, disk, Shape
<1>13. NeverReplayed' /\ UsableIsDurable'
  BY <1>3 DEF SavedSurvives, NeverReplayed, UsableIsDurable, Usable, disk
<1>14. SavedIsDurable'
  <2>1. \A q \in Procs : pc'[q] # "exit"
    BY <1>1, <1>4 DEF Locked, Critical, Shape
  <2> QED
    BY <2>1 DEF SavedIsDurable
<1> QED
  BY <1>6, <1>7, <1>9, <1>10, <1>11, <1>12, <1>13, <1>14 DEF SavedSurvives

LEMMA RevokeOldKeeps ==
  ASSUME CredentialsInv, NEW p \in Procs, RevokeOld(p)
  PROVE  CredentialsInv'
<1> USE DEF CredentialsInv, Shape, RevokeOld, Goes, disk, procs, server
<1>1. Shape'
  BY DEF Entries, NoEntry, HoldsOf, Waiting, Critical, WorkOf, Mine, Unsaved, EntryOf
<1>2. ASSUME NEW q \in Procs PROVE Locked(q)'
  BY DEF Locked, Waiting, Critical
<1>3. ASSUME NEW q \in Procs PROVE WorkOf(q)'
  BY DEF WorkOf, Mine, HoldsOf, Renewing, Unsaved, Locked, Critical, NoEntry, Entries, EntryOf
<1>4. ASSUME NEW q \in Procs PROVE HoldsOf(q)'
  BY DEF HoldsOf, Renewing, Locked, Critical, EntryOf, WorkOf
<1>5. ASSUME NEW f \in fileMaybe', NEW x \in Orgs PROVE EntryOf(f, x)'
  BY DEF EntryOf, HoldsOf, Renewing, Locked, Critical, WorkOf, Mine, Unsaved, Entries, NoEntry
<1>6. DisownedIsMarked'
  BY DEF DisownedIsMarked, Disowned, WorkOf, Mine, Unsaved, HoldsOf, Locked, Critical, EntryOf, Entries, NoEntry
<1>7. NeverReplayed'
  BY DEF NeverReplayed, HoldsOf, Locked, Critical, Renewing
<1>8. UsableIsDurable'
  BY DEF SavedSurvives, UsableIsDurable, Usable, HoldsOf, Locked, Critical, WorkOf, NoEntry, Renewing
<1>9. SavedIsDurable'
  BY DEF SavedSurvives, SavedIsDurable, HoldsOf, Locked, Critical, WorkOf, Unsaved, NoEntry
<1> QED
  BY <1>1, <1>2, <1>3, <1>4, <1>5, <1>6, <1>7, <1>8, <1>9 DEF SavedSurvives

\* ClearRefreshRecovery, when it does not fail.
LEMMA ClearingKeeps ==
  ASSUME CredentialsInv, NEW p \in Procs, pc[p] = "clear", Goes(p, "clearsync"),
         marker' = marker \ {org[p]}, markerMaybe' = markerMaybe \cup {org[p]},
         UNCHANGED <<file, fileMaybe, work, lock, faults, op, org, inventory, server, withdrawn>>
  PROVE  CredentialsInv'
<1> USE DEF CredentialsInv, server
<1>1. lock = p /\ pc' = [pc EXCEPT ![p] = "clearsync"] /\ file[org[p]] = work[p] /\ fileMaybe = {file} /\ markerMaybe = {}
  BY DEF Locked, Critical, Goes, HoldsOf
<1>2. \A q \in Procs : Locked(q)'
  BY <1>1 DEF Locked, Shape, Critical
<1>3. HoldsOf(p)'
  BY <1>1 DEF HoldsOf, Renewing, Shape
<1>4. Shape' /\ (\A q \in Procs : WorkOf(q)' /\ HoldsOf(q)') /\ (\A f \in fileMaybe', o \in Orgs : EntryOf(f, o)')
  <2>1. "clearsync" \in {"idle"} \cup Waiting \cup Critical /\ "clearsync" \notin Unsaved
    BY DEF Critical, Unsaved
  <2>2. marker' \subseteq Orgs /\ markerMaybe' \subseteq Orgs /\ lock' \in Procs \cup {NoOne} /\ \A q \in Procs \ {p} : lock' # q
    BY <1>1 DEF Shape
  <2>3. faults <= faults' /\ faults' \in Nat
    BY DEF Shape
  <2> QED
    BY <1>1, <1>2, <1>3, <2>1, <2>2, <2>3, StageOnly
<1>5. DisownedIsMarked'
  <2>1. ASSUME NEW t, Disowned(t)' PROVE Disowned(t)
    <3>1. Disowned(t) \/ ("clearsync" = "revoke" /\ work[p].refresh = t)
      BY <1>1, <2>1, GoingOn
    <3> QED
      BY <3>1
  <2>2. ~Disowned(file[org[p]].refresh)
    BY <1>1, OwnIsNotDisowned
  <2> QED
    BY <2>1, <2>2 DEF DisownedIsMarked, Shape
<1>6. NeverReplayed' /\ UsableIsDurable'
  BY <1>1 DEF NeverReplayed, UsableIsDurable
<1>7. SavedIsDurable'
  <2>1. \A q \in Procs \ {p} : pc'[q] # "exit"
    BY <1>1 DEF Locked, Critical, Shape
  <2> QED
    BY <1>1, <2>1 DEF SavedIsDurable, Shape
<1> QED
  BY <1>2, <1>4, <1>5, <1>6, <1>7 DEF SavedSurvives

LEMMA NothingToClearKeeps ==
  ASSUME CredentialsInv, NEW p \in Procs, pc[p] = "clear", Goes(p, "exit"),
         org[p] \notin marker, UNCHANGED <<marker, markerMaybe>>,
         UNCHANGED <<file, fileMaybe, work, lock, faults, op, org, inventory, server, withdrawn>>
  PROVE  CredentialsInv'
<1> USE DEF CredentialsInv, server
<1>1. lock = p /\ pc' = [pc EXCEPT ![p] = "exit"] /\ file[org[p]] = work[p] /\ fileMaybe = {file} /\ markerMaybe = {}
  BY DEF Locked, Critical, Goes, HoldsOf
<1>2. \A q \in Procs : Locked(q)'
  BY <1>1 DEF Locked, Shape, Critical
<1>3. HoldsOf(p)'
  BY <1>1 DEF HoldsOf, Renewing, Shape
<1>4. Shape' /\ (\A q \in Procs : WorkOf(q)' /\ HoldsOf(q)') /\ (\A f \in fileMaybe', o \in Orgs : EntryOf(f, o)')
  <2>1. "exit" \in {"idle"} \cup Waiting \cup Critical /\ "exit" \notin Unsaved
    BY DEF Critical, Unsaved
  <2>2. marker' \subseteq Orgs /\ markerMaybe' \subseteq Orgs /\ lock' \in Procs \cup {NoOne} /\ \A q \in Procs \ {p} : lock' # q
    BY <1>1 DEF Shape
  <2>3. faults <= faults' /\ faults' \in Nat
    BY DEF Shape
  <2> QED
    BY <1>1, <1>2, <1>3, <2>1, <2>2, <2>3, StageOnly
<1>5. DisownedIsMarked'
  <2>1. ASSUME NEW t, Disowned(t)' PROVE Disowned(t)
    <3>1. Disowned(t) \/ ("exit" = "revoke" /\ work[p].refresh = t)
      BY <1>1, <2>1, GoingOn
    <3> QED
      BY <3>1
  <2>2. ~Disowned(file[org[p]].refresh)
    BY <1>1, OwnIsNotDisowned
  <2> QED
    BY <2>1, <2>2 DEF DisownedIsMarked, Shape
<1>6. NeverReplayed' /\ UsableIsDurable'
  BY <1>1 DEF NeverReplayed, UsableIsDurable
<1>7. SavedIsDurable'
  <2>1. \A q \in Procs \ {p} : pc'[q] # "exit"
    BY <1>1 DEF Locked, Critical, Shape
  <2> QED
    BY <1>1, <2>1 DEF SavedIsDurable, Shape
<1> QED
  BY <1>2, <1>4, <1>5, <1>6, <1>7 DEF SavedSurvives

LEMMA ClearRefreshRecoveryKeeps ==
  ASSUME CredentialsInv, NEW p \in Procs, ClearRefreshRecovery(p)
  PROVE  CredentialsInv'
<1>1. CASE org[p] \notin marker
  BY <1>1, NothingToClearKeeps DEF ClearRefreshRecovery, disk
<1>2. CASE org[p] \in marker /\ FailsBefore(p)
  BY <1>2, FailingKeeps DEF ClearRefreshRecovery, FailsBefore, Critical
<1>3. CASE org[p] \in marker /\ ~FailsBefore(p)
  BY <1>3, ClearingKeeps DEF ClearRefreshRecovery
<1> QED
  BY <1>1, <1>2, <1>3

LEMMA SyncClearKeeps ==
  ASSUME CredentialsInv, NEW p \in Procs, SyncClear(p)
  PROVE  CredentialsInv'
<1> USE DEF CredentialsInv, Shape, SyncClear, Synced, Fault, Goes, disk, procs, server
<1>1. Shape'
  <2>1. pc' \in [Procs -> {"idle"} \cup Waiting \cup Critical]
    BY DEF Critical
  <2>2. fileMaybe' \subseteq [Orgs -> Entries] /\ file' \in fileMaybe' /\ markerMaybe' \subseteq Orgs
    OBVIOUS
  <2>3. faults' \in Nat
    OBVIOUS
  <2> QED
    BY <2>1, <2>2, <2>3
<1>2. ASSUME NEW q \in Procs PROVE Locked(q)'
  BY DEF Locked, Waiting, Critical
<1>3. ASSUME NEW q \in Procs PROVE WorkOf(q)'
  BY DEF WorkOf, Mine, HoldsOf, Renewing, Unsaved, Locked, Critical, NoEntry, Entries, EntryOf
<1>4. ASSUME NEW q \in Procs PROVE HoldsOf(q)'
  BY DEF HoldsOf, Renewing, Locked, Critical, EntryOf, WorkOf
<1>5. ASSUME NEW f \in fileMaybe', NEW x \in Orgs PROVE EntryOf(f, x)'
  BY DEF EntryOf, HoldsOf, Renewing, Locked, Critical, WorkOf, Mine, Unsaved, Entries, NoEntry
<1>6. DisownedIsMarked'
  <2>1. PICK to \in {"exit", "remark"} : pc' = [pc EXCEPT ![p] = to]
    OBVIOUS
  <2>2. ASSUME NEW t, Disowned(t)' PROVE Disowned(t)
    <3>1. Disowned(t) \/ (to = "revoke" /\ work[p].refresh = t)
      BY <2>1, <2>2, GoingOn
    <3> QED
      BY <2>1, <3>1
  <2>3. UNCHANGED <<file, marker>> /\ (faults' = 0 => faults = 0) /\ (faults' <= 1 => faults <= 1) /\ fileMaybe' \subseteq fileMaybe
    OBVIOUS
  <2> QED
    BY <2>2, <2>3 DEF DisownedIsMarked
<1>7. NeverReplayed'
  BY DEF NeverReplayed, HoldsOf, Locked, Critical, Renewing
<1>8. UsableIsDurable'
  BY DEF SavedSurvives, UsableIsDurable, Usable, HoldsOf, Locked, Critical, WorkOf, NoEntry, Renewing
<1>9. SavedIsDurable'
  BY DEF SavedSurvives, SavedIsDurable, HoldsOf, Locked, Critical, WorkOf, Unsaved, NoEntry
<1> QED
  BY <1>1, <1>2, <1>3, <1>4, <1>5, <1>6, <1>7, <1>8, <1>9 DEF SavedSurvives

LEMMA RemarkKeeps ==
  ASSUME CredentialsInv, NEW p \in Procs, Remark(p)
  PROVE  CredentialsInv'
<1> USE DEF CredentialsInv, Shape, Remark, Leaves, Synced, Fault, Goes, disk, procs, server
<1>1. Shape'
  BY DEF Entries, NoEntry, HoldsOf, Waiting, Critical, WorkOf, Mine, Unsaved, EntryOf
<1>2. ASSUME NEW q \in Procs PROVE Locked(q)'
  BY DEF Locked, Waiting, Critical
<1>3. ASSUME NEW q \in Procs PROVE WorkOf(q)'
  BY DEF WorkOf, Mine, HoldsOf, Renewing, Unsaved, Locked, Critical, NoEntry, Entries, EntryOf
<1>4. ASSUME NEW q \in Procs PROVE HoldsOf(q)'
  BY DEF HoldsOf, Renewing, Locked, Critical, EntryOf, WorkOf
<1>5. ASSUME NEW f \in fileMaybe', NEW x \in Orgs PROVE EntryOf(f, x)'
  BY DEF EntryOf, HoldsOf, Renewing, Locked, Critical, WorkOf, Mine, Unsaved, Entries, NoEntry
<1>6. DisownedIsMarked'
  BY DEF DisownedIsMarked, Disowned, WorkOf, Mine, Unsaved, HoldsOf, Locked, Critical, EntryOf, Entries, NoEntry
<1>7. NeverReplayed'
  BY DEF NeverReplayed, HoldsOf, Locked, Critical, Renewing
<1>8. UsableIsDurable'
  BY DEF SavedSurvives, UsableIsDurable, Usable, HoldsOf, Locked, Critical, WorkOf, NoEntry, Renewing
<1>9. SavedIsDurable'
  BY DEF SavedSurvives, SavedIsDurable, HoldsOf, Locked, Critical, WorkOf, Unsaved, NoEntry
<1> QED
  BY <1>1, <1>2, <1>3, <1>4, <1>5, <1>6, <1>7, <1>8, <1>9 DEF SavedSurvives

LEMMA ExitKeeps ==
  ASSUME CredentialsInv, NEW p \in Procs, Exit(p)
  PROVE  CredentialsInv'
<1> USE DEF CredentialsInv, Shape, Exit, Goes, disk, procs, server
<1>1. Shape'
  BY DEF Entries, NoEntry, HoldsOf, Waiting, Critical, WorkOf, Mine, Unsaved, EntryOf
<1>2. ASSUME NEW q \in Procs PROVE Locked(q)'
  BY DEF Locked, Waiting, Critical
<1>3. ASSUME NEW q \in Procs PROVE WorkOf(q)'
  BY DEF WorkOf, Mine, HoldsOf, Renewing, Unsaved, Locked, Critical, NoEntry, Entries, EntryOf
<1>4. ASSUME NEW q \in Procs PROVE HoldsOf(q)'
  BY DEF HoldsOf, Renewing, Locked, Critical, EntryOf, WorkOf
<1>5. ASSUME NEW f \in fileMaybe', NEW x \in Orgs PROVE EntryOf(f, x)'
  BY DEF EntryOf, HoldsOf, Renewing, Locked, Critical, WorkOf, Mine, Unsaved, Entries, NoEntry
<1>6. DisownedIsMarked'
  BY DEF DisownedIsMarked, Disowned, WorkOf, Mine, Unsaved, HoldsOf, Locked, Critical, EntryOf, Entries, NoEntry
<1>7. NeverReplayed'
  BY DEF NeverReplayed, HoldsOf, Locked, Critical, Renewing
<1>8. UsableIsDurable'
  BY DEF SavedSurvives, UsableIsDurable, Usable, HoldsOf, Locked, Critical, WorkOf, NoEntry, Renewing
<1>9. SavedIsDurable'
  BY DEF SavedSurvives, SavedIsDurable, HoldsOf, Locked, Critical, WorkOf, Unsaved, NoEntry
<1> QED
  BY <1>1, <1>2, <1>3, <1>4, <1>5, <1>6, <1>7, <1>8, <1>9 DEF SavedSurvives

LEMMA RevokeKeeps ==
  ASSUME CredentialsInv, NEW p \in Procs, Revoke(p)
  PROVE  CredentialsInv'
<1> USE DEF CredentialsInv, Shape, Revoke, Goes, disk, procs, server
<1>1. Shape'
  <2>1. pc' \in [Procs -> {"idle"} \cup Waiting \cup Critical]
    OBVIOUS
  <2>2. work[p].refresh \in Nat /\ work[p].refresh # 0 /\ work[p].refresh <= minted
    BY DEF WorkOf, Entries
  <2>3. withdrawn' \subseteq 1 .. minted
    <3>1. withdrawn' = withdrawn \/ withdrawn' = withdrawn \cup {work[p].refresh}
      OBVIOUS
    <3>2. work[p].refresh \in 1 .. minted /\ withdrawn \subseteq 1 .. minted
      BY <2>2
    <3> HIDE DEF Shape, Revoke, CredentialsInv
    <3> QED
      BY <3>1, <3>2
  <2> QED
    BY <2>1, <2>3
<1>2. ASSUME NEW q \in Procs PROVE Locked(q)'
  BY DEF Locked, Waiting, Critical
<1>3. ASSUME NEW q \in Procs PROVE WorkOf(q)'
  BY DEF WorkOf, Mine, HoldsOf, Renewing, Unsaved, Locked, Critical, NoEntry, Entries, EntryOf
<1>4. ASSUME NEW q \in Procs PROVE HoldsOf(q)'
  BY DEF HoldsOf, Renewing, Locked, Critical, EntryOf, WorkOf
<1>5. ASSUME NEW f \in fileMaybe', NEW x \in Orgs PROVE EntryOf(f, x)'
  BY DEF EntryOf, HoldsOf, Renewing, Locked, Critical, WorkOf, Mine, Unsaved, Entries, NoEntry
<1>6. DisownedIsMarked'
  BY DEF DisownedIsMarked, Disowned, WorkOf, Mine, Unsaved, HoldsOf, Locked, Critical, EntryOf, Entries, NoEntry
<1>7. NeverReplayed'
  BY DEF NeverReplayed, HoldsOf, Locked, Critical, Renewing
<1>8. UsableIsDurable'
  BY DEF SavedSurvives, UsableIsDurable, Usable, HoldsOf, Locked, Critical, WorkOf, NoEntry, Renewing
<1>9. SavedIsDurable'
  BY DEF SavedSurvives, SavedIsDurable, HoldsOf, Locked, Critical, WorkOf, Unsaved, NoEntry
<1> QED
  BY <1>1, <1>2, <1>3, <1>4, <1>5, <1>6, <1>7, <1>8, <1>9 DEF SavedSurvives

LEMMA KillKeeps ==
  ASSUME CredentialsInv, NEW p \in Procs, Kill(p)
  PROVE  CredentialsInv'
<1> USE DEF CredentialsInv, Shape, Kill, Fault, Goes, disk, procs, server
<1>1. Shape'
  BY DEF Entries, NoEntry, HoldsOf, Waiting, Critical, WorkOf, Mine, Unsaved, EntryOf
<1>2. ASSUME NEW q \in Procs PROVE Locked(q)'
  BY DEF Locked, Waiting, Critical
<1>3. ASSUME NEW q \in Procs PROVE WorkOf(q)'
  BY DEF WorkOf, Mine, HoldsOf, Renewing, Unsaved, Locked, Critical, NoEntry, Entries, EntryOf
<1>4. ASSUME NEW q \in Procs PROVE HoldsOf(q)'
  BY DEF HoldsOf, Renewing, Locked, Critical, EntryOf, WorkOf
<1>5. ASSUME NEW f \in fileMaybe', NEW x \in Orgs PROVE EntryOf(f, x)'
  BY DEF EntryOf, HoldsOf, Renewing, Locked, Critical, WorkOf, Mine, Unsaved, Entries, NoEntry
<1>6. DisownedIsMarked'
  BY DEF DisownedIsMarked, Disowned, WorkOf, Mine, Unsaved, HoldsOf, Locked, Critical, EntryOf, Entries, NoEntry
<1>7. NeverReplayed'
  BY DEF NeverReplayed, HoldsOf, Locked, Critical, Renewing
<1>8. UsableIsDurable'
  BY DEF SavedSurvives, UsableIsDurable, Usable, HoldsOf, Locked, Critical, WorkOf, NoEntry, Renewing
<1>9. SavedIsDurable'
  BY DEF SavedSurvives, SavedIsDurable, HoldsOf, Locked, Critical, WorkOf, Unsaved, NoEntry
<1> QED
  BY <1>1, <1>2, <1>3, <1>4, <1>5, <1>6, <1>7, <1>8, <1>9 DEF SavedSurvives

LEMMA PowerLossKeeps ==
  ASSUME CredentialsInv, PowerLoss
  PROVE  CredentialsInv'
<1> USE DEF CredentialsInv, Shape, PowerLoss, Fault, Goes, disk, procs, server
<1>1. Shape'
  BY DEF Entries, NoEntry, HoldsOf, Waiting, Critical, WorkOf, Mine, Unsaved, EntryOf
<1>2. ASSUME NEW q \in Procs PROVE Locked(q)'
  BY DEF Locked, Waiting, Critical
<1>3. ASSUME NEW q \in Procs PROVE WorkOf(q)'
  BY DEF WorkOf, Mine, HoldsOf, Renewing, Unsaved, Locked, Critical, NoEntry, Entries, EntryOf
<1>4. ASSUME NEW q \in Procs PROVE HoldsOf(q)'
  BY DEF HoldsOf, Renewing, Locked, Critical, EntryOf, WorkOf
<1>5. ASSUME NEW f \in fileMaybe', NEW x \in Orgs PROVE EntryOf(f, x)'
  BY DEF EntryOf, HoldsOf, Renewing, Locked, Critical, WorkOf, Mine, Unsaved, Entries, NoEntry
<1>6. DisownedIsMarked'
  BY DEF DisownedIsMarked, Disowned, WorkOf, Mine, Unsaved, HoldsOf, Locked, Critical, EntryOf, Entries, NoEntry
<1>7. NeverReplayed'
  BY DEF NeverReplayed, HoldsOf, Locked, Critical, Renewing
<1>8. UsableIsDurable'
  BY DEF SavedSurvives, UsableIsDurable, Usable, HoldsOf, Locked, Critical, WorkOf, NoEntry, Renewing
<1>9. SavedIsDurable'
  BY DEF SavedSurvives, SavedIsDurable, HoldsOf, Locked, Critical, WorkOf, Unsaved, NoEntry
<1> QED
  BY <1>1, <1>2, <1>3, <1>4, <1>5, <1>6, <1>7, <1>8, <1>9 DEF SavedSurvives

LEMMA RestKeeps ==
  ASSUME CredentialsInv, UNCHANGED vars
  PROVE  CredentialsInv'
<1> USE DEF CredentialsInv, Shape, vars, Goes, disk, procs, server
<1>1. Shape'
  BY DEF Entries, NoEntry, HoldsOf, Waiting, Critical, WorkOf, Mine, Unsaved, EntryOf
<1>2. ASSUME NEW q \in Procs PROVE Locked(q)'
  BY DEF Locked, Waiting, Critical
<1>3. ASSUME NEW q \in Procs PROVE WorkOf(q)'
  BY DEF WorkOf, Mine, HoldsOf, Renewing, Unsaved, Locked, Critical, NoEntry, Entries, EntryOf
<1>4. ASSUME NEW q \in Procs PROVE HoldsOf(q)'
  BY DEF HoldsOf, Renewing, Locked, Critical, EntryOf, WorkOf
<1>5. ASSUME NEW f \in fileMaybe', NEW x \in Orgs PROVE EntryOf(f, x)'
  BY DEF EntryOf, HoldsOf, Renewing, Locked, Critical, WorkOf, Mine, Unsaved, Entries, NoEntry
<1>6. DisownedIsMarked'
  BY DEF DisownedIsMarked, Disowned, WorkOf, Mine, Unsaved, HoldsOf, Locked, Critical, EntryOf, Entries, NoEntry
<1>7. NeverReplayed'
  BY DEF NeverReplayed, HoldsOf, Locked, Critical, Renewing
<1>8. UsableIsDurable'
  BY DEF SavedSurvives, UsableIsDurable, Usable, HoldsOf, Locked, Critical, WorkOf, NoEntry, Renewing
<1>9. SavedIsDurable'
  BY DEF SavedSurvives, SavedIsDurable, HoldsOf, Locked, Critical, WorkOf, Unsaved, NoEntry
<1> QED
  BY <1>1, <1>2, <1>3, <1>4, <1>5, <1>6, <1>7, <1>8, <1>9 DEF SavedSurvives

LEMMA CredentialsGoOn == CredentialsInv /\ [Next]_vars => CredentialsInv'
<1> SUFFICES ASSUME CredentialsInv, [Next]_vars PROVE CredentialsInv'
  OBVIOUS
<1>1. ASSUME NEW p \in Procs, NEW what \in {"load", "login", "logout"}, NEW o \in Orgs, Begin(p, what, o) PROVE CredentialsInv'
  BY <1>1, BeginKeeps
<1>2. ASSUME NEW p \in Procs, Acquire(p) \/ GivesUp(p) \/ Kill(p) PROVE CredentialsInv'
  BY <1>2, AcquireKeeps, GivesUpKeeps, KillKeeps
<1>3. ASSUME NEW p \in Procs, Works(p) PROVE CredentialsInv'
  BY <1>3, ExchangeKeeps, MarkRefreshRecoveryKeeps, SyncMarkerKeeps, SavePendingKeeps, SyncPendingKeeps, RefreshKeeps,
     RevokeOldKeeps, StoreKeeps, SyncStoreKeeps, ClearRefreshRecoveryKeeps, SyncClearKeeps, RemarkKeeps, ExitKeeps, RevokeKeeps
  DEF Works
<1>4. CASE PowerLoss \/ UNCHANGED vars
  BY <1>4, PowerLossKeeps, RestKeeps
<1> QED
  BY <1>1, <1>2, <1>3, <1>4 DEF Next

-----------------------------------------------------------------------------
\* No process sends a refresh token a second time, and none finds a login that
\* failed, and whose token was revoked for it, usable, unless more failed than
\* that login (refresh_recovery.go, tokens.go).
THEOREM NoTokenIsDead == Spec => []NoDeadToken
<1>1. CredentialsInv => NoDeadToken
  <2> SUFFICES ASSUME CredentialsInv, NEW o \in Orgs, Usable(o), file[o].refresh \in withdrawn PROVE faults > 1
    BY DEF CredentialsInv, NoDeadToken, WithdrawnNotUsable
  <2>1. ~(faults <= 1) /\ faults \in Nat
    BY DEF CredentialsInv, Shape, DisownedIsMarked, Disowned, Usable
  <2> QED
    BY <2>1
<1> QED
  BY <1>1, CredentialsStart, CredentialsGoOn, PTL DEF Spec

\* While nothing has failed, only the holder of the lock leaves anything unsynced,
\* between a save and its sync.
Unsynced(p) == pc[p] \in {"pendsync", "storesync"}
Settled == faults = 0 => fileMaybe = {file} \/ \E p \in Procs : Unsynced(p)

\* What a logout says it removed, and what it found removed.
RemovedOf(p) ==
  pc[p] = "exit" /\ op[p] = "logout" =>
    /\ inventory[org[p]] # NoEntry =>
         (\A f \in fileMaybe : f[org[p]] = work[p]) /\ org[p] \notin marker \cup markerMaybe
    /\ file[org[p]] = NoEntry
    /\ faults = 0 => fileMaybe = {file}
RemovedInv == Settled /\ \A p \in Procs : RemovedOf(p)

\* A process that is at its sync is still there, unless it is the one that goes on.
LEMMA SettledStays ==
  ASSUME CredentialsInv, Settled, NEW p \in Procs, NEW to, pc' = [pc EXCEPT ![p] = to],
         UNCHANGED <<file, fileMaybe>>, faults' = 0 => faults = 0 /\ ~Unsynced(p)
  PROVE  Settled'
BY DEF Settled, Unsynced, CredentialsInv, Shape

LEMMA RemovedGoesOn == CredentialsInv /\ RemovedInv /\ [Next]_vars => RemovedInv'
<1> SUFFICES ASSUME CredentialsInv, RemovedInv, [Next]_vars PROVE RemovedInv'
  OBVIOUS
<1> USE DEF RemovedInv
<1>1. Shape /\ \A p \in Procs : Locked(p) /\ WorkOf(p) /\ HoldsOf(p)
  BY DEF CredentialsInv
<1>2. ASSUME NEW p \in Procs, Begin(p, "load", org'[p]) \/ Begin(p, "login", org'[p]) \/ Begin(p, "logout", org'[p]) \/ GivesUp(p)
                              \/ Exchange(p) \/ Revoke(p) \/ Exit(p) \/ Kill(p)
      PROVE  RemovedInv'
  <2>1. PICK to : pc' = [pc EXCEPT ![p] = to] /\ to # "exit" /\ (faults' = faults \/ faults' = faults + 1)
    BY <1>2 DEF Begin, GivesUp, Exchange, Revoke, Exit, Kill, Goes, Fault
  <2>2. UNCHANGED <<file, fileMaybe, marker, markerMaybe, inventory>> /\ (faults' = 0 => ~Unsynced(p))
    BY <1>1, <1>2 DEF Begin, GivesUp, Exchange, Revoke, Exit, Kill, Fault, disk, Unsynced, Shape
  <2>3. \A q \in Procs \ {p} : op'[q] = op[q] /\ org'[q] = org[q] /\ work'[q] = work[q]
    BY <1>1, <1>2 DEF Begin, GivesUp, Exchange, Revoke, Exit, Kill, Shape
  <2>6. faults' = 0 => faults = 0 /\ ~Unsynced(p)
    BY <1>1, <2>1, <2>2 DEF Shape
  <2>4. Settled'
    BY <2>1, <2>2, <2>6, SettledStays
  <2>5. ASSUME NEW q \in Procs PROVE RemovedOf(q)'
    BY <1>1, <2>1, <2>2, <2>3 DEF RemovedOf, Shape
  <2> QED BY <2>4, <2>5
<1>3. ASSUME NEW p \in Procs, Acquire(p) PROVE RemovedInv'
  <2>1. PICK to : pc' = [pc EXCEPT ![p] = to] /\ (to = "exit" /\ op[p] = "logout" => file[org[p]] = NoEntry)
    BY <1>3 DEF Acquire, Goes
  <2>2. lock = NoOne /\ pc[p] = "wait" /\ inventory' = file /\ UNCHANGED <<file, fileMaybe, marker, markerMaybe, op, org, work, faults>>
    BY <1>3 DEF Acquire, disk
  <2>3. \A q \in Procs : pc[q] \notin Critical
    BY <1>1, <2>2 DEF Locked
  <2>4. faults = 0 => fileMaybe = {file}
    BY <2>3 DEF Settled, Unsynced, Critical
  <2>5. Settled'
    BY <2>2, <2>4 DEF Settled
  <2>6. ASSUME NEW q \in Procs PROVE RemovedOf(q)'
    BY <1>1, <2>1, <2>2, <2>3, <2>4 DEF RemovedOf, Shape, Critical
  <2> QED BY <2>5, <2>6
<1>4. ASSUME NEW p \in Procs, pc[p] \in Critical \ {"exit"},
             NEW to, pc' = [pc EXCEPT ![p] = to], Settled',
             to = "exit" => /\ fileMaybe' = {file'} /\ file'[org[p]] = work[p] /\ org[p] \notin marker' \cup markerMaybe'
                            /\ UNCHANGED <<op, org, work>>
      PROVE  RemovedInv'
  <2>1. \A q \in Procs \ {p} : pc[q] # "exit"
    BY <1>1, <1>4 DEF Locked, Critical
  <2>2. ASSUME NEW q \in Procs, pc'[q] = "exit" PROVE q = p /\ to = "exit"
    BY <1>1, <1>4, <2>1, <2>2 DEF Shape
  <2>3. ASSUME NEW q \in Procs PROVE RemovedOf(q)'
    <3>1. CASE pc'[q] = "exit" /\ op'[q] = "logout"
      <4>1. q = p /\ to = "exit"
        BY <2>2, <3>1
      <4>2. work[p] = NoEntry
        BY <1>1, <1>4, <3>1, <4>1 DEF WorkOf, Critical
      <4> QED BY <1>4, <4>1, <4>2 DEF RemovedOf
    <3>2. CASE ~(pc'[q] = "exit" /\ op'[q] = "logout")
      BY <3>2 DEF RemovedOf
    <3> QED BY <3>1, <3>2
  <2> QED BY <1>4, <2>3
<1>5. ASSUME NEW p \in Procs, MarkRefreshRecovery(p) \/ Refresh(p) \/ RevokeOld(p) \/ ClearRefreshRecovery(p) \/ Remark(p)
      PROVE  RemovedInv'
  <2>1. PICK to : pc' = [pc EXCEPT ![p] = to] /\ (faults' = faults \/ faults' = faults + 1)
    BY <1>5 DEF MarkRefreshRecovery, Refresh, RevokeOld, ClearRefreshRecovery, Remark, FailsBefore, Leaves, Goes, Fault
  <2>2. file' = file /\ pc[p] \in Critical \ {"exit"} /\ ~Unsynced(p)
    BY <1>5 DEF MarkRefreshRecovery, Refresh, RevokeOld, ClearRefreshRecovery, Remark, FailsBefore, Synced, disk, Critical, Unsynced
  <2>3. fileMaybe' = fileMaybe \/ fileMaybe' = {file}
    BY <1>5 DEF MarkRefreshRecovery, Refresh, RevokeOld, ClearRefreshRecovery, Remark, FailsBefore, Synced, disk
  <2>4. Settled'
    <3>1. CASE fileMaybe' = fileMaybe
      <4>1. faults' = 0 => faults = 0 /\ ~Unsynced(p)
        BY <1>1, <2>1, <2>2 DEF Shape
      <4> QED BY <2>1, <2>2, <3>1, <4>1, SettledStays
    <3>2. CASE fileMaybe' = {file}
      BY <2>2, <3>2 DEF Settled
    <3> QED BY <2>3, <3>1, <3>2
  <2>5. CASE to = "exit"
    <3>1. ClearRefreshRecovery(p) /\ org[p] \notin marker /\ pc[p] = "clear" /\ UNCHANGED <<disk, op, org, work>>
      <4>1. pc'[p] = "exit"
        BY <1>1, <2>1, <2>5 DEF Shape
      <4> QED
        BY <1>1, <1>5, <4>1 DEF MarkRefreshRecovery, Refresh, RevokeOld, ClearRefreshRecovery, Remark, FailsBefore, Leaves, Goes, Shape
    <3>2. lock = p /\ fileMaybe = {file} /\ file[org[p]] = work[p] /\ markerMaybe = {}
      BY <1>1, <2>2, <3>1 DEF Locked, HoldsOf
    <3> QED BY <1>4, <2>1, <2>2, <2>4, <3>1, <3>2 DEF disk
  <2> QED BY <1>4, <2>1, <2>2, <2>4, <2>5
<1>6. ASSUME NEW p \in Procs, SyncMarker(p) \/ SyncPending(p) \/ SyncStore(p) PROVE RemovedInv'
  <2>1. pc[p] \in Critical \ {"exit"} /\ file' = file
    BY <1>6 DEF SyncMarker, SyncPending, SyncStore, Syncs, Critical
  <2>2. PICK to : pc' = [pc EXCEPT ![p] = to] /\ to # "exit"
    BY <1>6 DEF SyncMarker, SyncPending, SyncStore, Syncs, Leaves, Goes
  <2>3. fileMaybe' = {file} \/ (faults' = faults + 1 /\ fileMaybe' = fileMaybe)
    BY <1>6 DEF SyncMarker, SyncPending, SyncStore, Syncs, Synced, Fault
  <2>4. Settled'
    BY <1>1, <2>1, <2>3 DEF Settled, Shape
  <2> QED BY <1>4, <2>1, <2>2, <2>4
<1>7. ASSUME NEW p \in Procs, SavePending(p) \/ Store(p) PROVE RemovedInv'
  <2>1. pc[p] \in Critical \ {"exit"} /\ ~Unsynced(p)
    BY <1>7 DEF SavePending, Store, Critical, Unsynced
  <2>2. PICK to : pc' = [pc EXCEPT ![p] = to] /\ to # "exit"
    BY <1>7 DEF SavePending, Store, Saves, FailsBefore, Leaves, Goes
  <2>3. pc'[p] \in {"pendsync", "storesync"} \/ (faults' = faults + 1 /\ UNCHANGED <<file, fileMaybe>>)
    BY <1>1, <1>7 DEF SavePending, Store, Saves, FailsBefore, Fault, Goes, Shape, disk
  <2>4. Settled'
    BY <1>1, <2>3 DEF Settled, Unsynced, Shape
  <2> QED BY <1>4, <2>1, <2>2, <2>4
<1>8. ASSUME NEW p \in Procs, SyncClear(p) PROVE RemovedInv'
  <2>1. pc[p] = "clearsync" /\ lock = p /\ fileMaybe = {file} /\ file[org[p]] = work[p] /\ org[p] \notin marker
    BY <1>1, <1>8 DEF SyncClear, Locked, HoldsOf, Critical
  <2>2. UNCHANGED <<file, marker, op, org, work>> /\ fileMaybe' = {file}
    BY <1>8, <2>1 DEF SyncClear, Synced
  <2>3. PICK to : pc' = [pc EXCEPT ![p] = to] /\ (to = "exit" => markerMaybe' = {})
    BY <1>8 DEF SyncClear, Goes, Synced
  <2>4. Settled'
    BY <2>2 DEF Settled
  <2> QED BY <1>4, <2>1, <2>2, <2>3, <2>4 DEF Critical
<1>9. CASE PowerLoss
  BY <1>1, <1>9 DEF PowerLoss, Fault, Settled, RemovedOf, Shape
<1>10. CASE UNCHANGED vars
  BY <1>10 DEF vars, disk, procs, Settled, Unsynced, RemovedOf
<1>11. ASSUME NEW p \in Procs, NEW what \in {"load", "login", "logout"}, NEW o \in Orgs, Begin(p, what, o) PROVE RemovedInv'
  <2>1. org'[p] = o
    BY <1>1, <1>11 DEF Begin, Shape
  <2> QED BY <1>2, <1>11, <2>1
<1> QED
  BY <1>2, <1>3, <1>5, <1>6, <1>7, <1>8, <1>9, <1>10, <1>11 DEF Next, Works

\* What a process takes for a login, and what an operation reported done, be it a
\* login or a logout, is on disk whatever failed before (refresh_recovery.go:14,
\* credential_store.go); but for a logout that found nothing to remove, of which
\* that holds where nothing failed before (oauth_manager.go:184).
THEOREM LoginsSurvivePowerLoss == Spec => []SurvivesPowerLoss
<1>1. Init => RemovedInv
  BY DEF Init, RemovedInv, Settled, RemovedOf
<1>2. CredentialsInv /\ RemovedInv => SurvivesPowerLoss
  <2> SUFFICES ASSUME CredentialsInv, RemovedInv PROVE DoneIsDurable
    BY DEF SurvivesPowerLoss, CredentialsInv, SavedSurvives
  <2> SUFFICES ASSUME NEW p \in Procs, pc[p] = "exit"
               PROVE  /\ Saved(p) => (\A f \in fileMaybe : f[org[p]] = work[p]) /\ org[p] \notin marker \cup markerMaybe
                      /\ FoundNone(p) => file[org[p]] = NoEntry /\ \A f \in fileMaybe : f[org[p]] = NoEntry \/ faults > 0
    BY DEF DoneIsDurable
  <2>1. RemovedOf(p) /\ SavedIsDurable /\ faults \in Nat
    BY DEF RemovedInv, CredentialsInv, SavedSurvives, Shape
  <2>2. ASSUME Saved(p) PROVE (\A f \in fileMaybe : f[org[p]] = work[p]) /\ org[p] \notin marker \cup markerMaybe
    BY <2>1, <2>2 DEF Saved, RemovedOf, SavedIsDurable
  <2>3. ASSUME FoundNone(p) PROVE file[org[p]] = NoEntry /\ \A f \in fileMaybe : f[org[p]] = NoEntry \/ faults > 0
    BY <2>1, <2>3 DEF FoundNone, RemovedOf
  <2> QED BY <2>2, <2>3
<1> QED
  BY <1>1, <1>2, CredentialsStart, CredentialsGoOn, RemovedGoesOn, PTL DEF Spec

\* Each process writes the whole file and changes its own org alone
\* (credential_store.go:39).
THEOREM OthersStayUntouched == Spec => OthersUntouched
<1>1. CredentialsInv /\ [Next]_vars => [\A o \in Orgs :
       file'[o] # file[o] => \/ \E p \in Procs : lock = p /\ org[p] = o
                             \/ faults' > faults]_vars
  <2> SUFFICES ASSUME CredentialsInv, Next, NEW o \in Orgs, file'[o] # file[o], ~(faults' > faults)
               PROVE  \E p \in Procs : lock = p /\ org[p] = o
    OBVIOUS
  <2>1. ~PowerLoss
    BY DEF PowerLoss, Fault, CredentialsInv, Shape
  <2>2. PICK p \in Procs : SavePending(p) \/ Store(p)
    BY <2>1 DEF Next, Works, Begin, Acquire, GivesUp, Exchange, MarkRefreshRecovery, SyncMarker, SyncPending, SyncStore, Syncs,
       Refresh, RevokeOld, ClearRefreshRecovery, SyncClear, Remark, Exit, Revoke, Kill, FailsBefore, disk
  <2>3. lock = p /\ \A x \in Orgs \ {org[p]} : inventory[x] = file[x]
    BY <2>2 DEF CredentialsInv, Locked, Critical, HoldsOf, SavePending, Store
  <2>4. PICK entry : file' = [inventory EXCEPT ![org[p]] = entry] \/ file' = file
    BY <2>2 DEF SavePending, Store, Saves, FailsBefore, disk
  <2>5. o = org[p]
    BY <2>3, <2>4 DEF CredentialsInv, Shape
  <2> QED
    BY <2>3, <2>5
<1>2. Spec => [][CredentialsInv /\ [Next]_vars]_vars
  BY CredentialsStart, CredentialsGoOn, PTL DEF Spec
<1> QED
  BY <1>1, <1>2, PTL DEF OthersUntouched
=============================================================================
