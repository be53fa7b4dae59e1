---------------------------- MODULE MCAppServe -----------------------------
(***************************************************************************)
(* appserve's live reload and its reports, and a Data App's query in its   *)
(* page.  They share no state: a behaviour is of one of them, the others   *)
(* at rest.                                                                *)
(***************************************************************************)
EXTENDS LiveReload, Reports, AppQuery

VARIABLE focus

vars == <<focus, liveVars, reportVars, appQueryVars>>

Live(A) == focus = "live" /\ A /\ UNCHANGED <<focus, reportVars, appQueryVars>>
Report(A) == focus = "reports" /\ A /\ UNCHANGED <<focus, liveVars, appQueryVars>>
OfQuery(A) == focus = "query" /\ A /\ UNCHANGED <<focus, liveVars, reportVars>>

Init == focus \in {"live", "reports", "query"} /\ LiveInit /\ ReportsInit /\ AppQueryInit
Next == Live(LiveNext) \/ Report(ReportsNext) \/ OfQuery(AppQueryNext)
Spec ==
  /\ Init /\ [][Next]_vars
  /\ WF_vars(Live(Notices)) /\ \A s \in Streams : WF_vars(Live(Serves(s)))
=============================================================================
