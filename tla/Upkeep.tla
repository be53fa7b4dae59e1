------------------------------- MODULE Upkeep -------------------------------
(***************************************************************************)
(* What anfra keeps of itself: its updates, the agents' notices, and their *)
(* block in AGENTS.md, which share no state: a behaviour is of one of the  *)
(* three, the others at rest.                                              *)
(***************************************************************************)
EXTENDS Updates, AgentNotices

VARIABLE focus

upkeepVars == <<focus, updateVars, noticeVars>>

OfUpdates(A) == focus = "updates" /\ A /\ UNCHANGED <<focus, noticeVars>>
OfRecords(A) == focus = "records" /\ A /\ UNCHANGED <<focus, updateVars>>
OfBlock(A)   == focus = "block" /\ A /\ UNCHANGED <<focus, updateVars>>

UpkeepInit == focus \in {"updates", "records", "block"} /\ UpdatesInit /\ NoticesInit
UpkeepNext == OfUpdates(UpdatesNext) \/ OfRecords(RecordsNext) \/ OfBlock(BlockNext)

\* What is started goes on; anfra is in use; a lookup tried for ever is answered
\* at times; and time passes, if never while a write is under way.
UpkeepSpec ==
    /\ UpkeepInit /\ [][UpkeepNext]_upkeepVars
    /\ \A p \in Actors : WF_upkeepVars(OfUpdates(Goes(p)))
    /\ \A p \in Slots : SF_upkeepVars(OfUpdates(Look(p))) /\ SF_upkeepVars(OfUpdates(SpawnCheck(p)))
    /\ SF_upkeepVars(OfUpdates(Passes))

\* While anfra is in use, its cache says what the latest release is again and
\* again, whatever was torn, lost, written over, failed or moved back.
LatestIsKnown == focus = "updates" => KnowsLatest

\* Neither notice prints more often than it should: a release's once, the
\* skills' once a day.
SaidSparingly == AnnouncedOnce /\ NoticedDaily
=============================================================================
