-------------------------- MODULE MCSourceScheduler --------------------------
(***************************************************************************)
(* Instances of SourceScheduler for TLC.                                   *)
(***************************************************************************)
EXTENDS SourceScheduler

CONSTANTS liss3, liss4, eos04, landsat, m1, o1, w1, w2

OneDay == [s \in Sources |-> 1]

RefreshNextDay == [s \in Registry |-> 1]

\* The command for the window of the first tick, dry and live.
CliWindows ==
    {[source |-> s, start |-> 0, end |-> 1, due |-> TRUE, dry_run |-> dry] :
        s \in {liss3}, dry \in BOOLEAN}

\* The same window, by the API.
ApiKeys ==
    {[source |-> liss3, start |-> 0, end |-> 1, mode |-> "full_pipeline"]}

\* A window of the scheduled source that is not the one a tick plans.
OverlappingRequest == {[source |-> liss3, start |-> 1, end |-> 1, mode |-> "full_pipeline"]}

EveryDay == {<<landsat, d>> : d \in Days}

FirstDay == {<<eos04, 1>>}

NoCommands == {}
=============================================================================
