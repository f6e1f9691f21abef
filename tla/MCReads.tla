------------------------------- MODULE MCReads ------------------------------
(***************************************************************************)
(* The pages that show what the server knows: the dashboard's panels, the  *)
(* servers page, the charts, and the groupings of servers they draw.  One  *)
(* route is open at a time and the pages share no variable, so a behaviour *)
(* runs one of them, chosen at the start.                                  *)
(***************************************************************************)
EXTENDS ProviderGroups, DashboardPage, ServersPage, ChartsPage

VARIABLE page
readsVars == <<page, servers, dashboardVars, serversVars, chartsVars>>

MCOrder == <<"a", "b">>

ReadsInit ==
    /\ page \in {"groups", "dashboard", "servers", "charts"}
    /\ GroupsInit /\ ServersInit
    /\ DashboardInit /\ (page # "dashboard" => topic = "usage" /\ content = <<"on">>)
    /\ ChartsInit /\ (page # "charts" => unhurried)

ReadsNext ==
    \/ page = "groups" /\ GroupsNext /\ UNCHANGED <<page, dashboardVars, serversVars, chartsVars>>
    \/ page = "dashboard" /\ DashboardNext /\ UNCHANGED <<page, servers, serversVars, chartsVars>>
    \/ page = "servers" /\ ServersNext /\ UNCHANGED <<page, servers, dashboardVars, chartsVars>>
    \/ page = "charts" /\ ChartsNext /\ UNCHANGED <<page, servers, dashboardVars, serversVars>>

(* The fairness of the module whose turn it is. *)
PanelsFair ==
    /\ WF_dashboardVars(page = "dashboard" /\ Fetch)
    /\ \A r \in Requests : WF_dashboardVars(page = "dashboard" /\ Answer(r))

ListFair ==
    /\ WF_serversVars(page = "servers" /\ FetchHealth) /\ WF_serversVars(page = "servers" /\ TestOver)
    /\ WF_serversVars(page = "servers" /\ ReloadArrives)
    /\ \A p \in Polls : WF_serversVars(page = "servers" /\ HealthArrives(p))

ChartsFair ==
    /\ WF_chartsVars(page = "charts" /\ LogAnswered)
    /\ \A l \in Loads : WF_chartsVars(page = "charts" /\ (LoadServed(l) \/ LoadEnds(l)))

ReadsSpec == ReadsInit /\ [][ReadsNext]_readsVars /\ PanelsFair /\ ListFair /\ ChartsFair

-----------------------------------------------------------------------------
(* Every page keeps within its types. *)
ReadsTypeOK == GroupsTypeOK /\ DashboardTypeOK /\ ServersTypeOK /\ ChartsTypeOK

(* What must happen does: polled panels and lists catch up with the server, tests and
   loads end. *)
ReadsProgress ==
    /\ <>[](page = "dashboard" => PanelsAreCurrent)
    /\ <>[](page = "servers" => ListsAreCurrent) /\ TestsEnd
    /\ []<>(page = "charts" => ~chartLoading) /\ []<>(page = "charts" => logStage # "sent")
=============================================================================
