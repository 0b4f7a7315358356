------------------------------- MODULE Views -------------------------------
(***************************************************************************)
(* The parts of the API beside jobs and registration: accounts on a migrated   *)
(* database, and what readers are shown while the tables change (a node's       *)
(* status, the pages of a listing, the dashboard, the scrape).  They share no    *)
(* state, so a behaviour is about one of them.                               *)
(***************************************************************************)
EXTENDS Deployment, NodeStatus, Pages, Observability

VARIABLE view   \* the part this behaviour is about

Parts == {"accounts", "node", "pages", "dashboard", "scrape"}

ViewsInit ==
  /\ view \in Parts
  /\ IF view = "accounts" THEN DeploymentInit
     ELSE NoAccounts /\ revision = 10 /\ schema = SchemaAt[10]
  /\ IF view = "node" THEN NodeInit
     ELSE node = Deleted /\ NoAgent
  /\ PagesInit
  /\ IF view = "dashboard" THEN DashboardInit ELSE ScrapeInit

ViewsNext ==
  /\ UNCHANGED view
  /\ \/ /\ view = "accounts" /\ DeploymentNext
        /\ UNCHANGED <<nodeVars, pageVars, tableVars>>
     \/ /\ view = "node" /\ NodeNext
        /\ UNCHANGED <<deploymentVars, pageVars, tableVars>>
     \/ /\ view = "pages" /\ PagesNext
        /\ UNCHANGED <<deploymentVars, nodeVars, tableVars>>
     \/ /\ view = "dashboard" /\ DashboardNext
        /\ UNCHANGED <<deploymentVars, nodeVars, pageVars>>
     \/ /\ view = "scrape" /\ ScrapeNext
        /\ UNCHANGED <<deploymentVars, nodeVars, pageVars>>

ViewsSpec ==
  ViewsInit /\ [][ViewsNext]_<<view, deploymentVars, nodeVars, pageVars, tableVars>>

=============================================================================
