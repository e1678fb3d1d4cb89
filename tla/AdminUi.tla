------------------------------- MODULE AdminUi -------------------------------
(***************************************************************************)
(* The web interface of administration (admin-ui): the router of App.tsx   *)
(* shows one page, whose calls go through lib/api.ts to the admin API.     *)
(* The dialogs of a project's view are a page of their own here.           *)
(*                                                                         *)
(* A page starts anew when it is shown, so each behaviour is about one     *)
(* page; that of the others is as it was at the start.                     *)
(***************************************************************************)
EXTENDS AdminProjects, ProjectDialogs, DatabasePanels, TasksPage

VARIABLE mounted   \* the page that is shown

Pages == {"projects", "dialogs", "databases", "tasks"}

all == <<mounted, pvars, dvars, bvars, tvars, wire, faults>>

AdminInit ==
  /\ mounted \in Pages
  /\ ProjectsStart /\ (mounted # "projects" => focus = {"s3"})
  /\ DialogsStart
  /\ PanelsStart /\ (mounted # "databases" => engine = "mongodb" /\ work = "tree")
  /\ TasksStart /\ (mounted # "tasks" => chore = "runs")
  /\ wire = CASE mounted = "projects"  -> ReadAll({"projects"})
              [] mounted = "databases" -> <<ReadDbs>>
              [] mounted = "tasks"     -> ReadTasks
              [] OTHER                 -> <<>>
  /\ faults = 0

OnProjects(A)  == mounted = "projects" /\ A /\ UNCHANGED <<mounted, dvars, bvars, tvars>>
OnDialogs(A)   == mounted = "dialogs" /\ A /\ UNCHANGED <<mounted, pvars, bvars, tvars>>
OnDatabases(A) == mounted = "databases" /\ A /\ UNCHANGED <<mounted, pvars, dvars, tvars>>
OnTasksPage(A) == mounted = "tasks" /\ A /\ UNCHANGED <<mounted, pvars, dvars, bvars>>

AdminNext ==
  \/ OnProjects(ProjectsNext) \/ OnDialogs(DialogsNext)
  \/ OnDatabases(PanelsNext) \/ OnTasksPage(TasksNext)

(* every call is answered at last, or fails, and its handler goes on *)
Oldest == wire # <<>> /\
  (\/ OnProjects(ProjectsServe(1) \/ ProjectsGoOn(1)) \/ OnDialogs(DialogsStep(1))
   \/ OnDatabases(PanelsServe(1) \/ PanelsGoOn(1)) \/ OnTasksPage(TasksServe(1) \/ TasksGoOn(1)))

AdminSpec ==
  /\ AdminInit /\ [][AdminNext]_all
  /\ WF_all(Oldest)
  /\ WF_all(OnTasksPage(Poll)) /\ WF_all(OnTasksPage(\E r \in Run : RunEnds(r)))

-----------------------------------------------------------------------------
(* The pages' variables stay in their types. *)
AdminTypeOK ==
  mounted \in Pages /\ ProjectsTypeOK /\ DialogsTypeOK /\ PanelsTypeOK /\ TasksTypeOK
=============================================================================
