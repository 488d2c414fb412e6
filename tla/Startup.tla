------------------------------- MODULE Startup -------------------------------
(***************************************************************************)
(* init_db of app/db.py, which the API and every worker run before they    *)
(* serve: create_all, and the migration that adds the fingerprint columns  *)
(* to a table of an older build.  Processes may start together, be killed  *)
(* at any point and be started again.                                      *)
(*                                                                         *)
(* The driver commits every DDL statement on its own, also those that      *)
(* stand in one engine.begin() block, so that each is a step.              *)
(***************************************************************************)
CONSTANTS
  Process,     \* the API and the workers
  ApiProcess   \* the one that serves HTTP

ASSUME StartupAssumption == ApiProcess \in Process

VARIABLES
  columns,   \* the columns of the jobs table, {} as long as there is no table
  pc,        \* where each process is
  todo,      \* the columns that it found missing and has not added yet
  healthy,   \* whether the API has answered its health check
  ordered    \* whether docker-compose.yml starts the processes, or anybody

vars == <<columns, pc, todo, healthy, ordered>>

\* "base" stands for all that a build without fingerprints has.
Additions == {"pdf_size", "pdf_sha256"}
Full == {"base"} \cup Additions

Init ==
  /\ columns \in {{}, {"base"}, Full}
  /\ pc = [p \in Process |-> "down"]
  /\ todo = [p \in Process |-> {}]
  /\ healthy = FALSE
  /\ ordered \in BOOLEAN

Goto(p, label) == pc' = [pc EXCEPT ![p] = label]

-----------------------------------------------------------------------------

\* A container is started, or started again.  Compose starts the workers only
\* once the API is healthy (depends_on).
StartUpUnhealthy(p) ==
  /\ pc[p] \in {"down", "failed"}
  /\ ordered /\ p # ApiProcess => pc[ApiProcess] # "down"
  /\ Goto(p, "create")
  /\ UNCHANGED <<columns, todo, healthy, ordered>>
StartUpOnce(p) ==
  /\ pc[p] = "down"
  /\ ordered /\ p # ApiProcess => healthy
  /\ Goto(p, "create")
  /\ UNCHANGED <<columns, todo, healthy, ordered>>
StartUp(p) ==
  /\ pc[p] \in {"down", "failed"}
  /\ ordered /\ p # ApiProcess => healthy
  /\ Goto(p, "create")
  /\ UNCHANGED <<columns, todo, healthy, ordered>>

\* create_all looks whether the table is there ...
CheckTable(p) ==
  /\ pc[p] = "create"
  /\ Goto(p, IF columns = {} THEN "table" ELSE "inspect")
  /\ UNCHANGED <<columns, todo, healthy, ordered>>

\* ... and creates it if not; that raises if somebody else just did.
CreateTable(p) ==
  /\ pc[p] = "table"
  /\ columns = {}
  /\ columns' = Full
  /\ Goto(p, "inspect")
  /\ UNCHANGED <<todo, healthy, ordered>>

CreateFails(p) ==
  /\ pc[p] = "table"
  /\ columns # {}
  /\ Goto(p, "failed")
  /\ UNCHANGED <<columns, todo, healthy, ordered>>

\* The end of init_db: the API answers requests, a worker polls.
Served(p) == healthy' = (healthy \/ p = ApiProcess)

\* _add_pdf_fingerprint_columns looks once at the columns.
MissingTogether(existing) ==
  IF Additions \cap existing = {} THEN Additions ELSE {}
MissingUnread(existing) == Additions
Missing(existing) == Additions \ existing

Inspect(p) ==
  /\ pc[p] = "inspect"
  /\ todo' = [todo EXCEPT ![p] = Missing(columns)]
  /\ IF Missing(columns) = {}
     THEN Goto(p, "serving") /\ Served(p)
     ELSE Goto(p, "alter") /\ UNCHANGED healthy
  /\ UNCHANGED <<columns, ordered>>

\* The columns are added in the order of the list additions.
NextColumn(p) ==
  IF "pdf_size" \in todo[p] THEN "pdf_size" ELSE "pdf_sha256"

AddColumn(p) ==
  /\ pc[p] = "alter"
  /\ NextColumn(p) \notin columns
  /\ columns' = columns \cup {NextColumn(p)}
  /\ todo' = [todo EXCEPT ![p] = @ \ {NextColumn(p)}]
  /\ IF todo'[p] = {}
     THEN Goto(p, "serving") /\ Served(p)
     ELSE UNCHANGED <<pc, healthy>>
  /\ UNCHANGED ordered

\* ALTER TABLE raises if another process has added the column since.
AddColumnFails(p) ==
  /\ pc[p] = "alter"
  /\ NextColumn(p) \in columns
  /\ todo' = [todo EXCEPT ![p] = {}]
  /\ Goto(p, "failed")
  /\ UNCHANGED <<columns, healthy, ordered>>

\* A process is killed; what it has added stays.
Kill(p) ==
  /\ pc[p] \notin {"down", "failed"}
  /\ todo' = [todo EXCEPT ![p] = {}]
  /\ Goto(p, "down")
  /\ UNCHANGED <<columns, healthy, ordered>>

Next ==
  \E p \in Process :
    \/ StartUp(p)
    \/ CheckTable(p) \/ CreateTable(p) \/ CreateFails(p)
    \/ Inspect(p) \/ AddColumn(p) \/ AddColumnFails(p)
    \/ Kill(p)

\* A process that is down or failed is started again, and is not killed at
\* the same point for ever.
Fairness ==
  \A p \in Process :
    /\ WF_vars(StartUp(p))
    /\ SF_vars(CheckTable(p))
    /\ SF_vars(CreateTable(p) \/ CreateFails(p))
    /\ SF_vars(Inspect(p))
    /\ SF_vars(AddColumn(p) \/ AddColumnFails(p))

Spec == Init /\ [][Next]_vars /\ Fairness

-----------------------------------------------------------------------------
(* Properties. *)

\* A process serves only when the table has every column that it reads and
\* writes, whoever added them and whoever was killed between two of them.
ServesFullSchema ==
  \A p \in Process : pc[p] = "serving" => columns = Full

\* Under docker-compose.yml no start ever fails: only the API migrates, and it
\* has done so before the first worker looks at the table.  Without this
\* order a start can fail, see the next property.
ComposeStartsClean ==
  ordered => \A p \in Process : pc[p] # "failed"

\* Every process comes to serve again and again, in any order of starts, after
\* any kill in the middle of the migration, and after every start that failed
\* because another process was faster.
EveryoneServes ==
  \A p \in Process : []<>(pc[p] = "serving")

-----------------------------------------------------------------------------
(* What holds in between. *)

TypeOK ==
  /\ columns \subseteq Full
  /\ pc \in [Process -> {"down", "create", "table", "inspect", "alter",
                        "serving", "failed"}]
  /\ todo \in [Process -> SUBSET Additions]
  /\ healthy \in BOOLEAN
  /\ ordered \in BOOLEAN

\* Columns are never taken away, so that what a process found is still there:
\* with what it adds the table is complete.
PlanComplete(p) ==
  /\ pc[p] = "inspect" => columns # {}
  /\ pc[p] = "alter" => todo[p] # {} /\ columns \cup todo[p] = Full

\* In the order of docker-compose.yml the API is alone with the schema until
\* it is healthy, and finds it complete from then on.
AloneUntilHealthy(p) ==
  /\ pc[p] # "failed"
  /\ p # ApiProcess /\ ~ healthy => pc[p] = "down"
  /\ pc[p] = "table" => columns = {}
  /\ pc[p] = "alter" => todo[p] \cap columns = {}

SchemaInv ==
  /\ TypeOK
  /\ columns # {} => "base" \in columns
  /\ healthy => columns = Full
  /\ ServesFullSchema
  /\ \A p \in Process : PlanComplete(p)
  /\ ordered => \A p \in Process : AloneUntilHealthy(p)
=============================================================================
