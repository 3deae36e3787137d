------------------------------- MODULE Startup -------------------------------
(***************************************************************************)
(* How the processes of a deployment start on one PostgreSQL database      *)
(* (scripts/start.sh, docker-compose.yml, app/migrate.py, migrations/,     *)
(* app/repositories/session.py, app/api/app.py, app/seed.py): the schema   *)
(* is migrated or created, the synthetic documents are seeded, and the     *)
(* process serves.  Processes start, crash and start again in any order.   *)
(*                                                                         *)
(* A migration and a create_all read the schema first and change it later, *)
(* each in one transaction; DDL that has lost a race fails.  Seeding is    *)
(* one transaction too, cut after the look at the table and after every    *)
(* INSERT, which waits for a rival's uncommitted row with its id.          *)
(***************************************************************************)
EXTENDS Integers, FiniteSets, Sequences

CONSTANTS
    Procs,
    Role,       \* what each process runs
    Files,      \* the sorted paths of the fixture directories
    Posted,     \* names of the documents clients post
    MaxStarts   \* bound on the starts of a process

Roles == {"image",   \* Dockerfile: start.sh, that is migrate and then the app, which
                     \* looks for missing tables (render.yaml: does not look)
          "migrate", \* compose: the one-shot migration
          "api",     \* compose: the app, AUTO_CREATE_SCHEMA=false
          "worker",  \* compose: worker_process
          "local"}   \* README: the app alone with SEED_ON_START=true, nothing
                     \* migrated, on the PostgreSQL database of the others

ASSUME StartupAssumption ==
    /\ Role \in [Procs -> Roles]
    /\ Files \in Seq(STRING)
    /\ \A i, j \in DOMAIN Files : Files[i] = Files[j] => i = j
    /\ \A i \in DOMAIN Files : Files[i] \notin Posted
    /\ MaxStarts \in Nat

VARIABLES
    tables,     \* of each table that is there, its unique columns and parents
    revision,   \* alembic_version: "none", "0001" or "0002"
    records,    \* has crm_record rows that are older than revision 0002?
    document,   \* the committed rows of the document table
    proc,       \* what each process is doing
    starts      \* how often each process was started

vars == <<tables, revision, records, document, proc, starts>>

Table(unique, parents) == [unique |-> unique, parents |-> parents]

\* Mutant of Models: the model has not got the constraint of revision 0002.
ModelsKeyless ==
    [ crm_record |-> Table({"idempotency_key"}, {}),
      document   |-> Table({}, {}),
      extraction |-> Table({}, {"document"}),
      job        |-> Table({}, {"document"}),
      approval   |-> Table({}, {"document", "extraction"}),
      crm_write  |-> Table({"idempotency_key"}, {"document", "extraction"}),
      event      |-> Table({}, {"document", "extraction"}),
      validation_result |-> Table({}, {"extraction"}) ]

\* Base.metadata: what create_all creates, and what the code needs.
Models ==
    [ document   |-> Table({}, {}),
      extraction |-> Table({}, {"document"}),
      approval   |-> Table({}, {"document", "extraction"}),
      crm_write  |-> Table({"idempotency_key"}, {"document", "extraction"}),
      job        |-> Table({}, {"document"}),
      crm_record |-> Table({"idempotency_key", "business_key"}, {}),
      validation_result |-> Table({}, {"extraction"}),
      event      |-> Table({}, {"document", "extraction"}) ]

NoTables == [t \in {} |-> Table({}, {})]

\* Revision 0001: the tables it creates.
Initial ==
    [ crm_record |-> Table({"idempotency_key"}, {}),
      document   |-> Table({}, {}),
      extraction |-> Table({}, {"document"}),
      job        |-> Table({}, {"document"}),
      approval   |-> Table({}, {"document", "extraction"}),
      crm_write  |-> Table({"idempotency_key"}, {"document", "extraction"}),
      event      |-> Table({}, {"document", "extraction"}),
      validation_result |-> Table({}, {"extraction"}) ]

\* Revision 0002: crm_record gets the column business_key, unique.
BusinessKeyed(schema) ==
    [schema EXCEPT !["crm_record"].unique = @ \cup {"business_key"}]

Revisions == {"none", "0001", "0002"}
Pcs == {"down", "migrate", "migrating", "create", "creating",
        "seed", "seeding", "serving", "done", "failed"}

\* A row of the document table, with the extraction job that is queued in the
\* same transaction: its id and the file it came from.
\* A process: where it is, the revision and the missing tables it read, and
\* the documents it has inserted and not committed.
Down == [pc |-> "down", read |-> "none", missing |-> {}, mine |-> {}]

FileNames == {Files[i] : i \in DOMAIN Files}

\* Mutant of SeedId: create_document draws a random id.
FreshId(p, file) == <<p, file>>

\* seeded_document_id: the same for every process.
SeedId(p, file) == <<"seed", file>>

Row(p, file) == [id |-> SeedId(p, file), file |-> file]

\* A database that is new, was made by create_all, or is at a revision.
Init ==
    /\ \/ tables = NoTables /\ revision = "none" /\ document = {} /\ records = FALSE
       \/ /\ document \in {{}, {[id |-> <<"seed", f>>, file |-> f] : f \in FileNames}}
          /\ records \in BOOLEAN
          /\ \/ tables = Models /\ revision \in {"none", "0002"}
             \/ tables = Initial /\ revision = "0001"
    /\ proc = [p \in Procs |-> Down]
    /\ starts = [p \in Procs |-> 0]

-----------------------------------------------------------------------------
Goes(p, pc) == [proc EXCEPT ![p] = [Down EXCEPT !.pc = pc]]

\* The first thing a process does: the command of its service.
First(role) ==
    CASE role \in {"image", "migrate"} -> "migrate"
      [] role = "api"                  -> "seed"
      [] role = "worker"               -> "serving"
      [] role = "local"                -> "create"

\* depends_on: migrate, condition: service_completed_successfully.
MigrationCompleted == \E m \in Procs : Role[m] = "migrate" /\ proc[m].pc = "done"

Start(p) ==
    /\ proc[p].pc \in {"down", "failed"}
    /\ starts[p] < MaxStarts
    /\ Role[p] \in {"api", "worker"} => MigrationCompleted
    /\ starts' = [starts EXCEPT ![p] = @ + 1]
    /\ proc' = Goes(p, First(Role[p]))
    /\ UNCHANGED <<tables, revision, records, document>>

\* alembic upgrade head reads the revision of the database.
MigrateRead(p) ==
    /\ proc[p].pc = "migrate"
    /\ proc' = [proc EXCEPT ![p].pc = "migrating", ![p].read = revision]
    /\ UNCHANGED <<tables, revision, records, document, starts>>

\* Can the upgrade from the revision that was read be applied to the database
\* as it is now?  A table or column that is there already is an error, and so
\* is a NOT NULL column without a default in a table that has rows.
Upgradable(read) ==
    CASE read = "none" -> DOMAIN tables = {}
      [] read = "0001" -> revision = "0001" /\ ~records
      [] read = "0002" -> TRUE

Upgraded(read) ==
    CASE read = "none" -> BusinessKeyed(Initial)
      [] read = "0001" -> BusinessKeyed(tables)
      [] read = "0002" -> tables

MigrateApply(p) ==
    /\ proc[p].pc = "migrating"
    /\ Upgradable(proc[p].read)
    /\ tables' = Upgraded(proc[p].read)
    /\ revision' = "0002"
    /\ proc' = Goes(p, IF Role[p] = "image" THEN "create" ELSE "done")
    /\ UNCHANGED <<records, document, starts>>

\* Mutant of AfterFailedMigration: start.sh without its set -e.
StartedAnyway(p) == IF Role[p] = "image" THEN "create" ELSE "failed"

\* set -e, and compose's service_completed_successfully.
AfterFailedMigration(p) == "failed"

MigrateFails(p) ==
    /\ proc[p].pc = "migrating"
    /\ ~Upgradable(proc[p].read)
    /\ proc' = Goes(p, AfterFailedMigration(p))
    /\ UNCHANGED <<tables, revision, records, document, starts>>

\* create_all looks for the tables that are missing ...
CreateRead(p) ==
    /\ proc[p].pc = "create"
    /\ proc' = [proc EXCEPT ![p].pc = "creating",
                            ![p].missing = DOMAIN Models \ DOMAIN tables]
    /\ UNCHANGED <<tables, revision, records, document, starts>>

\* ... and creates them, unless somebody else has.  A table that is there is
\* left as it is.
CreateApply(p) ==
    /\ proc[p].pc = "creating"
    /\ proc[p].missing \cap DOMAIN tables = {}
    /\ tables' = [t \in DOMAIN tables \cup proc[p].missing |->
                    IF t \in DOMAIN tables THEN tables[t] ELSE Models[t]]
    /\ proc' = Goes(p, "seed")
    /\ UNCHANGED <<revision, records, document, starts>>

CreateFails(p) ==
    /\ proc[p].pc = "creating"
    /\ proc[p].missing \cap DOMAIN tables # {}
    /\ proc' = Goes(p, "failed")
    /\ UNCHANGED <<tables, revision, records, document, starts>>

-----------------------------------------------------------------------------
\* seed_documents: nothing to do if there is any document.
SeedRead(p) ==
    /\ proc[p].pc = "seed"
    /\ proc' = IF document = {} THEN [proc EXCEPT ![p].pc = "seeding"]
                                ELSE Goes(p, "serving")
    /\ UNCHANGED <<tables, revision, records, document, starts>>

\* Mutant of NextFile: glob's order, which differs from process to process.
AnyFile(mine, i) == TRUE

\* sorted(paths): a file follows those before it.
NextFile(mine, i) == {r.file : r \in mine} = {Files[k] : k \in 1 .. i - 1}

\* The file whose document p is to insert.
Inserts(p, i) ==
    /\ proc[p].pc = "seeding"
    /\ i \in DOMAIN Files
    /\ Row(p, Files[i]) \notin proc[p].mine
    /\ NextFile(proc[p].mine, i)

HasId(rows, id) == \E r \in rows : r.id = id

\* The INSERT waits while a rival that has inserted the id has not ended.
Held(p, q, i) == p # q /\ HasId(proc[q].mine, SeedId(p, Files[i]))

SeedInsert(p) ==
    /\ \E i \in DOMAIN Files :
         /\ Inserts(p, i)
         /\ \A q \in Procs : ~Held(p, q, i)
         /\ ~HasId(document, SeedId(p, Files[i]))
         /\ proc' = [proc EXCEPT ![p].mine = @ \cup {Row(p, Files[i])}]
    /\ UNCHANGED <<tables, revision, records, document, starts>>

\* The id is taken: everything is rolled back, and the app does not start.
SeedConflict(p) ==
    /\ \E i \in DOMAIN Files :
         Inserts(p, i) /\ HasId(document, SeedId(p, Files[i]))
    /\ proc' = Goes(p, "failed")
    /\ UNCHANGED <<tables, revision, records, document, starts>>

\* Mutant of Committed: the session is closed without a commit.
Forgotten(p) == document

Committed(p) == document \cup proc[p].mine

SeedCommit(p) ==
    /\ proc[p].pc = "seeding"
    /\ {r.file : r \in proc[p].mine} = FileNames
    /\ document' = Committed(p)
    /\ proc' = Goes(p, "serving")
    /\ UNCHANGED <<tables, revision, records, starts>>

\* A client posts a document to a process that serves the API.
Post(p, name) ==
    /\ proc[p].pc = "serving"
    /\ Role[p] \in {"image", "api", "local"}
    /\ document' = document \cup {[id |-> <<"posted", name>>, file |-> name]}
    /\ UNCHANGED <<tables, revision, records, proc, starts>>

\* The process is killed; what it has not committed is rolled back.
Crash(p) ==
    /\ proc[p].pc \notin {"down", "done", "failed"}
    /\ proc' = Goes(p, "down")
    /\ UNCHANGED <<tables, revision, records, document, starts>>

\* What a process does to get started.
Step(p) ==
    \/ MigrateRead(p)
    \/ MigrateApply(p)
    \/ MigrateFails(p)
    \/ CreateRead(p)
    \/ CreateApply(p)
    \/ CreateFails(p)
    \/ SeedRead(p)
    \/ SeedInsert(p)
    \/ SeedConflict(p)
    \/ SeedCommit(p)

Next ==
    \E p \in Procs :
        \/ Start(p)
        \/ Step(p)
        \/ \E name \in Posted : Post(p, name)
        \/ Crash(p)

Spec == Init /\ [][Next]_vars

\* A process that was started runs.
FairSpec == Spec /\ \A p \in Procs : WF_vars(Step(p))

-----------------------------------------------------------------------------
ProcState == [ pc      : Pcs,
               read    : Revisions,
               missing : SUBSET DOMAIN Models,
               mine    : SUBSET [id : {"seed"} \X FileNames, file : FileNames] ]

\* Every variable has its type, and the schema is never a mixture: it is
\* empty, that of revision 0001 or that of the models.
TypeOK ==
    /\ tables \in {NoTables, Initial, Models}
    /\ revision \in Revisions
    /\ records \in BOOLEAN
    /\ document \subseteq [id : {"seed", "posted"} \X (FileNames \cup Posted),
                           file : FileNames \cup Posted]
    /\ proc \in [Procs -> ProcState]
    /\ starts \in [Procs -> 0 .. MaxStarts]

\* However many processes seed at once, crash or start again, the synthetic
\* documents are all there, once each, or none of them is.
\* (seed_documents, seeded_document_id, session_scope)
SeededTogether ==
    LET seeded == {r \in document : r.file \in FileNames}
    IN  \/ seeded = {}
        \/ \A f \in FileNames : \E r \in seeded :
             r.file = f /\ \A s \in seeded : s.file = f => s = r

WaitsFor(p, q) == \E i \in DOMAIN Files : Inserts(p, i) /\ Held(p, q, i)

\* A seeding process that waits for a rival has inserted nothing a rival
\* could wait for: two of them never wait for each other.  (sorted(paths))
WaitersHoldNothing ==
    \A p, q \in Procs : WaitsFor(p, q) => proc[p].mine = {}

\* A process of a deployment only ever serves on the schema of the models,
\* whatever migrations, restarts and rivals came before.
\* (docs/architecture.md:306 "Alembic owns the schema"; start.sh, compose)
ServesMigratedSchema ==
    \A p \in Procs : (Role[p] # "local" /\ proc[p].pc = "serving") => tables = Models

\* An app that seeds on its start never shows an empty review screen.
\* (_lifespan; README.md:56 "seeded with all thirty synthetic documents")
ServingIsSeeded ==
    \A p \in Procs :
        (Role[p] # "worker" /\ proc[p].pc = "serving" /\ Files # << >>) => document # {}

Starting == Pcs \ {"down", "serving", "done", "failed"}

\* A process that is started comes to serve, or fails where its host can see
\* it: nobody waits for ever on a rival's rows.
StartsOrFails == \A p \in Procs : proc[p].pc \in Starting ~> proc[p].pc \notin Starting
=============================================================================
