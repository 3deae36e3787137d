---------------------------- MODULE StartupProofs ----------------------------
(***************************************************************************)
(* Proofs about Startup: the synthetic documents are seeded together, no   *)
(* two seeders wait for each other, and what is deployed serves on the     *)
(* schema of the models.                                                   *)
(***************************************************************************)
EXTENDS Startup, TLAPS

TableNames == {"document", "extraction", "approval", "crm_write", "job",
               "crm_record", "validation_result", "event"}

\* The three schemas: two with all the tables, which revision 0002 leads from
\* one to the other, and one with none.
LEMMA Schemas ==
    /\ DOMAIN Models = TableNames
    /\ DOMAIN Initial = TableNames
    /\ DOMAIN NoTables = {}
    /\ BusinessKeyed(Initial) = Models
    /\ Initial # Models
    /\ TableNames # {}
<1>1. DOMAIN Models = TableNames /\ TableNames # {}
  BY DEF Models, TableNames
<1>2. DOMAIN Initial = TableNames
  BY DEF Initial, TableNames
<1>3. DOMAIN NoTables = {}
  BY DEF NoTables
<1>4. Initial # Models
  <2>1. Initial["crm_record"].unique = {"idempotency_key"}
    BY DEF Initial, Table
  <2>2. "business_key" \in Models["crm_record"].unique
    BY DEF Models, Table
  <2> QED
    BY <2>1, <2>2
<1>5. BusinessKeyed(Initial) = Models
  <2> DEFINE keyed == [Initial EXCEPT !["crm_record"].unique = @ \cup {"business_key"}]
  <2>1. DOMAIN keyed = TableNames
    BY <1>2
  <2>2. ASSUME NEW t \in TableNames \ {"crm_record"} PROVE keyed[t] = Models[t]
    <3>1. keyed[t] = Initial[t]
      BY <1>2
    <3>2. Initial[t] = Models[t]
      BY DEF Initial, Models, TableNames
    <3> QED
      BY <3>1, <3>2
  <2>3. keyed["crm_record"] = Models["crm_record"]
    <3>1. keyed["crm_record"] =
            [Initial["crm_record"] EXCEPT !.unique = @ \cup {"business_key"}]
      BY <1>2 DEF TableNames
    <3>2. Initial["crm_record"] = [unique |-> {"idempotency_key"}, parents |-> {}]
      BY DEF Initial, Table
    <3>3. Models["crm_record"] =
            [unique |-> {"idempotency_key", "business_key"}, parents |-> {}]
      BY DEF Models, Table
    <3> HIDE DEF keyed
    <3> QED
      BY <3>1, <3>2, <3>3
  <2>4. ASSUME NEW t \in TableNames PROVE keyed[t] = Models[t]
    <3> HIDE DEF keyed
    <3> QED
      BY <2>2, <2>3
  <2>5. keyed = [t \in DOMAIN keyed |-> keyed[t]]
    OBVIOUS
  <2>6. Models = [t \in DOMAIN Models |-> Models[t]]
    BY DEF Models
  <2> HIDE DEF keyed
  <2>7. keyed = Models
    BY <1>1, <2>1, <2>4, <2>5, <2>6
  <2> QED
    BY <2>7 DEF BusinessKeyed, keyed
<1> QED
  BY <1>1, <1>2, <1>3, <1>4, <1>5

-----------------------------------------------------------------------------
SeedRows == {[id |-> <<"seed", f>>, file |-> f] : f \in FileNames}

\* The revision tells the schema.
SchemaOK ==
    /\ revision = "0002" => tables = Models
    /\ revision = "0001" => tables = Initial
    /\ revision = "none" => tables # Initial

\* Past its migration.
Migrated == {"create", "creating", "seed", "seeding", "serving", "done"}

\* What is known of a process p in state x: it is where its role can be, what
\* it read still holds, and what it has inserted begins with the first file.
Fine(p, x) ==
    /\ x.pc \in {"create", "creating"} => Role[p] \in {"image", "local"}
    /\ x.pc = "done" => Role[p] = "migrate"
    /\ x.pc = "serving" => Role[p] # "migrate"
    /\ x.pc \in {"migrate", "migrating"} => Role[p] \in {"image", "migrate"}
    /\ x.pc \in {"seed", "seeding"} => Role[p] \in {"image", "api", "local"}
    /\ Role[p] # "local" /\ x.pc \in Migrated => revision = "0002"
    /\ x.pc = "migrating" /\ x.read = "0002" => revision = "0002"
    /\ x.pc = "creating" => \/ x.missing = {} /\ DOMAIN tables = TableNames
                            \/ x.missing = TableNames
    /\ x.mine \subseteq SeedRows
    /\ x.mine # {} => x.pc = "seeding" /\ Row(p, Files[1]) \in x.mine
    /\ Role[p] # "worker" /\ x.pc = "serving" /\ Files # << >> => document # {}

\* At most one process has inserted seeds it has not committed.
OneSeeder ==
    \A p, q \in Procs : p # q => proc[p].mine = {} \/ proc[q].mine = {}

SeedsOK == {r \in document : r.file \in FileNames} \in {{}, SeedRows}

IInv ==
    /\ TypeOK
    /\ SchemaOK
    /\ \A p \in Procs : Fine(p, proc[p])
    /\ OneSeeder
    /\ SeedsOK

-----------------------------------------------------------------------------
LEMMA DownIsFine ==
    /\ Down \in ProcState
    /\ \A p : Fine(p, Down)
<1>1. Down \in ProcState
  BY DEF Down, ProcState, Pcs, Revisions
<1>2. ASSUME NEW p PROVE Fine(p, Down)
  BY DEF Fine, Down, Migrated
<1> QED
  BY <1>1, <1>2

\* A process goes somewhere, with nothing in its hands.
LEMMA GoesIsTyped ==
    ASSUME NEW pc \in Pcs
    PROVE  [Down EXCEPT !.pc = pc] =
             [pc |-> pc, read |-> "none", missing |-> {}, mine |-> {}]
           /\ [Down EXCEPT !.pc = pc] \in ProcState
BY DEF Down, ProcState, Revisions

LEMMA InitIInv == ASSUME Init PROVE IInv
<1> USE StartupAssumption
<1>1. tables \in {NoTables, Initial, Models} /\ SchemaOK
  BY Schemas DEF Init, SchemaOK
<1>2. document \in {{}, SeedRows}
  BY DEF Init, SeedRows
<1>3. SeedRows \subseteq [id : {"seed", "posted"} \X (FileNames \cup Posted),
                          file : FileNames \cup Posted]
  BY DEF SeedRows
<1>4. \A r \in SeedRows : r.file \in FileNames
  BY DEF SeedRows
<1>5. \A p \in Procs : proc[p] = Down
  BY DEF Init
<1>6. TypeOK
  <2>1. proc \in [Procs -> ProcState]
    BY DownIsFine DEF Init
  <2>2. revision \in Revisions /\ records \in BOOLEAN
    BY DEF Init, Revisions
  <2>3. starts \in [Procs -> 0 .. MaxStarts]
    BY DEF Init
  <2> QED
    BY <1>1, <1>2, <1>3, <2>1, <2>2, <2>3 DEF TypeOK
<1>7. \A p \in Procs : Fine(p, proc[p])
  BY <1>5, DownIsFine
<1>8. OneSeeder
  BY <1>5 DEF OneSeeder, Down
<1>9. SeedsOK
  BY <1>2, <1>4 DEF SeedsOK
<1> QED
  BY <1>1, <1>6, <1>7, <1>8, <1>9 DEF IInv

\* A step that moves one process, and changes no table, keeps the invariant if
\* the process is fine where it comes to and inserts out of nobody's way.
LEMMA OneMoves ==
    ASSUME IInv, NEW p \in Procs, NEW new \in ProcState,
           proc' = [proc EXCEPT ![p] = new], Fine(p, new),
           UNCHANGED <<tables, revision, records, document>>,
           starts' \in [Procs -> 0 .. MaxStarts],
           \/ new.mine = {}
           \/ proc[p].mine # {}
           \/ \A q \in Procs \ {p} : proc[q].mine = {}
    PROVE  IInv'
<1>1. proc' \in [Procs -> ProcState] /\ proc'[p] = new
      /\ \A q \in Procs \ {p} : proc'[q] = proc[q]
  BY DEF IInv, TypeOK
<1>2. TypeOK'
  BY <1>1 DEF IInv, TypeOK
<1>3. SchemaOK' /\ SeedsOK'
  BY DEF IInv, SchemaOK, SeedsOK
<1>4. ASSUME NEW q \in Procs PROVE Fine(q, proc[q])'
  <2>1. Fine(q, proc'[q])
    BY <1>1 DEF IInv
  <2> QED
    BY <2>1 DEF Fine, Row, SeedId
<1>5. OneSeeder'
  BY <1>1 DEF IInv, OneSeeder
<1> QED
  BY <1>2, <1>3, <1>4, <1>5 DEF IInv

\* The process goes to pc, with nothing in its hands.
LEMMA OneGoes ==
    ASSUME IInv, NEW p \in Procs, NEW pc \in Pcs,
           proc' = Goes(p, pc),
           UNCHANGED <<tables, revision, records, document>>,
           starts' \in [Procs -> 0 .. MaxStarts],
           pc = "create" => Role[p] \in {"image", "local"},
           pc = "creating" => FALSE,
           pc = "done" => Role[p] = "migrate",
           pc = "serving" => Role[p] # "migrate",
           pc \in {"migrate", "migrating"} => Role[p] \in {"image", "migrate"},
           pc \in {"seed", "seeding"} => Role[p] \in {"image", "api", "local"},
           Role[p] # "local" /\ pc \in Migrated => revision = "0002",
           Role[p] # "worker" /\ pc = "serving" /\ Files # << >> => document # {}
    PROVE  IInv'
<1> DEFINE new == [Down EXCEPT !.pc = pc]
<1>1. /\ new = [pc |-> pc, read |-> "none", missing |-> {}, mine |-> {}]
      /\ new \in ProcState
  BY GoesIsTyped
<1>2. proc' = [proc EXCEPT ![p] = new]
  BY DEF Goes
<1> HIDE DEF new
<1>3. Fine(p, new)
  BY <1>1 DEF Fine
<1> QED
  BY <1>1, <1>2, <1>3, OneMoves

LEMMA MigrationCompletedAt0002 ==
    ASSUME IInv, MigrationCompleted PROVE revision = "0002"
<1>1. PICK m \in Procs : Role[m] = "migrate" /\ proc[m].pc = "done"
  BY DEF MigrationCompleted
<1> QED
  BY <1>1 DEF IInv, Fine, Migrated

LEMMA StartStep == ASSUME IInv, NEW p \in Procs, Start(p) PROVE IInv'
<1>1. Role[p] \in Roles
  BY StartupAssumption
<1>2. starts' \in [Procs -> 0 .. MaxStarts]
  <2>1. starts[p] \in 0 .. MaxStarts /\ starts[p] < MaxStarts /\ MaxStarts \in Nat
    BY StartupAssumption DEF Start, IInv, TypeOK
  <2>2. starts[p] + 1 \in 0 .. MaxStarts
    BY <2>1
  <2> QED
    BY <2>2 DEF Start, IInv, TypeOK
<1>3. Role[p] \in {"api", "worker"} => revision = "0002"
  BY MigrationCompletedAt0002 DEF Start
<1>4. UNCHANGED <<tables, revision, records, document>>
      /\ proc' = Goes(p, First(Role[p]))
  BY DEF Start
<1>5. CASE Role[p] \in {"image", "migrate"}
  <2>1. First(Role[p]) = "migrate"
    BY <1>5 DEF First
  <2> QED
    BY <1>2, <1>4, <1>5, <2>1, OneGoes DEF Pcs, Migrated
<1>6. CASE Role[p] = "api"
  <2>1. First(Role[p]) = "seed"
    BY <1>6 DEF First
  <2> QED
    BY <1>2, <1>3, <1>4, <1>6, <2>1, OneGoes DEF Pcs, Migrated
<1>7. CASE Role[p] = "worker"
  <2>1. First(Role[p]) = "serving"
    BY <1>7 DEF First
  <2> QED
    BY <1>2, <1>3, <1>4, <1>7, <2>1, OneGoes DEF Pcs, Migrated
<1>8. CASE Role[p] = "local"
  <2>1. First(Role[p]) = "create"
    BY <1>8 DEF First
  <2> QED
    BY <1>2, <1>4, <1>8, <2>1, OneGoes DEF Pcs, Migrated
<1> QED
  BY <1>1, <1>5, <1>6, <1>7, <1>8 DEF Roles

LEMMA FailStep ==
    ASSUME IInv, NEW p \in Procs,
           MigrateFails(p) \/ CreateFails(p) \/ SeedConflict(p) \/ Crash(p)
    PROVE  IInv'
<1>1. UNCHANGED <<tables, revision, records, document, starts>>
  BY DEF MigrateFails, CreateFails, SeedConflict, Crash
<1>2. starts' \in [Procs -> 0 .. MaxStarts]
  BY <1>1 DEF IInv, TypeOK
<1>3. PICK pc \in {"failed", "down"} : proc' = Goes(p, pc)
  BY DEF MigrateFails, AfterFailedMigration, CreateFails, SeedConflict, Crash
<1>4. pc \in Pcs
  BY <1>3 DEF Pcs
<1> QED
  BY <1>1, <1>2, <1>3, <1>4, OneGoes DEF Migrated

\* What a process reads of the schema holds when it reads it.
LEMMA ReadStep ==
    ASSUME IInv, NEW p \in Procs, MigrateRead(p) \/ CreateRead(p)
    PROVE  IInv'
<1>1. UNCHANGED <<tables, revision, records, document>>
      /\ starts' \in [Procs -> 0 .. MaxStarts]
  BY DEF MigrateRead, CreateRead, IInv, TypeOK
<1>2. proc[p] \in ProcState /\ Fine(p, proc[p]) /\ revision \in Revisions
  BY DEF IInv, TypeOK
<1>3. CASE MigrateRead(p)
  <2> DEFINE new == [proc[p] EXCEPT !.pc = "migrating", !.read = revision]
  <2>1. proc' = [proc EXCEPT ![p] = new]
    BY <1>3 DEF MigrateRead, IInv, TypeOK
  <2>2. /\ new \in ProcState
        /\ new.pc = "migrating" /\ new.read = revision
        /\ new.mine = proc[p].mine
    BY <1>2 DEF ProcState, Pcs
  <2>3. proc[p].mine = {} /\ Role[p] \in {"image", "migrate"}
    BY <1>2, <1>3 DEF MigrateRead, Fine
  <2> HIDE DEF new
  <2>4. Fine(p, new)
    BY <2>2, <2>3 DEF Fine, Migrated
  <2> QED
    BY <1>1, <2>1, <2>2, <2>3, <2>4, OneMoves
<1>4. CASE CreateRead(p)
  <2> DEFINE gap == DOMAIN Models \ DOMAIN tables
             new == [proc[p] EXCEPT !.pc = "creating", !.missing = gap]
  <2>1. proc' = [proc EXCEPT ![p] = new]
    BY <1>4 DEF CreateRead, IInv, TypeOK
  <2>2. /\ new \in ProcState
        /\ new.pc = "creating" /\ new.missing = gap
        /\ new.mine = proc[p].mine
    BY <1>2 DEF ProcState, Pcs
  <2>3. /\ proc[p].mine = {} /\ Role[p] \in {"image", "local"}
        /\ Role[p] # "local" => revision = "0002"
    BY <1>2, <1>4 DEF CreateRead, Fine, Migrated
  <2>4. \/ gap = {} /\ DOMAIN tables = TableNames
        \/ gap = TableNames
    BY Schemas DEF IInv, TypeOK
  <2> HIDE DEF new, gap
  <2>5. Fine(p, new)
    BY <2>2, <2>3, <2>4 DEF Fine
  <2> QED
    BY <1>1, <2>1, <2>2, <2>3, <2>5, OneMoves
<1> QED
  BY <1>3, <1>4

LEMMA SeedReadStep == ASSUME IInv, NEW p \in Procs, SeedRead(p) PROVE IInv'
<1>1. UNCHANGED <<tables, revision, records, document>>
      /\ starts' \in [Procs -> 0 .. MaxStarts]
  BY DEF SeedRead, IInv, TypeOK
<1>2. proc[p] \in ProcState /\ Fine(p, proc[p]) /\ proc[p].pc = "seed"
  BY DEF SeedRead, IInv, TypeOK
<1>3. /\ proc[p].mine = {} /\ Role[p] \in {"image", "api", "local"}
      /\ Role[p] # "local" => revision = "0002"
  BY <1>2 DEF Fine, Migrated
<1>4. CASE document = {}
  <2> DEFINE new == [proc[p] EXCEPT !.pc = "seeding"]
  <2>1. proc' = [proc EXCEPT ![p] = new]
    BY <1>4 DEF SeedRead, IInv, TypeOK
  <2>2. /\ new \in ProcState /\ new.pc = "seeding"
        /\ new.mine = proc[p].mine
    BY <1>2 DEF ProcState, Pcs
  <2> HIDE DEF new
  <2>3. Fine(p, new)
    BY <1>3, <2>2 DEF Fine
  <2> QED
    BY <1>1, <1>3, <2>1, <2>2, <2>3, OneMoves
<1>5. CASE document # {}
  <2>1. proc' = Goes(p, "serving") /\ "serving" \in Pcs
    BY <1>5 DEF SeedRead, Pcs
  <2> QED
    BY <1>1, <1>3, <1>5, <2>1, OneGoes
<1> QED
  BY <1>4, <1>5

-----------------------------------------------------------------------------
\* A migration ends: whatever revision it read, the schema is the models'.
LEMMA MigrateStep == ASSUME IInv, NEW p \in Procs, MigrateApply(p) PROVE IInv'
<1>1. /\ proc[p].pc = "migrating" /\ Upgradable(proc[p].read)
      /\ tables' = Upgraded(proc[p].read) /\ revision' = "0002"
      /\ UNCHANGED <<records, document, starts>>
  BY DEF MigrateApply
<1>2. proc[p].read \in Revisions
  BY DEF IInv, TypeOK, ProcState
<1>3. tables' = Models
  <2>1. CASE proc[p].read = "none"
    BY <1>1, <2>1, Schemas DEF Upgraded
  <2>2. CASE proc[p].read = "0001"
    <3>1. revision = "0001"
      BY <1>1, <2>2 DEF Upgradable
    <3>2. tables = Initial
      BY <3>1 DEF IInv, SchemaOK
    <3> QED
      BY <1>1, <2>2, <3>2, Schemas DEF Upgraded
  <2>3. CASE proc[p].read = "0002"
    <3>1. revision = "0002"
      BY <1>1, <2>3 DEF IInv, Fine
    <3>2. tables = Models
      BY <3>1 DEF IInv, SchemaOK
    <3> QED
      BY <1>1, <2>3, <3>2 DEF Upgraded
  <2> QED
    BY <1>2, <2>1, <2>2, <2>3 DEF Revisions
<1>4. PICK pc \in {"create", "done"} :
         /\ proc' = Goes(p, pc)
         /\ pc = "create" => Role[p] = "image"
         /\ pc = "done" => Role[p] # "image"
  BY DEF MigrateApply
<1> DEFINE new == [Down EXCEPT !.pc = pc]
<1>5. /\ new = [pc |-> pc, read |-> "none", missing |-> {}, mine |-> {}]
      /\ new \in ProcState
  BY GoesIsTyped DEF Pcs
<1>6. proc' = [proc EXCEPT ![p] = new]
  BY <1>4 DEF Goes
<1> HIDE DEF new
<1>7. proc' \in [Procs -> ProcState] /\ proc'[p] = new
      /\ \A q \in Procs \ {p} : proc'[q] = proc[q]
  BY <1>5, <1>6 DEF IInv, TypeOK
<1>8. Role[p] \in {"image", "migrate"}
  BY <1>1 DEF IInv, Fine
<1>9. TypeOK'
  BY <1>1, <1>3, <1>7 DEF IInv, TypeOK, Revisions
<1>10. SchemaOK' /\ SeedsOK'
  BY <1>1, <1>3 DEF IInv, SchemaOK, SeedsOK
<1>11. ASSUME NEW q \in Procs PROVE Fine(q, proc[q])'
  <2>1. DOMAIN tables' = TableNames
    BY <1>3, Schemas
  <2>2. CASE q = p
    BY <1>1, <1>4, <1>5, <1>7, <1>8, <2>2 DEF Fine, Migrated
  <2>3. CASE q # p
    <3>1. Fine(q, proc[q]) /\ proc'[q] = proc[q]
      BY <1>7, <2>3 DEF IInv
    <3> QED
      BY <1>1, <2>1, <3>1 DEF Fine, Row, SeedId
  <2> QED
    BY <2>2, <2>3
<1>12. OneSeeder'
  BY <1>5, <1>7 DEF IInv, OneSeeder
<1> QED
  BY <1>9, <1>10, <1>11, <1>12 DEF IInv

\* create_all ends: it has changed nothing, or made all the tables.
LEMMA CreateStep == ASSUME IInv, NEW p \in Procs, CreateApply(p) PROVE IInv'
<1>1. /\ proc[p].pc = "creating" /\ proc[p].missing \cap DOMAIN tables = {}
      /\ tables' = [t \in DOMAIN tables \cup proc[p].missing |->
                      IF t \in DOMAIN tables THEN tables[t] ELSE Models[t]]
      /\ UNCHANGED <<revision, records, document, starts>>
      /\ proc' = Goes(p, "seed")
  BY DEF CreateApply
<1>2. Fine(p, proc[p]) /\ SchemaOK /\ tables \in {NoTables, Initial, Models}
  BY DEF IInv, TypeOK
<1>3. tables' = tables \/ (tables = NoTables /\ tables' = Models)
  <2>1. CASE proc[p].missing = {}
    <3>1. tables = [t \in DOMAIN tables |-> tables[t]]
      BY <1>2 DEF NoTables, Initial, Models
    <3> QED
      BY <1>1, <2>1, <3>1
  <2>2. CASE proc[p].missing = TableNames
    <3>1. tables = NoTables
      BY <1>1, <1>2, <2>2, Schemas
    <3>2. tables' = [t \in TableNames |-> Models[t]]
      BY <1>1, <2>2, <3>1, Schemas
    <3>3. Models = [t \in DOMAIN Models |-> Models[t]]
      BY DEF Models
    <3> QED
      BY <3>1, <3>2, <3>3, Schemas
  <2> QED
    BY <1>1, <1>2, <2>1, <2>2 DEF Fine
<1>4. NoTables # Initial /\ NoTables # Models
  BY Schemas
<1>5. SchemaOK' /\ SeedsOK'
  <2>1. SeedsOK'
    BY <1>1 DEF IInv, SeedsOK
  <2>2. revision \in Revisions
    BY DEF IInv, TypeOK
  <2> QED
    BY <1>1, <1>2, <1>3, <1>4, <2>1, <2>2, Schemas DEF SchemaOK, Revisions
<1> DEFINE new == [Down EXCEPT !.pc = "seed"]
<1>6. /\ new = [pc |-> "seed", read |-> "none", missing |-> {}, mine |-> {}]
      /\ new \in ProcState
  BY GoesIsTyped DEF Pcs
<1>7. proc' = [proc EXCEPT ![p] = new]
  BY <1>1 DEF Goes
<1> HIDE DEF new
<1>8. proc' \in [Procs -> ProcState] /\ proc'[p] = new
      /\ \A q \in Procs \ {p} : proc'[q] = proc[q]
  BY <1>6, <1>7 DEF IInv, TypeOK
<1>9. TypeOK'
  BY <1>1, <1>2, <1>3, <1>8 DEF IInv, TypeOK
<1>10. ASSUME NEW q \in Procs PROVE Fine(q, proc[q])'
  <2>1. DOMAIN tables = TableNames => DOMAIN tables' = TableNames
    BY <1>3, Schemas
  <2>2. CASE q = p
    <3>1. /\ Role[p] \in {"image", "local"}
          /\ Role[p] # "local" => revision = "0002"
      BY <1>1, <1>2 DEF Fine, Migrated
    <3> QED
      BY <1>1, <1>6, <1>8, <2>2, <3>1 DEF Fine
  <2>3. CASE q # p
    <3>1. Fine(q, proc[q]) /\ proc'[q] = proc[q]
      BY <1>8, <2>3 DEF IInv
    <3> QED
      BY <1>1, <2>1, <3>1 DEF Fine, Row, SeedId
  <2> QED
    BY <2>2, <2>3
<1>11. OneSeeder'
  BY <1>6, <1>8 DEF IInv, OneSeeder
<1> QED
  BY <1>5, <1>9, <1>10, <1>11 DEF IInv

-----------------------------------------------------------------------------
\* The first document a seeder inserts is the first file's, so it waits for
\* any rival that has inserted one.
LEMMA SeedInsertStep == ASSUME IInv, NEW p \in Procs, SeedInsert(p) PROVE IInv'
<1>1. PICK i \in DOMAIN Files :
         /\ Inserts(p, i)
         /\ \A q \in Procs : ~Held(p, q, i)
         /\ proc' = [proc EXCEPT ![p].mine = @ \cup {Row(p, Files[i])}]
  BY DEF SeedInsert
<1>2. /\ UNCHANGED <<tables, revision, records, document>>
      /\ starts' \in [Procs -> 0 .. MaxStarts]
  BY DEF SeedInsert, IInv, TypeOK
<1>3. /\ proc[p] \in ProcState /\ Fine(p, proc[p]) /\ proc[p].pc = "seeding"
      /\ NextFile(proc[p].mine, i)
  BY <1>1 DEF Inserts, IInv, TypeOK
<1>4. Files \in Seq(STRING) /\ DOMAIN Files = 1 .. Len(Files) /\ Len(Files) \in Nat
  BY StartupAssumption
<1>5. Files[i] \in FileNames
  BY DEF FileNames
<1>6. Row(p, Files[i]) \in SeedRows
      /\ Row(p, Files[i]) \in [id : {"seed"} \X FileNames, file : FileNames]
  BY <1>5 DEF Row, SeedId, SeedRows
<1> DEFINE more == proc[p].mine \cup {Row(p, Files[i])}
           new == [proc[p] EXCEPT !.mine = more]
<1>7. /\ new \in ProcState /\ new.pc = "seeding" /\ new.mine = more
  BY <1>3, <1>6 DEF ProcState
<1>8. proc' = [proc EXCEPT ![p] = new]
  BY <1>1 DEF IInv, TypeOK
<1>9. proc[p].mine = {} => i = 1
  <2> SUFFICES ASSUME proc[p].mine = {}, i # 1 PROVE FALSE
    OBVIOUS
  <2>1. 1 \in 1 .. i - 1
    BY <1>4
  <2>2. Files[1] \in {Files[k] : k \in 1 .. i - 1}
    BY <2>1
  <2> QED
    BY <1>3, <2>2 DEF NextFile
<1>10. Row(p, Files[1]) \in more
  BY <1>3, <1>9 DEF Fine
<1>11. ASSUME proc[p].mine = {}, NEW q \in Procs \ {p} PROVE proc[q].mine = {}
  <2> SUFFICES ASSUME proc[q].mine # {} PROVE FALSE
    OBVIOUS
  <2>1. Row(q, Files[1]) \in proc[q].mine
    BY DEF IInv, Fine
  <2>2. Row(q, Files[1]).id = SeedId(p, Files[1])
    BY DEF Row, SeedId
  <2>3. Held(p, q, i)
    BY <1>9, <1>11, <2>1, <2>2 DEF Held, HasId
  <2> QED
    BY <1>1, <2>3
<1>12. more \subseteq SeedRows /\ more # {}
  BY <1>3, <1>6 DEF Fine
<1> HIDE DEF new, more
<1>13. Fine(p, new)
  BY <1>3, <1>7, <1>10, <1>12 DEF Fine
<1> QED
  BY <1>2, <1>7, <1>8, <1>11, <1>13, OneMoves

\* What a seeder commits is all of the seeds.
LEMMA SeedCommitStep == ASSUME IInv, NEW p \in Procs, SeedCommit(p) PROVE IInv'
<1>1. /\ proc[p].pc = "seeding" /\ {r.file : r \in proc[p].mine} = FileNames
      /\ document' = document \cup proc[p].mine
      /\ proc' = Goes(p, "serving")
      /\ UNCHANGED <<tables, revision, records, starts>>
  BY DEF SeedCommit, Committed
<1>2. Fine(p, proc[p])
  BY DEF IInv
<1>3. proc[p].mine = SeedRows
  <2>1. proc[p].mine \subseteq SeedRows
    BY <1>2 DEF Fine
  <2>2. ASSUME NEW r \in SeedRows PROVE r \in proc[p].mine
    <3>1. PICK f \in FileNames : r = [id |-> <<"seed", f>>, file |-> f]
      BY DEF SeedRows
    <3>2. PICK s \in proc[p].mine : s.file = f
      BY <1>1
    <3>3. PICK g \in FileNames : s = [id |-> <<"seed", g>>, file |-> g]
      BY <2>1, <3>2 DEF SeedRows
    <3> QED
      BY <3>1, <3>2, <3>3
  <2> QED
    BY <2>1, <2>2
<1>4. /\ SeedRows \subseteq [id : {"seed", "posted"} \X (FileNames \cup Posted),
                             file : FileNames \cup Posted]
      /\ \A r \in SeedRows : r.file \in FileNames
  BY DEF SeedRows
<1>5. Files # << >> => document' # {}
  <2> SUFFICES ASSUME Files # << >> PROVE document' # {}
    OBVIOUS
  <2>1. Files \in Seq(STRING)
    BY StartupAssumption
  <2>2. 1 \in DOMAIN Files
    BY <2>1
  <2>3. Files[1] \in FileNames
    BY <2>2 DEF FileNames
  <2>4. [id |-> <<"seed", Files[1]>>, file |-> Files[1]] \in SeedRows
    BY <2>3 DEF SeedRows
  <2> QED
    BY <1>1, <1>3, <2>4
<1> DEFINE new == [Down EXCEPT !.pc = "serving"]
<1>6. /\ new = [pc |-> "serving", read |-> "none", missing |-> {}, mine |-> {}]
      /\ new \in ProcState
  BY GoesIsTyped DEF Pcs
<1>7. proc' = [proc EXCEPT ![p] = new]
  BY <1>1 DEF Goes
<1> HIDE DEF new
<1>8. proc' \in [Procs -> ProcState] /\ proc'[p] = new
      /\ \A q \in Procs \ {p} : proc'[q] = proc[q]
  BY <1>6, <1>7 DEF IInv, TypeOK
<1>9. TypeOK'
  BY <1>1, <1>3, <1>4, <1>8 DEF IInv, TypeOK
<1>10. SchemaOK'
  BY <1>1 DEF IInv, SchemaOK
<1>11. SeedsOK'
  BY <1>1, <1>3, <1>4 DEF IInv, SeedsOK
<1>12. ASSUME NEW q \in Procs PROVE Fine(q, proc[q])'
  <2>1. CASE q = p
    <3>1. /\ Role[p] \in {"image", "api", "local"}
          /\ Role[p] # "local" => revision = "0002"
      BY <1>1, <1>2 DEF Fine, Migrated
    <3> QED
      BY <1>1, <1>5, <1>6, <1>8, <2>1, <3>1 DEF Fine
  <2>2. CASE q # p
    <3>1. Fine(q, proc[q]) /\ proc'[q] = proc[q]
      BY <1>8, <2>2 DEF IInv
    <3> QED
      BY <1>1, <3>1 DEF Fine, Row, SeedId
  <2> QED
    BY <2>1, <2>2
<1>13. OneSeeder'
  BY <1>6, <1>8 DEF IInv, OneSeeder
<1> QED
  BY <1>9, <1>10, <1>11, <1>12, <1>13 DEF IInv

\* What clients post is none of the seeds.
LEMMA PostStep ==
    ASSUME IInv, NEW p \in Procs, NEW name \in Posted, Post(p, name) PROVE IInv'
<1> DEFINE row == [id |-> <<"posted", name>>, file |-> name]
<1>1. document' = document \cup {row}
      /\ UNCHANGED <<tables, revision, records, proc, starts>>
  BY DEF Post
<1>2. row.file \notin FileNames
  BY StartupAssumption DEF FileNames
<1>3. row \in [id : {"seed", "posted"} \X (FileNames \cup Posted),
               file : FileNames \cup Posted]
  OBVIOUS
<1> HIDE DEF row
<1>4. TypeOK'
  BY <1>1, <1>3 DEF IInv, TypeOK
<1>5. SchemaOK' /\ OneSeeder'
  BY <1>1 DEF IInv, SchemaOK, OneSeeder
<1>6. {r \in document' : r.file \in FileNames} = {r \in document : r.file \in FileNames}
  BY <1>1, <1>2
<1>7. SeedsOK'
  BY <1>6 DEF IInv, SeedsOK
<1>8. ASSUME NEW q \in Procs PROVE Fine(q, proc[q])'
  BY <1>1 DEF IInv, Fine, Row, SeedId
<1> QED
  BY <1>4, <1>5, <1>7, <1>8 DEF IInv

LEMMA NextIInv == ASSUME IInv, [Next]_vars PROVE IInv'
<1>1. CASE UNCHANGED vars
  BY <1>1 DEF vars, IInv, TypeOK, SchemaOK, Fine, Row, SeedId, OneSeeder, SeedsOK
<1>2. ASSUME NEW p \in Procs, Step(p) PROVE IInv'
  BY <1>2, ReadStep, MigrateStep, CreateStep, FailStep, SeedReadStep,
     SeedInsertStep, SeedCommitStep DEF Step
<1> QED
  BY <1>1, <1>2, StartStep, FailStep, PostStep DEF Next

LEMMA Inductive == Spec => []IInv
BY InitIInv, NextIInv, PTL DEF Spec

-----------------------------------------------------------------------------
\* The variables of Startup have their types, and the schema is never a mixture
\* of revisions, for every set of processes.
THEOREM TypeCorrect == Spec => []TypeOK
<1>1. IInv => TypeOK
  BY DEF IInv
<1> QED
  BY <1>1, Inductive, PTL

\* However many processes seed a database at once, its seeds are all there,
\* once each, or none is.  (seed_documents)
THEOREM SeedsComeTogether == Spec => []SeededTogether
<1>1. ASSUME IInv PROVE SeededTogether
  <2> DEFINE seeded == {r \in document : r.file \in FileNames}
  <2>1. seeded = {} \/ seeded = SeedRows
    BY <1>1 DEF IInv, SeedsOK
  <2>2. ASSUME NEW f \in FileNames
        PROVE  \E r \in SeedRows :
                  r.file = f /\ \A s \in SeedRows : s.file = f => s = r
    <3>1. [id |-> <<"seed", f>>, file |-> f] \in SeedRows
      BY DEF SeedRows
    <3>2. \A s \in SeedRows : s = [id |-> <<"seed", s.file>>, file |-> s.file]
      BY DEF SeedRows
    <3> QED
      BY <3>1, <3>2
  <2> HIDE DEF seeded
  <2>3. seeded = {} \/ \A f \in FileNames : \E r \in seeded :
          r.file = f /\ \A s \in seeded : s.file = f => s = r
    BY <2>1, <2>2
  <2> QED
    BY <2>3 DEF SeededTogether, seeded
<1> QED
  BY <1>1, Inductive, PTL

\* No two seeders ever wait for each other, whatever the number of processes
\* and files.  (sorted(paths) in seed_documents)
THEOREM SeedersNeverDeadlock == Spec => []WaitersHoldNothing
<1>1. ASSUME IInv PROVE WaitersHoldNothing
  <2> SUFFICES ASSUME NEW p \in Procs, NEW q \in Procs, WaitsFor(p, q)
               PROVE  proc[p].mine = {}
    BY DEF WaitersHoldNothing
  <2>1. p # q /\ proc[q].mine # {}
    BY DEF WaitsFor, Held, HasId
  <2> QED
    BY <1>1, <2>1 DEF IInv, OneSeeder
<1> QED
  BY <1>1, Inductive, PTL

\* Whatever is deployed serves on the schema of the models, after every race of
\* migrations, create_alls and restarts.  (docs/architecture.md:306)
THEOREM DeployedOnModels == Spec => []ServesMigratedSchema
<1>1. ASSUME IInv PROVE ServesMigratedSchema
  <2> SUFFICES ASSUME NEW p \in Procs, Role[p] # "local", proc[p].pc = "serving"
               PROVE  tables = Models
    BY DEF ServesMigratedSchema
  <2>1. revision = "0002"
    BY <1>1 DEF IInv, Fine, Migrated
  <2> QED
    BY <1>1, <2>1 DEF IInv, SchemaOK
<1> QED
  BY <1>1, Inductive, PTL

\* An app that serves shows documents, if there are any to seed.  (_lifespan)
THEOREM SeededBeforeServing == Spec => []ServingIsSeeded
<1>1. ASSUME IInv PROVE ServingIsSeeded
  BY <1>1 DEF IInv, Fine, ServingIsSeeded
<1> QED
  BY <1>1, Inductive, PTL
=============================================================================
