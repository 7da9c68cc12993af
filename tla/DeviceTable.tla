----------------------------- MODULE DeviceTable -----------------------------
(***************************************************************************)
(* The devices table of internal/server/store.go: how OpenStore brings the *)
(* database of an older release to the current schema, the import of a     *)
(* JSON device store, and the operations of the panel that keep the order  *)
(* in which devices are displayed.                                         *)
(*                                                                         *)
(* Every statement of the start is committed by itself, so the process may *)
(* end between any two of them; a transaction is one step.  Ids and names  *)
(* are numbers, compared as SQLite compares the texts.  Tokens, heartbeats *)
(* and metric cards are left out, and a statement that changes no row is   *)
(* no step.                                                                *)
(***************************************************************************)
EXTENDS Naturals, Sequences, FiniteSets

CONSTANTS
    Dev,       \* device ids
    Name,      \* device names
    Legacy,    \* the devices in the file legacy_device_store names
    MaxOrder   \* bound: the largest sort_order

ASSUME DeviceTableAssumption ==
    /\ Dev \subseteq Nat /\ IsFiniteSet(Dev) /\ Name \subseteq Nat /\ Name # {}
    /\ Legacy \subseteq Dev
    /\ MaxOrder \in Nat /\ Cardinality(Dev) =< MaxOrder + 1

VARIABLES
    version,  \* PRAGMA user_version
    tables,   \* the tables that exist
    columns,  \* the columns, among those a migration adds or converts
    added,    \* addedSortOrder of migrateDevicePreferences
    pc,       \* where the start of the server stands
    table     \* the devices table: a function from the ids that have a row

schemaVars == <<version, tables, columns>>
vars == <<schemaVars, added, pc, table>>

CurrentVersion == 2
Table == {"devices", "admins"}
AdminColumn == {"text_hash", "totp_last_login_step"}
DeviceColumn == {"sort_order", "metric_cards"}
ColumnsOf(t) == IF t = "devices" THEN DeviceColumn ELSE AdminColumn
Row == [name : Name, order : 0..MaxOrder]

TypeOK ==
    /\ version \in 0..CurrentVersion + 1
    /\ tables \subseteq Table /\ columns \subseteq AdminColumn \cup DeviceColumn
    /\ added \in BOOLEAN
    /\ pc \in {"down", "objects", "admins", "sort", "cards", "fill", "version", "import", "up"}
    /\ DOMAIN table \subseteq Dev
    /\ \A d \in DOMAIN table : table[d] \in Row

\* No database yet, one of an earlier release, which may have no administrators yet, or
\* one of a later release.
Init ==
    /\ \/ version = 0 /\ tables = {} /\ columns = {} /\ table = <<>>
       \/ /\ version \in {0, 1} /\ tables \in {{"devices"}, Table}
          /\ columns \in SUBSET (IF tables = Table THEN AdminColumn ELSE {})
          /\ \E ids \in SUBSET Dev : table \in [ids -> [name : Name, order : {0}]]
       \/ /\ version = CurrentVersion + 1 /\ tables = Table
          /\ columns = AdminColumn \cup DeviceColumn /\ table = <<>>
    /\ added = FALSE
    /\ pc = "down"

-----------------------------------------------------------------------------
(* The statements of the table.                                            *)

\* ORDER BY sort_order, id.
Before(d, e) == \/ table[d].order < table[e].order
                \/ table[d].order = table[e].order /\ d < e

\* COALESCE(MAX(sort_order), -1) + 1.  Mutant: COUNT( * ).
RowCount == Cardinality(DOMAIN table)
NextOrder == IF table = <<>> THEN 0
                ELSE 1 + CHOOSE m \in {table[d].order : d \in DOMAIN table} :
                            \A d \in DOMAIN table : table[d].order =< m

\* Put: a new row is appended, an existing one keeps its order.
Put(d, n) ==
    /\ d \notin DOMAIN table => NextOrder =< MaxOrder
    /\ table' = [e \in DOMAIN table \cup {d} |->
                    IF e # d THEN table[e]
                    ELSE [name |-> n,
                          order |-> IF d \in DOMAIN table THEN table[d].order ELSE NextOrder]]

-----------------------------------------------------------------------------
(* OpenStore and the rest of the server's start.                           *)

Goto(l) == pc' = l

\* initSchema: the database of a later release is refused.
OpenDatabase ==
    /\ pc = "down" /\ version =< CurrentVersion
    /\ Goto("objects")
    /\ UNCHANGED <<schemaVars, added, table>>

\* ensureSchemaObjects: a missing table is created as it is today.
CreateTable(t) ==
    /\ pc = "objects" /\ t \notin tables
    /\ t = "admins" => "devices" \in tables
    /\ tables' = tables \cup {t}
    /\ columns' = columns \cup ColumnsOf(t)
    /\ UNCHANGED <<version, added, pc, table>>

ObjectsExist ==
    /\ pc = "objects" /\ tables = Table
    /\ Goto(IF version = CurrentVersion THEN "import" ELSE "admins")
    /\ UNCHANGED <<schemaVars, added, table>>

\* migrateAdminSchema: one transaction that rebuilds the table, or one ALTER.
\* Mutant: the version is set with the first of the two migrations.
MigrateAdminsAndVersion ==
    /\ pc = "admins"
    /\ columns' = columns \cup AdminColumn
    /\ version' = CurrentVersion
    /\ Goto("sort")
    /\ UNCHANGED <<tables, added, table>>
MigrateAdmins ==
    /\ pc = "admins"
    /\ columns' = columns \cup AdminColumn
    /\ Goto("sort")
    /\ UNCHANGED <<version, tables, added, table>>

\* migrateDevicePreferences, statement by statement.
AddSortOrder ==
    /\ pc = "sort"
    /\ added' = ("sort_order" \notin columns)
    /\ columns' = columns \cup {"sort_order"}
    /\ Goto("cards")
    /\ UNCHANGED <<version, tables, table>>

AddMetricCards ==
    /\ pc = "cards"
    /\ columns' = columns \cup {"metric_cards"}
    /\ Goto("fill")
    /\ UNCHANGED <<version, tables, added, table>>

\* The order of the earlier releases: by name, then by id.  Mutant: a row is not
\* counted as one that is not after itself.
ByNameStrictly(d, e) == \/ table[d].name < table[e].name
                        \/ table[d].name = table[e].name /\ d < e
ByName(d, e) == \/ table[d].name < table[e].name
                \/ table[d].name = table[e].name /\ d =< e

\* The UPDATE, in the start that has added the column.
Filled(d) == IF added THEN Cardinality({e \in DOMAIN table : ByName(e, d)}) - 1
                      ELSE table[d].order

FillOrder ==
    /\ pc = "fill"
    /\ table' = [d \in DOMAIN table |-> [table[d] EXCEPT !.order = Filled(d)]]
    /\ Goto("version")
    /\ UNCHANGED <<schemaVars, added>>

SetVersion ==
    /\ pc = "version"
    /\ version' = CurrentVersion
    /\ Goto("import")
    /\ UNCHANGED <<tables, columns, added, table>>

\* ImportLegacyDeviceJSON looks each device up.  Mutant: it does not.
AllOfTheFile == Legacy
MissingDevices == Legacy \ DOMAIN table

ImportLegacy(d, n) ==
    /\ pc = "import" /\ d \in MissingDevices
    /\ Put(d, n)
    /\ UNCHANGED <<schemaVars, added, pc>>

ImportDone ==
    /\ pc = "import" /\ Legacy \subseteq DOMAIN table
    /\ Goto("up")
    /\ UNCHANGED <<schemaVars, added, table>>

\* The process ends: a crash, a stop, or a fatal error of the start.
Crash ==
    /\ pc # "down"
    /\ Goto("down") /\ added' = FALSE
    /\ UNCHANGED <<schemaVars, table>>

-----------------------------------------------------------------------------
(* The server runs.                                                        *)

Running == pc = "up" /\ UNCHANGED <<schemaVars, added, pc>>

\* The INSERT of EnrollDevice.
EnrollDevice(d, n) == Running /\ d \notin DOMAIN table /\ Put(d, n)

UpdateDeviceName(d, n) ==
    /\ Running /\ d \in DOMAIN table
    /\ table' = [table EXCEPT ![d].name = n]

\* The ids are those of the table, each once.  Mutant: some may be missing.
KnownOnly(ids) == \A i \in 1..Len(ids) : ids[i] \in DOMAIN table
Complete(ids) ==
    /\ Len(ids) = Cardinality(DOMAIN table)
    /\ \A i \in 1..Len(ids) : ids[i] \in DOMAIN table /\ \A j \in 1..i - 1 : ids[j] # ids[i]

\* ReorderDevices, one transaction: the browser's list may be out of date.
ReorderDevices(ids) ==
    /\ Running /\ ids # <<>> /\ Complete(ids)
    /\ table' = [d \in DOMAIN table |->
                    IF \E i \in 1..Len(ids) : ids[i] = d
                       THEN [table[d] EXCEPT !.order = (CHOOSE i \in 1..Len(ids) : ids[i] = d) - 1]
                       ELSE table[d]]

DeleteDevice(d) ==
    /\ Running /\ d \in DOMAIN table
    /\ table' = [e \in DOMAIN table \ {d} |-> table[e]]

-----------------------------------------------------------------------------
Start ==
    \/ OpenDatabase \/ \E t \in Table : CreateTable(t)
    \/ ObjectsExist \/ MigrateAdmins \/ AddSortOrder \/ AddMetricCards \/ FillOrder \/ SetVersion
    \/ \E d \in Dev, n \in Name : ImportLegacy(d, n)
    \/ ImportDone

IdList == UNION {[1..n -> Dev] : n \in 1..Cardinality(Dev)}

Reorder == \E ids \in IdList : ReorderDevices(ids)

Next ==
    \/ Start \/ Crash \/ Reorder
    \/ \E d \in Dev, n \in Name : EnrollDevice(d, n) \/ UpdateDeviceName(d, n)
    \/ \E d \in Dev : DeleteDevice(d)

Spec == Init /\ [][Next]_vars

-----------------------------------------------------------------------------
(* Properties.                                                             *)

\* Whatever was interrupted before, a server that runs has the columns its
\* statements name: user_version is written last, and a start that finds an
\* older one goes through all of the migration again.
UpMeansMigrated ==
    pc = "up" => version = CurrentVersion /\ columns = AdminColumn \cup DeviceColumn

\* docs/WEB_PANEL.md:23 and :45: renaming does not move a device.  In a migrated
\* database only a drag moves devices against each other; renaming, deleting and
\* restarting do not, and a new device comes last, however often devices were
\* deleted and however an interrupted migration has left the numbers.
OrderStays ==
    [][version = CurrentVersion /\ ~Reorder =>
          /\ \A d, e \in DOMAIN table \cap DOMAIN table' : Before(d, e) <=> Before(d, e)'
          /\ \A d \in DOMAIN table \cap DOMAIN table', e \in DOMAIN table' \ DOMAIN table :
                Before(d, e)']_table

\* A drag that is accepted shows the devices in the order of the list: one that
\* was made before another device was added or deleted is refused as a whole.
DraggedAsShown ==
    [][\A ids \in IdList : ReorderDevices(ids) =>
          /\ \A i, j \in 1..Len(ids) : i < j => Before(ids[i], ids[j])'
          /\ \A d \in DOMAIN table' : \E k \in 1..Len(ids) : ids[k] = d]_table

\* The comment of ImportLegacyDeviceJSON: existing rows are left untouched, also
\* by the starts that follow an interrupted import or changes of the panel.
ImportKeepsRows ==
    [][pc = "import" => \A d \in DOMAIN table : d \in DOMAIN table' /\ table'[d] = table[d]]_table

\* store.go:286 and docs/UPGRADING.md:7: the first migration keeps the order by
\* name that earlier releases displayed.  It is complete when the version is set.
MigrationKeepsOrder ==
    [][version' # version => \A d, e \in DOMAIN table : d # e /\ ByName(d, e) => Before(d, e)]_version

-----------------------------------------------------------------------------
(* The strengthening that makes UpMeansMigrated inductive: each stage of   *)
(* the start has the columns of the stages before it, and the version is   *)
(* the current one only when nothing is missing and the stages are over.   *)

MigrationInv ==
    /\ tables \subseteq Table /\ columns \subseteq AdminColumn \cup DeviceColumn
    /\ version = CurrentVersion =>
          tables = Table /\ columns = AdminColumn \cup DeviceColumn
    /\ pc \in {"sort", "cards", "fill", "version"} => AdminColumn \subseteq columns
    /\ pc \in {"cards", "fill", "version"} => "sort_order" \in columns
    /\ pc \in {"fill", "version"} => "metric_cards" \in columns
    /\ pc \in {"admins", "sort", "cards", "fill", "version"} => tables = Table
    /\ pc \in {"import", "up"} => version = CurrentVersion
    /\ pc \in {"admins", "sort", "cards", "fill", "version"} => version # CurrentVersion

=============================================================================
