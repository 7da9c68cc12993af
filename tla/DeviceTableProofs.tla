-------------------------- MODULE DeviceTableProofs --------------------------
(***************************************************************************)
(* The devices table, for every finite set of devices and every crash: the *)
(* migration is complete before the server runs, and the order of the      *)
(* devices changes only where the panel's documentation says it does.      *)
(***************************************************************************)
EXTENDS DeviceTable, FiniteSetTheorems, TLAPS

-----------------------------------------------------------------------------
(* The migration.                                                          *)

\* The steps of a running server leave the schema and the stage of the start
\* alone.
LEMMA PanelKeepsSchema ==
    ASSUME Reorder \/ (\E d \in Dev, n \in Name : EnrollDevice(d, n) \/ UpdateDeviceName(d, n))
           \/ (\E d \in Dev : DeleteDevice(d))
    PROVE  UNCHANGED <<version, tables, columns, pc>>
  BY DEF Reorder, ReorderDevices, EnrollDevice, UpdateDeviceName, DeleteDevice, Running, schemaVars

\* A database is first seen without tables, or without the device columns and
\* with an older version, or with a later one.
LEMMA MigrationInit == Init => MigrationInv
  BY DEF Init, MigrationInv, Table, AdminColumn, DeviceColumn, CurrentVersion

\* Every statement of the start, and a crash after any of them, keeps the
\* relation of version, columns and stage.
LEMMA MigrationStep == MigrationInv /\ [Next]_vars => MigrationInv'
  <1> SUFFICES ASSUME MigrationInv, [Next]_vars PROVE MigrationInv'
    OBVIOUS
  <1> USE DEF Table, AdminColumn, DeviceColumn, CurrentVersion, Goto, schemaVars
  <1>1. CASE OpenDatabase
    BY <1>1 DEF OpenDatabase, MigrationInv
  <1>2. CASE \E t \in Table : CreateTable(t)
    <2>1. PICK t \in Table : CreateTable(t)
      BY <1>2
    <2>2. tables' = tables \cup {t} /\ columns' = columns \cup ColumnsOf(t)
          /\ ColumnsOf(t) \subseteq AdminColumn \cup DeviceColumn
      BY <2>1 DEF CreateTable, ColumnsOf
    <2>3. version' = version /\ pc' = "objects" /\ version # CurrentVersion
      BY <2>1 DEF CreateTable, MigrationInv
    <2> QED
      BY <2>1, <2>2, <2>3 DEF MigrationInv
  <1>3. CASE ObjectsExist
    BY <1>3 DEF ObjectsExist, MigrationInv
  <1>4. CASE MigrateAdmins
    BY <1>4 DEF MigrateAdmins, MigrationInv
  <1>5. CASE AddSortOrder
    BY <1>5 DEF AddSortOrder, MigrationInv
  <1>6. CASE AddMetricCards
    BY <1>6 DEF AddMetricCards, MigrationInv
  <1>7. CASE FillOrder
    BY <1>7 DEF FillOrder, MigrationInv
  <1>8. CASE SetVersion
    BY <1>8 DEF SetVersion, MigrationInv
  <1>9. CASE \E d \in Dev, n \in Name : ImportLegacy(d, n)
    BY <1>9 DEF ImportLegacy, MigrationInv
  <1>10. CASE ImportDone
    BY <1>10 DEF ImportDone, MigrationInv
  <1>11. CASE Crash
    BY <1>11 DEF Crash, MigrationInv
  <1>12. CASE Reorder \/ (\E d \in Dev, n \in Name : EnrollDevice(d, n) \/ UpdateDeviceName(d, n))
              \/ (\E d \in Dev : DeleteDevice(d))
    <2>1. UNCHANGED <<version, tables, columns, pc>>
      BY <1>12, PanelKeepsSchema
    <2> QED
      BY <2>1 DEF MigrationInv
  <1>13. CASE UNCHANGED vars
    BY <1>13 DEF vars, MigrationInv
  <1> QED
    BY <1>1, <1>2, <1>3, <1>4, <1>5, <1>6, <1>7, <1>8, <1>9, <1>10, <1>11, <1>12, <1>13
    DEF Next, Start

\* initSchema: a server that runs has all the columns its statements use,
\* whatever starts were interrupted before and wherever.
THEOREM UpMeansMigratedHolds == Spec => []UpMeansMigrated
  <1>1. MigrationInv => UpMeansMigrated
    BY DEF MigrationInv, UpMeansMigrated
  <1> QED
    BY <1>1, MigrationInit, MigrationStep, PTL DEF Spec

-----------------------------------------------------------------------------
(* The statements of the table.                                            *)

\* A bounded set of numbers that has a member has a largest one.
LEMMA LargestExists ==
    ASSUME NEW n \in Nat, NEW S \in SUBSET (0..n), S # {}
    PROVE  \E m \in S : \A x \in S : x =< m
  <1> DEFINE T == {n - x : x \in S}
             R == OpToRel(<, Nat)
  <1>1. T \subseteq Nat /\ T # {}
    <2>1. PICK x \in S : n - x \in T
      OBVIOUS
    <2> QED
      BY <2>1
  <1>2. PICK t \in T : \A y \in T : ~(<<y, t>> \in R)
    <2> HIDE DEF T, R
    <2> QED
      BY <1>1, NatLessThanWellFounded, WFMin DEF R
  <1>3. \A y \in T : ~(y < t)
    BY <1>1, <1>2 DEF OpToRel
  <1>4. PICK m \in S : t = n - m
    OBVIOUS
  <1>5. ASSUME NEW x \in S PROVE x =< m
    <2>1. n - x \in T
      OBVIOUS
    <2>2. ~(n - x < n - m)
      BY <1>3, <1>4, <2>1
    <2> QED
      BY <2>2
  <1> QED
    BY <1>5

\* COALESCE(MAX(sort_order), -1) + 1 is beyond the order of every row.
LEMMA NextOrderIsLast ==
    ASSUME TypeOK
    PROVE  NextOrder \in Nat /\ \A d \in DOMAIN table : table[d].order < NextOrder
  <1> DEFINE S == {table[d].order : d \in DOMAIN table}
  <1>0. \A d \in DOMAIN table : table[d].order \in 0..MaxOrder
    BY DEF TypeOK, Row
  <1>1. CASE table = <<>>
    BY <1>1 DEF NextOrder
  <1>2. CASE table # <<>> /\ DOMAIN table = {}
    BY <1>2 DEF NextOrder
  <1>3. CASE table # <<>> /\ DOMAIN table # {}
    <2>1. S \in SUBSET (0..MaxOrder) /\ S # {}
      BY <1>0, <1>3
    <2>2. \E m \in S : \A x \in S : x =< m
      BY <2>1, LargestExists, DeviceTableAssumption
    <2>3. \E m \in S : \A d \in DOMAIN table : table[d].order =< m
      BY <2>2
    <2> DEFINE m == CHOOSE m \in S : \A d \in DOMAIN table : table[d].order =< m
    <2>4. m \in S /\ \A d \in DOMAIN table : table[d].order =< m
      BY <2>3
    <2>5. NextOrder = 1 + m
      BY <1>3 DEF NextOrder
    <2> HIDE DEF m
    <2>6. m \in Nat
      BY <2>1, <2>4
    <2> QED
      BY <1>0, <2>4, <2>5, <2>6
  <1> QED
    BY <1>1, <1>2, <1>3

\* Put keeps the other rows, and the order of the row it updates; the row it adds
\* comes last.
LEMMA PutFacts ==
    ASSUME TypeOK, NEW d \in Dev, NEW n \in Name, Put(d, n)
    PROVE  /\ DOMAIN table' = DOMAIN table \cup {d}
           /\ \A e \in DOMAIN table : e # d => table'[e] = table[e]
           /\ \A e \in DOMAIN table : table'[e].order = table[e].order
           /\ table'[d] \in Row
           /\ d \notin DOMAIN table => \A e \in DOMAIN table : table[e].order < table'[d].order
  <1> DEFINE o == IF d \in DOMAIN table THEN table[d].order ELSE NextOrder
  <1>1. DOMAIN table' = DOMAIN table \cup {d} /\ table'[d] = [name |-> n, order |-> o]
        /\ \A e \in DOMAIN table : e # d => table'[e] = table[e]
    BY DEF Put
  <1>2. o \in 0..MaxOrder
    BY NextOrderIsLast, DeviceTableAssumption DEF Put, TypeOK, Row
  <1>3. d \notin DOMAIN table => \A e \in DOMAIN table : table[e].order < o
    BY NextOrderIsLast
  <1>4. d \in DOMAIN table => o = table[d].order
    OBVIOUS
  <1> HIDE DEF o
  <1>5. table'[d] \in Row /\ table'[d].order = o
    BY <1>1, <1>2 DEF Row
  <1> QED
    BY <1>1, <1>3, <1>4, <1>5

\* The UPDATE of the migration numbers at most as many rows as there are devices.
LEMMA FillFacts ==
    ASSUME TypeOK, NEW d \in DOMAIN table
    PROVE  Filled(d) \in 0..MaxOrder
  <1> DEFINE S == {e \in DOMAIN table : ByName(e, d)}
  <1>1. d \in S
    <2>1. table[d].name \in Nat /\ d \in Nat
      BY DeviceTableAssumption DEF TypeOK, Row
    <2> QED
      BY <2>1 DEF ByName
  <1>2. S \in SUBSET Dev
    BY DEF TypeOK
  <1>3. /\ IsFiniteSet(S) /\ Cardinality(S) =< Cardinality(Dev)
        /\ Cardinality(S) \in Nat /\ Cardinality(Dev) \in Nat
    BY <1>2, FS_Subset, FS_CardinalityType, DeviceTableAssumption
  <1>4. Cardinality(S) # 0
    BY <1>1, <1>3, FS_EmptySet
  <1>5. Cardinality(S) - 1 \in 0..MaxOrder
    <2> HIDE DEF S
    <2> QED
      BY <1>3, <1>4, DeviceTableAssumption
  <1>6. table[d].order \in 0..MaxOrder
    BY DEF TypeOK, Row
  <1> QED
    BY <1>5, <1>6 DEF Filled

\* ReorderDevices accepts a list only if it names every row once; the row of an id
\* gets its position in the list.
LEMMA ReorderFacts ==
    ASSUME TypeOK, NEW ids \in IdList, ReorderDevices(ids)
    PROVE  /\ Len(ids) \in Nat /\ Len(ids) =< MaxOrder + 1
           /\ \A i \in 1..Len(ids) : ids[i] \in DOMAIN table
           /\ \A d \in DOMAIN table : \E i \in 1..Len(ids) : ids[i] = d
           /\ DOMAIN table' = DOMAIN table
           /\ \A i \in 1..Len(ids) : table'[ids[i]] = [table[ids[i]] EXCEPT !.order = i - 1]
  <1> DEFINE k == Len(ids)
  <1>1. k \in Nat /\ ids \in [1..k -> Dev]
    BY DEF IdList
  <1>2. /\ k = Cardinality(DOMAIN table)
        /\ \A i \in 1..k : ids[i] \in DOMAIN table
        /\ \A i \in 1..k : \A j \in 1..i - 1 : ids[j] # ids[i]
    BY DEF ReorderDevices, Complete
  <1>3. /\ IsFiniteSet(DOMAIN table) /\ Cardinality(Dev) \in Nat
        /\ Cardinality(DOMAIN table) =< Cardinality(Dev)
    BY FS_Subset, FS_CardinalityType, DeviceTableAssumption DEF TypeOK
  <1> HIDE DEF k
  <1>4. \A i, j \in 1..k : ids[i] = ids[j] => i = j
    <2> SUFFICES ASSUME NEW i \in 1..k, NEW j \in 1..k, ids[i] = ids[j] PROVE i = j
      OBVIOUS
    <2>1. i < j => i \in 1..j - 1
      BY <1>1
    <2>2. j < i => j \in 1..i - 1
      BY <1>1
    <2> QED
      BY <1>1, <1>2, <2>1, <2>2
  <1>5. ids \in [1..k -> DOMAIN table]
    BY <1>1, <1>2
  <1>6. ids \in Injection(1..k, DOMAIN table)
    BY <1>4, <1>5 DEF Injection, IsInjective
  <1>7. Cardinality(1..k) = Cardinality(DOMAIN table)
    BY <1>1, <1>2, FS_Interval
  <1>8. ids \in Surjection(1..k, DOMAIN table)
    BY <1>3, <1>6, <1>7, FS_Injection
  <1>9. \A d \in DOMAIN table : \E i \in 1..k : ids[i] = d
    BY <1>8 DEF Surjection
  <1>10. table' = [d \in DOMAIN table |->
                     IF \E i \in 1..k : ids[i] = d
                        THEN [table[d] EXCEPT !.order = (CHOOSE i \in 1..k : ids[i] = d) - 1]
                        ELSE table[d]]
    BY DEF ReorderDevices, k
  <1>11. ASSUME NEW i \in 1..k
         PROVE  table'[ids[i]] = [table[ids[i]] EXCEPT !.order = i - 1]
    <2>1. (CHOOSE j \in 1..k : ids[j] = ids[i]) = i
      BY <1>4
    <2> QED
      BY <1>2, <1>10, <2>1
  <1>12. k =< MaxOrder + 1
    BY <1>1, <1>2, <1>3, DeviceTableAssumption
  <1> QED
    BY <1>1, <1>2, <1>9, <1>10, <1>11, <1>12 DEF k

\* The steps that write the table.
Writing ==
    \/ FillOrder
    \/ \E d \in Dev, n \in Name : ImportLegacy(d, n) \/ EnrollDevice(d, n) \/ UpdateDeviceName(d, n)
    \/ \E d \in Dev : DeleteDevice(d)
    \/ Reorder

LEMMA OthersKeepTable ==
    ASSUME [Next]_vars, ~Writing
    PROVE  table' = table
  BY DEF Next, Start, OpenDatabase, CreateTable, ObjectsExist, MigrateAdmins, AddSortOrder,
     AddMetricCards, SetVersion, ImportDone, Crash, vars, Writing

\* Every step keeps the rows rows of devices, with an order within the bound.
LEMMA TableStep ==
    ASSUME TypeOK, [Next]_vars
    PROVE  DOMAIN table' \subseteq Dev /\ \A d \in DOMAIN table' : table'[d] \in Row
  <1>0. DOMAIN table \subseteq Dev /\ \A d \in DOMAIN table : table[d] \in Row
    BY DEF TypeOK
  <1>1. CASE FillOrder
    <2>1. \A d \in DOMAIN table : [table[d] EXCEPT !.order = Filled(d)] \in Row
      BY <1>0, FillFacts DEF Row
    <2> QED
      BY <1>0, <1>1, <2>1 DEF FillOrder
  <1>2. ASSUME NEW d \in Dev, NEW n \in Name, ImportLegacy(d, n) \/ EnrollDevice(d, n)
        PROVE  DOMAIN table' \subseteq Dev /\ \A e \in DOMAIN table' : table'[e] \in Row
    <2>1. Put(d, n)
      BY <1>2 DEF ImportLegacy, EnrollDevice
    <2> QED
      BY <1>0, <2>1, PutFacts
  <1>3. ASSUME NEW d \in Dev, NEW n \in Name, UpdateDeviceName(d, n)
        PROVE  DOMAIN table' \subseteq Dev /\ \A e \in DOMAIN table' : table'[e] \in Row
    <2>1. d \in DOMAIN table /\ table' = [table EXCEPT ![d].name = n]
      BY <1>3 DEF UpdateDeviceName
    <2>2. [table[d] EXCEPT !.name = n] \in Row
      BY <1>0, <2>1 DEF Row
    <2> QED
      BY <1>0, <2>1, <2>2
  <1>4. ASSUME NEW d \in Dev, DeleteDevice(d)
        PROVE  DOMAIN table' \subseteq Dev /\ \A e \in DOMAIN table' : table'[e] \in Row
    BY <1>0, <1>4 DEF DeleteDevice
  <1>5. CASE Reorder
    <2>1. PICK ids \in IdList : ReorderDevices(ids)
      BY <1>5 DEF Reorder
    <2> DEFINE k == Len(ids)
    <2>2. /\ k \in Nat /\ k =< MaxOrder + 1 /\ DOMAIN table' = DOMAIN table
          /\ \A i \in 1..k : ids[i] \in DOMAIN table
          /\ \A d \in DOMAIN table : \E i \in 1..k : ids[i] = d
          /\ \A i \in 1..k : table'[ids[i]] = [table[ids[i]] EXCEPT !.order = i - 1]
      BY <2>1, ReorderFacts
    <2> HIDE DEF k
    <2>3. \A i \in 1..k : i - 1 \in 0..MaxOrder
      BY <2>2, DeviceTableAssumption
    <2>4. \A i \in 1..k : table'[ids[i]] \in Row
      BY <1>0, <2>2, <2>3 DEF Row
    <2> QED
      BY <1>0, <2>2, <2>4
  <1>6. CASE ~Writing
    BY <1>0, <1>6, OthersKeepTable
  <1> QED
    BY <1>1, <1>2, <1>3, <1>4, <1>5, <1>6 DEF Writing

\* The schema and the stage of the start keep to their types.
LEMMA SchemaStep ==
    ASSUME TypeOK, MigrationInv', [Next]_vars
    PROVE  /\ version' \in 0..CurrentVersion + 1 /\ added' \in BOOLEAN
           /\ pc' \in {"down", "objects", "admins", "sort", "cards", "fill", "version", "import", "up"}
  <1>0. /\ version \in 0..CurrentVersion + 1 /\ CurrentVersion \in 0..CurrentVersion + 1
        /\ added \in BOOLEAN
        /\ pc \in {"down", "objects", "admins", "sort", "cards", "fill", "version", "import", "up"}
    BY DEF TypeOK, CurrentVersion
  <1>1. version' = version \/ version' = CurrentVersion
    BY DEF Next, Start, OpenDatabase, CreateTable, ObjectsExist, MigrateAdmins, AddSortOrder,
       AddMetricCards, FillOrder, SetVersion, ImportLegacy, ImportDone, Crash, Reorder,
       ReorderDevices, EnrollDevice, UpdateDeviceName, DeleteDevice, Running, schemaVars, vars
  <1>2. added' = added \/ added' \in BOOLEAN
    BY DEF Next, Start, OpenDatabase, CreateTable, ObjectsExist, MigrateAdmins, AddSortOrder,
       AddMetricCards, FillOrder, SetVersion, ImportLegacy, ImportDone, Crash, Reorder,
       ReorderDevices, EnrollDevice, UpdateDeviceName, DeleteDevice, Running, vars
  <1>3. \/ pc' = pc
        \/ pc' \in {"down", "objects", "admins", "sort", "cards", "fill", "version", "import", "up"}
    BY DEF Next, Start, OpenDatabase, CreateTable, ObjectsExist, MigrateAdmins, AddSortOrder,
       AddMetricCards, FillOrder, SetVersion, ImportLegacy, ImportDone, Crash, Reorder,
       ReorderDevices, EnrollDevice, UpdateDeviceName, DeleteDevice, Running, Goto, vars
  <1> QED
    BY <1>0, <1>1, <1>2, <1>3

-----------------------------------------------------------------------------
(* The theorems.                                                           *)

LEMMA TableInit == Init => TypeOK
  <1> SUFFICES ASSUME Init PROVE TypeOK
    OBVIOUS
  <1>1. /\ version \in 0..CurrentVersion + 1 /\ tables \subseteq Table
        /\ columns \subseteq AdminColumn \cup DeviceColumn /\ added \in BOOLEAN /\ pc = "down"
    <2>1. version \in {0, 1, CurrentVersion + 1}
      BY DEF Init
    <2>2. version \in 0..CurrentVersion + 1
      BY <2>1 DEF CurrentVersion
    <2>3. columns \subseteq AdminColumn \/ columns = AdminColumn \cup DeviceColumn
      BY DEF Init
    <2>4. tables = {} \/ tables = {"devices"} \/ tables = Table
      BY DEF Init
    <2>5. tables \subseteq Table
      BY <2>4 DEF Table
    <2> QED
      BY <2>2, <2>3, <2>5 DEF Init
  <1>2. DOMAIN table \subseteq Dev /\ \A d \in DOMAIN table : table[d] \in Row
    <2>1. CASE table = <<>>
      BY <2>1
    <2>2. CASE \E s \in SUBSET Dev : table \in [s -> [name : Name, order : {0}]]
      <3>1. 0 \in 0..MaxOrder
        BY DeviceTableAssumption
      <3> QED
        BY <2>2, <3>1 DEF Row
    <2> QED
      BY <2>1, <2>2 DEF Init
  <1> QED
    BY <1>1, <1>2 DEF TypeOK

\* The inductive invariant: the types, and the stages of the migration.
THEOREM MigrationInvHolds == Spec => [](TypeOK /\ MigrationInv)
  <1>1. TypeOK /\ MigrationInv /\ [Next]_vars => (TypeOK /\ MigrationInv)'
    <2> SUFFICES ASSUME TypeOK, MigrationInv, [Next]_vars PROVE (TypeOK /\ MigrationInv)'
      OBVIOUS
    <2>1. MigrationInv'
      BY MigrationStep
    <2>2. TypeOK'
      BY <2>1, TableStep, SchemaStep DEF TypeOK, MigrationInv
    <2> QED
      BY <2>1, <2>2
  <1> QED
    BY <1>1, MigrationInit, TableInit, PTL DEF Spec

\* The rows stay rows of devices and no order leaves its bound, although the numbers
\* grow with every device that is added after a deletion.
THEOREM TypeCorrect == Spec => []TypeOK
  BY MigrationInvHolds, PTL

\* ImportLegacyDeviceJSON looks every device up before it adds it: while the file is
\* imported no row that exists changes, in this start or one that follows a crash.
THEOREM ImportKeepsRowsHolds == Spec => ImportKeepsRows
  <1>1. TypeOK /\ [Next]_vars =>
           [pc = "import" => \A d \in DOMAIN table : d \in DOMAIN table' /\ table'[d] = table[d]]_table
    <2> SUFFICES ASSUME TypeOK, [Next]_vars, table' # table, pc = "import"
                 PROVE  \A d \in DOMAIN table : d \in DOMAIN table' /\ table'[d] = table[d]
      OBVIOUS
    <2>1. PICK d \in Dev, n \in Name : ImportLegacy(d, n)
      BY OthersKeepTable DEF Writing, FillOrder, EnrollDevice, UpdateDeviceName, DeleteDevice,
         Reorder, ReorderDevices, Running
    <2>2. d \notin DOMAIN table /\ Put(d, n)
      BY <2>1 DEF ImportLegacy, MissingDevices
    <2> QED
      BY <2>2, PutFacts
  <1> QED
    BY <1>1, TypeCorrect, PTL DEF Spec, ImportKeepsRows

\* In a migrated database nothing but a drag moves two devices against each other,
\* and a device that is added comes last, whatever gaps deletions have left.
THEOREM OrderStaysHolds == Spec => OrderStays
  <1>1. TypeOK /\ MigrationInv /\ [Next]_vars =>
           [version = CurrentVersion /\ ~Reorder =>
              /\ \A d, e \in DOMAIN table \cap DOMAIN table' : Before(d, e) <=> Before(d, e)'
              /\ \A d \in DOMAIN table \cap DOMAIN table', e \in DOMAIN table' \ DOMAIN table :
                    Before(d, e)']_table
    <2> SUFFICES ASSUME TypeOK, MigrationInv, [Next]_vars, table' # table,
                        version = CurrentVersion, ~Reorder
                 PROVE  /\ \A d, e \in DOMAIN table \cap DOMAIN table' :
                              Before(d, e) <=> Before(d, e)'
                        /\ \A d \in DOMAIN table \cap DOMAIN table',
                              e \in DOMAIN table' \ DOMAIN table : Before(d, e)'
      OBVIOUS
    <2> DEFINE Kept ==
             /\ \A d \in DOMAIN table \cap DOMAIN table' : table'[d].order = table[d].order
             /\ \A d \in DOMAIN table \cap DOMAIN table', e \in DOMAIN table' \ DOMAIN table :
                   table'[d].order < table'[e].order
    <2>1. Kept
      <3>1. ASSUME NEW d \in Dev, NEW n \in Name, ImportLegacy(d, n) \/ EnrollDevice(d, n)
            PROVE  Kept
        <4>1. Put(d, n)
          BY <3>1 DEF ImportLegacy, EnrollDevice
        <4> QED
          BY <4>1, PutFacts
      <3>2. ASSUME NEW d \in Dev, NEW n \in Name, UpdateDeviceName(d, n) PROVE Kept
        <4>1. d \in DOMAIN table /\ table' = [table EXCEPT ![d].name = n]
          BY <3>2 DEF UpdateDeviceName
        <4>2. [table[d] EXCEPT !.name = n].order = table[d].order
          BY <4>1 DEF TypeOK, Row
        <4> QED
          BY <4>1, <4>2
      <3>3. ASSUME NEW d \in Dev, DeleteDevice(d) PROVE Kept
        BY <3>3 DEF DeleteDevice
      <3>4. ~FillOrder
        BY DEF FillOrder, MigrationInv
      <3> QED
        BY <3>1, <3>2, <3>3, <3>4, OthersKeepTable DEF Writing
    <2> QED
      BY <2>1 DEF Before
  <1> QED
    BY <1>1, MigrationInvHolds, PTL DEF Spec, OrderStays

\* A drag that is accepted shows all devices in the order of its list; one made
\* before a device was added or deleted is refused.
THEOREM DraggedAsShownHolds == Spec => DraggedAsShown
  <1>1. TypeOK /\ [Next]_vars =>
           [\A ids \in IdList : ReorderDevices(ids) =>
              /\ \A i, j \in 1..Len(ids) : i < j => Before(ids[i], ids[j])'
              /\ \A d \in DOMAIN table' : \E k \in 1..Len(ids) : ids[k] = d]_table
    <2> SUFFICES ASSUME TypeOK, NEW ids \in IdList, ReorderDevices(ids)
                 PROVE  /\ \A i, j \in 1..Len(ids) : i < j => Before(ids[i], ids[j])'
                        /\ \A d \in DOMAIN table' : \E k \in 1..Len(ids) : ids[k] = d
      OBVIOUS
    <2>1. ASSUME NEW i \in 1..Len(ids) PROVE table'[ids[i]].order = i - 1
      <3>1. table'[ids[i]] = [table[ids[i]] EXCEPT !.order = i - 1] /\ ids[i] \in DOMAIN table
        BY ReorderFacts
      <3>2. table[ids[i]] \in Row
        BY <3>1 DEF TypeOK
      <3> QED
        BY <3>1, <3>2 DEF Row
    <2>2. \A i, j \in 1..Len(ids) : i < j => table'[ids[i]].order < table'[ids[j]].order
      BY <2>1, ReorderFacts
    <2> QED
      BY <2>2, ReorderFacts DEF Before
  <1> QED
    BY <1>1, TypeCorrect, PTL DEF Spec, DraggedAsShown

=============================================================================
