------------------------- MODULE TripHistoryProofs -------------------------
(***************************************************************************)
(* No trip is lost and the list is that of the table: the types, TripsKept *)
(* and ListIsLatest, for any number of instances of the program, any trips *)
(* and any limit of the list.                                              *)
(***************************************************************************)
EXTENDS TripHistory, FiniteSetTheorems, TLAPS

\* The list is found by counting, so tables must be finite.
Finite(db) == IsFiniteSet(db.trips.rows) /\ IsFiniteSet(db.trips_new.rows)

Sound(db) == db \in Database /\ Finite(db)

DatabaseOK == Sound(saved) /\ Sound(work) /\ (txn = NoOne => work = saved)

Typed == TypeOK /\ DatabaseOK

-----------------------------------------------------------------------------
(* What the statements leave *)

LEMMA TripTableSound ==
    ASSUME NEW cols \in SUBSET {"cost", "speed"}, NEW rows \in SUBSET Row
    PROVE  TripTable(cols, rows) \in Table
BY DEF TripTable, Table

LEMMA TableFields ==
    ASSUME NEW t \in Table
    PROVE  /\ t.rows \in SUBSET Row /\ t.cols \in SUBSET {"cost", "speed"}
           /\ t.there => t \in [there : {TRUE}, cols : SUBSET {"cost", "speed"}, rows : SUBSET Row]
           /\ ~t.there => t = NoTable
<1>1. CASE t = NoTable
    BY <1>1 DEF NoTable
<1>2. CASE t \in [there : {TRUE}, cols : SUBSET {"cost", "speed"}, rows : SUBSET Row]
    BY <1>2
<1> QED
    BY <1>1, <1>2 DEF Table

\* A database whose table of trips has other rows.
LEMMA RowsSound ==
    ASSUME NEW db, Sound(db), db.trips.there,
           NEW rows \in SUBSET Row, IsFiniteSet(rows)
    PROVE  Sound([db EXCEPT !.trips.rows = rows])
<1>1. db.trips \in [there : {TRUE}, cols : SUBSET {"cost", "speed"}, rows : SUBSET Row]
    BY TableFields DEF Sound, Database
<1>2. [db.trips EXCEPT !.rows = rows] \in Table
    BY <1>1 DEF Table
<1>3. [db EXCEPT !.trips.rows = rows].trips = [db.trips EXCEPT !.rows = rows]
    BY DEF Sound, Database
<1>4. [db EXCEPT !.trips.rows = rows].trips_new = db.trips_new
    BY DEF Sound, Database
<1>5. [db EXCEPT !.trips.rows = rows] \in Database
    BY <1>2, <1>3, <1>4 DEF Sound, Database
<1>6. [db.trips EXCEPT !.rows = rows].rows = rows
    BY <1>1
<1> QED
    BY <1>3, <1>4, <1>5, <1>6 DEF Sound, Finite

LEMMA ViewSound ==
    ASSUME DatabaseOK, NEW i
    PROVE  Sound(View(i)) /\ View(i).trips.rows \subseteq Row
<1>1. Sound(View(i))
    BY DEF DatabaseOK, View
<1> QED
    BY <1>1, TableFields DEF Sound, Database

LEMMA ExecSound ==
    ASSUME DatabaseOK, txn \in Instance \cup {NoOne}, NEW i \in Instance,
           NEW db, Sound(db), Exec(i, db)
    PROVE  DatabaseOK' /\ txn' \in Instance \cup {NoOne}
BY HistoryAssumption DEF DatabaseOK, Exec

LEMMA RollbackSound ==
    ASSUME DatabaseOK, txn \in Instance \cup {NoOne}, NEW i \in Instance, Rollback(i)
    PROVE  DatabaseOK' /\ txn' \in Instance \cup {NoOne}
BY HistoryAssumption DEF DatabaseOK, Rollback

\* What the list is read from is finite, so the list is one of rows.
LEMMA LatestRows ==
    ASSUME NEW rows \in SUBSET Row, IsFiniteSet(rows), NEW l \in Latest(rows)
    PROVE  l \in Seq(Row)
<1>1. Cardinality(rows) \in Nat
    BY FS_CardinalityType
<1> DEFINE n == IF Cardinality(rows) < Limit THEN Cardinality(rows) ELSE Limit
<1>2. n \in Nat
    BY <1>1, HistoryAssumption
<1>3. l \in [1..n -> rows]
    BY DEF Latest
<1>4. l \in [1..n -> Row]
    BY <1>3
<1> QED
    <2> HIDE DEF n
    <2> QED
        BY <1>2, <1>4

LEMMA MissedTyped ==
    ASSUME TypeOK, NEW i \in Instance
    PROVE  Missed(i) \in [Instance -> BOOLEAN]
BY DEF TypeOK, Missed

LEMMA RefreshTyped ==
    ASSUME TypeOK, DatabaseOK', NEW i \in Instance, NEW answered \in BOOLEAN,
           refreshHistory(i, answered)
    PROVE  list' \in [Instance -> Seq(Row)] /\ missed' \in [Instance -> BOOLEAN]
<1>1. SeenTable(i).rows \in SUBSET Row /\ IsFiniteSet(SeenTable(i).rows)
    <2>1. SeenTable(i) \in Table /\ IsFiniteSet(SeenTable(i).rows)
        BY DEF SeenTable, DatabaseOK, Sound, Finite, Database
    <2> QED
        BY <2>1, TableFields
<1>2. PICK l \in IF answered THEN Latest(SeenTable(i).rows) ELSE {<< >>} :
                list' = [list EXCEPT ![i] = l]
    BY DEF refreshHistory
<1>3. l \in Seq(Row)
    <2>1. CASE answered
        BY <1>1, <1>2, <2>1, LatestRows
    <2>2. CASE ~answered
        BY <1>2, <2>2
    <2> QED
        BY <2>1, <2>2
<1>4. list' \in [Instance -> Seq(Row)]
    BY <1>2, <1>3 DEF TypeOK
<1>5. missed' = [Missed(i) EXCEPT ![i] = ~answered]
    BY DEF refreshHistory
<1> QED
    BY <1>4, <1>5, MissedTyped

-----------------------------------------------------------------------------
(* Types *)

\* What a statement makes of the database it sees.
LEMMA StatementSound ==
    ASSUME Typed, NEW i \in Instance, NEW db,
           \/ NewTable(i) /\ db = [View(i) EXCEPT !.trips = TripTable({"speed"}, {})]
           \/ AddSpeed(i) /\ db = [View(i) EXCEPT !.trips =
                    TripTable(View(i).trips.cols \cup {"speed"}, View(i).trips.rows)]
           \/ CreateNew(i) /\ db = [saved EXCEPT !.trips_new = TripTable({"speed"}, {})]
           \/ CopyRows(i) /\ db = [View(i) EXCEPT !.trips_new =
                    TripTable({"speed"}, View(i).trips.rows)]
           \/ DropOld(i) /\ db = [View(i) EXCEPT !.trips = NoTable]
           \/ RenameNew(i) /\ db = [trips |-> View(i).trips_new, trips_new |-> NoTable]
    PROVE  Sound(db)
<1> DEFINE v == View(i)
<1>1. /\ Sound(v) /\ v.trips.rows \in SUBSET Row /\ v.trips \in Table /\ v.trips_new \in Table
      /\ v.trips.cols \in SUBSET {"cost", "speed"}
      /\ IsFiniteSet(v.trips.rows) /\ IsFiniteSet(v.trips_new.rows)
    BY ViewSound, TableFields DEF Typed, Sound, Database, Finite
<1>2. NoTable \in Table /\ NoTable.rows = {} /\ IsFiniteSet({})
    BY FS_EmptySet DEF Table, NoTable
<1>3. /\ TripTable({"speed"}, {}) \in Table /\ TripTable({"speed"}, {}).rows = {}
      /\ TripTable({"speed"}, v.trips.rows) \in Table
      /\ TripTable({"speed"}, v.trips.rows).rows = v.trips.rows
      /\ TripTable(v.trips.cols \cup {"speed"}, v.trips.rows) \in Table
      /\ TripTable(v.trips.cols \cup {"speed"}, v.trips.rows).rows = v.trips.rows
    <2>1. v.trips.cols \cup {"speed"} \in SUBSET {"cost", "speed"}
        BY <1>1
    <2>2. \A cols, rows : TripTable(cols, rows).rows = rows
        BY DEF TripTable
    <2> QED
        BY <1>1, <2>1, <2>2, TripTableSound
<1>4. \A d, t : Sound(d) /\ t \in Table /\ IsFiniteSet(t.rows) =>
                    Sound([d EXCEPT !.trips = t]) /\ Sound([d EXCEPT !.trips_new = t])
    BY DEF Sound, Database, Finite
<1>5. Sound(saved)
    BY DEF Typed, DatabaseOK
<1> HIDE DEF v
<1>6. CASE db = [v EXCEPT !.trips = TripTable({"speed"}, {})]
    BY <1>1, <1>2, <1>3, <1>4, <1>6
<1>7. CASE db = [v EXCEPT !.trips = TripTable(v.trips.cols \cup {"speed"}, v.trips.rows)]
    BY <1>1, <1>2, <1>3, <1>4, <1>7
<1>8. CASE db = [saved EXCEPT !.trips_new = TripTable({"speed"}, {})]
    BY <1>2, <1>3, <1>4, <1>5, <1>8
<1>9. CASE db = [v EXCEPT !.trips_new = TripTable({"speed"}, v.trips.rows)]
    BY <1>1, <1>2, <1>3, <1>4, <1>9
<1>10. CASE db = [v EXCEPT !.trips = NoTable]
    BY <1>1, <1>2, <1>3, <1>4, <1>10
<1>11. CASE db = [trips |-> v.trips_new, trips_new |-> NoTable]
    BY <1>1, <1>2, <1>11 DEF Sound, Database, Finite
<1> QED
    BY <1>6, <1>7, <1>8, <1>9, <1>10, <1>11 DEF v

\* The types apart from the database.
Others ==
    /\ now \in Nat /\ inserted \in Nat /\ pc \in [Instance -> Label]
    /\ timer \in [Instance -> BOOLEAN] /\ missed \in [Instance -> BOOLEAN]
    /\ list \in [Instance -> Seq(Row)] /\ kept \in SUBSET Row

LEMMA TypedParts ==
    /\ Typed <=> DatabaseOK /\ txn \in Instance \cup {NoOne} /\ Others
    /\ Typed' <=> DatabaseOK' /\ txn' \in Instance \cup {NoOne} /\ Others'
BY DEF Typed, TypeOK, DatabaseOK, Sound, Others

LEMMA GoTyped ==
    ASSUME Others, NEW i \in Instance, NEW from, NEW to \in Label, Go(i, from, to)
    PROVE  pc' \in [Instance -> Label]
BY DEF Others, Go

\* initDatabase and createTable keep the types.
LEMMA StartTyped ==
    ASSUME Typed, NEW i \in Instance,
           \/ initDatabase(i) \/ FindTable(i) \/ AddSpeed(i) \/ NewTable(i) \/ NoTableMade(i)
           \/ StartMigration(i) \/ CreateNew(i) \/ CopyRows(i) \/ DropOld(i) \/ RenameNew(i)
           \/ CommitMigration(i) \/ MigrationFails(i) \/ Load(i)
    PROVE  Typed'
<1>1. TypeOK /\ DatabaseOK /\ txn \in Instance \cup {NoOne} /\ Others
    BY TypedParts DEF Typed
<1>2. \A a \in Label, b \in Label : Go(i, a, b) => pc' \in [Instance -> Label]
    BY <1>1 DEF Others, Go
<1>3. Missed(i) \in [Instance -> BOOLEAN]
    BY <1>1, MissedTyped
<1>4. ASSUME UNCHANGED database, UNCHANGED <<now, inserted, kept, missed>>, SameList,
             pc' \in [Instance -> Label]
      PROVE  Typed'
    BY <1>1, <1>4, TypedParts DEF DatabaseOK, database, Others, SameList
<1>5. ASSUME NEW db, Sound(db), Exec(i, db), missed' = Missed(i),
             UNCHANGED <<now, inserted, kept>>, SameList, pc' \in [Instance -> Label]
      PROVE  Typed'
    <2>1. DatabaseOK' /\ txn' \in Instance \cup {NoOne}
        BY <1>1, <1>5, ExecSound
    <2> QED
        BY <1>1, <1>3, <1>5, <2>1, TypedParts DEF Others, SameList
<1>6. CASE initDatabase(i)
    BY <1>1, <1>4, <1>6, GoTyped DEF initDatabase, Label
<1>7. CASE FindTable(i) \/ NoTableMade(i) \/ StartMigration(i)
    BY <1>1, <1>4, <1>7, GoTyped DEF FindTable, NoTableMade, StartMigration, Label
<1>8. CASE AddSpeed(i)
    BY <1>1, <1>5, <1>8, GoTyped, StatementSound DEF AddSpeed, Label
<1>9. CASE NewTable(i)
    BY <1>1, <1>5, <1>9, GoTyped, StatementSound DEF NewTable, Label
<1>10. CASE CreateNew(i)
    <2> DEFINE db == [saved EXCEPT !.trips_new = TripTable({"speed"}, {})]
    <2>1. Sound(db) /\ Begin(i, db) /\ pc' \in [Instance -> Label]
        BY <1>1, <1>10, GoTyped, StatementSound DEF CreateNew, Label
    <2>2. DatabaseOK' /\ txn' \in Instance \cup {NoOne}
        BY <1>1, <2>1, HistoryAssumption DEF Begin, DatabaseOK
    <2> QED
        BY <1>1, <1>3, <1>10, <2>1, <2>2, TypedParts DEF CreateNew, Others, SameList
<1>11. CASE CopyRows(i)
    BY <1>1, <1>5, <1>11, GoTyped, StatementSound DEF CopyRows, Label
<1>12. CASE DropOld(i)
    BY <1>1, <1>5, <1>12, GoTyped, StatementSound DEF DropOld, Label
<1>13. CASE RenameNew(i)
    BY <1>1, <1>5, <1>13, GoTyped, StatementSound DEF RenameNew, Label
<1>14. CASE CommitMigration(i)
    <2>1. DatabaseOK' /\ txn' \in Instance \cup {NoOne}
        BY <1>1, <1>14, RollbackSound DEF CommitMigration, Commit, DatabaseOK, database
    <2>2. pc' \in [Instance -> Label]
        BY <1>1, <1>14, GoTyped DEF CommitMigration, Label
    <2> QED
        BY <1>1, <1>3, <1>14, <2>1, <2>2, TypedParts DEF CommitMigration, Others, SameList
<1>15. CASE MigrationFails(i)
    <2>1. DatabaseOK' /\ txn' \in Instance \cup {NoOne}
        BY <1>1, <1>15, RollbackSound DEF MigrationFails
    <2>2. pc' \in [Instance -> Label]
        BY <1>1, <1>15, GoTyped DEF MigrationFails, Label
    <2> QED
        BY <1>1, <1>15, <2>1, <2>2, TypedParts DEF MigrationFails, Others, SameList
<1>16. CASE Load(i)
    <2>1. DatabaseOK' /\ txn' \in Instance \cup {NoOne}
        BY <1>1, <1>16 DEF Load, database, DatabaseOK
    <2>2. pc' \in [Instance -> Label]
        BY <1>1, <1>16, GoTyped DEF Load, Label
    <2>3. list' \in [Instance -> Seq(Row)] /\ missed' \in [Instance -> BOOLEAN]
        BY <1>1, <1>16, <2>1, RefreshTyped DEF Load, RefreshAndTell
    <2>4. timer' \in [Instance -> BOOLEAN]
        BY <1>1, <1>16 DEF Load, Others
    <2> QED
        BY <1>1, <1>16, <2>1, <2>2, <2>3, <2>4, TypedParts DEF Load, Others
<1> QED
    BY <1>6, <1>7, <1>8, <1>9, <1>10, <1>11, <1>12, <1>13, <1>14, <1>15, <1>16

\* What the pages and the timer call keeps the types.
LEMMA CallTyped ==
    ASSUME Typed, NEW i \in Instance,
           \/ insertTrip(i) \/ (\E k \in 1..Limit : deleteTrip(i, k)) \/ clearAllTrips(i)
           \/ ClearFails(i) \/ (\E answered \in BOOLEAN : onAutoSyncTimeout(i, answered))
           \/ OpenPage(i) \/ ClosePage(i) \/ Exit(i)
    PROVE  Typed'
<1>1. TypeOK /\ DatabaseOK /\ txn \in Instance \cup {NoOne} /\ Others
    BY TypedParts DEF Typed
<1>2. /\ Sound(View(i)) /\ View(i).trips.rows \in SUBSET Row
      /\ IsFiniteSet(View(i).trips.rows)
    BY <1>1, ViewSound DEF Sound, Finite
<1>3. UNCHANGED database => DatabaseOK' /\ txn' \in Instance \cup {NoOne}
    BY <1>1 DEF database, DatabaseOK
<1>4. \A answered \in BOOLEAN : DatabaseOK' /\ refreshHistory(i, answered) =>
          list' \in [Instance -> Seq(Row)] /\ missed' \in [Instance -> BOOLEAN]
    BY <1>1, RefreshTyped
<1>5. CASE insertTrip(i)
    <2>1. PICK trip \in Trip :
            /\ Exec(i, [View(i) EXCEPT !.trips.rows =
                        @ \cup {[id |-> inserted + 1, ts |-> now, trip |-> trip]}])
            /\ kept' = IF txn = NoOne
                       THEN kept \cup {[id |-> inserted + 1, ts |-> now, trip |-> trip]} ELSE kept
        BY <1>5 DEF insertTrip
    <2> DEFINE row == [id |-> inserted + 1, ts |-> now, trip |-> trip]
               rows == View(i).trips.rows \cup {row}
    <2>2. row \in Row
        BY <1>1 DEF Others, Row
    <2>3. rows \in SUBSET Row /\ IsFiniteSet(rows)
        <3>1. IsFiniteSet(rows)
            BY <1>2, FS_AddElement
        <3> QED
            BY <1>2, <2>2, <3>1
    <2>4. View(i).trips.there
        <3>1. View(i).trips \in Table /\ View(i).trips.cols # {}
            BY <1>2, <1>5 DEF insertTrip, Sound, Database
        <3>2. NoTable.cols = {}
            BY DEF NoTable
        <3> QED
            BY <3>1, <3>2, TableFields
    <2>5. Sound([View(i) EXCEPT !.trips.rows = rows])
        <3> HIDE DEF rows
        <3> QED
            BY <1>2, <2>3, <2>4, RowsSound
    <2>6. DatabaseOK' /\ txn' \in Instance \cup {NoOne}
        BY <1>1, <2>1, <2>5, ExecSound
    <2>7. kept' \in SUBSET Row /\ inserted' \in Nat
        BY <1>1, <1>5, <2>1, <2>2 DEF insertTrip, Others
    <2>8. list' \in [Instance -> Seq(Row)] /\ missed' \in [Instance -> BOOLEAN]
        BY <1>4, <1>5, <2>6 DEF insertTrip, RefreshAndTell
    <2> QED
        BY <1>1, <1>5, <2>6, <2>7, <2>8, TypedParts DEF insertTrip, Others
<1>6. ASSUME NEW k \in 1..Limit, deleteTrip(i, k) PROVE Typed'
    <2> DEFINE rows == View(i).trips.rows \ Deleted(i, k)
    <2>1. rows \in SUBSET Row /\ IsFiniteSet(rows)
        <3>1. rows \subseteq View(i).trips.rows
            OBVIOUS
        <3>2. IsFiniteSet(rows)
            BY <1>2, <3>1, FS_Subset
        <3> QED
            BY <1>2, <3>1, <3>2
    <2>2. Sound([View(i) EXCEPT !.trips.rows = rows])
        <3>1. View(i).trips.there
            BY <1>6 DEF deleteTrip
        <3> HIDE DEF rows
        <3> QED
            BY <1>2, <2>1, <3>1, RowsSound
    <2>3. DatabaseOK' /\ txn' \in Instance \cup {NoOne}
        BY <1>1, <1>6, <2>2, ExecSound DEF deleteTrip
    <2>4. kept' \in SUBSET Row
        BY <1>1, <1>6 DEF deleteTrip, Others
    <2>5. list' \in [Instance -> Seq(Row)] /\ missed' \in [Instance -> BOOLEAN]
        BY <1>4, <1>6, <2>3 DEF deleteTrip, RefreshAndTell
    <2> QED
        BY <1>1, <1>6, <2>3, <2>4, <2>5, TypedParts DEF deleteTrip, Others
<1>7. CASE clearAllTrips(i)
    <2> DEFINE db == [View(i) EXCEPT !.trips.rows = {}]
    <2>1. Sound(db)
        <3>1. View(i).trips.there /\ IsFiniteSet({})
            BY <1>7, FS_EmptySet DEF clearAllTrips
        <3> QED
            BY <1>2, <3>1, RowsSound
    <2>2. \/ saved' = db /\ work' = db /\ txn' = NoOne /\ kept' = {}
          \/ work' = db /\ txn' = i /\ UNCHANGED <<saved, kept>>
          \/ Rollback(i) /\ UNCHANGED kept
        BY <1>7 DEF clearAllTrips
    <2>3. DatabaseOK' /\ txn' \in Instance \cup {NoOne}
        <3>1. CASE saved' = db /\ work' = db /\ txn' = NoOne
            BY <2>1, <3>1 DEF DatabaseOK
        <3>2. CASE work' = db /\ txn' = i /\ UNCHANGED saved
            <4> HIDE DEF db
            <4> QED
                BY <1>1, <2>1, <3>2, HistoryAssumption DEF DatabaseOK
        <3>3. CASE Rollback(i)
            BY <1>1, <3>3, RollbackSound
        <3> QED
            BY <2>2, <3>1, <3>2, <3>3
    <2>4. kept' \in SUBSET Row
        BY <1>1, <2>2 DEF Others
    <2>5. list' \in [Instance -> Seq(Row)] /\ missed' \in [Instance -> BOOLEAN]
        BY <1>4, <1>7, <2>3 DEF clearAllTrips
    <2> QED
        BY <1>1, <1>7, <2>3, <2>4, <2>5, TypedParts DEF clearAllTrips, Others
<1>8. CASE ClearFails(i)
    <2>1. DatabaseOK' /\ txn' \in Instance \cup {NoOne}
        BY <1>1, <1>8, RollbackSound DEF ClearFails
    <2>2. missed' \in [Instance -> BOOLEAN]
        BY <1>1, <1>8 DEF ClearFails, Others
    <2> QED
        BY <1>1, <1>8, <2>1, <2>2, TypedParts DEF ClearFails, Others
<1>9. ASSUME NEW answered \in BOOLEAN, onAutoSyncTimeout(i, answered) PROVE Typed'
    BY <1>1, <1>3, <1>4, <1>9, TypedParts DEF onAutoSyncTimeout, Others
<1>10. CASE OpenPage(i)
    BY <1>1, <1>3, <1>4, <1>10, TypedParts DEF OpenPage, Others
<1>11. CASE ClosePage(i)
    BY <1>1, <1>3, <1>11, TypedParts DEF ClosePage, Others
<1>12. CASE Exit(i)
    <2>1. DatabaseOK' /\ txn' \in Instance \cup {NoOne}
        BY <1>1, <1>12, RollbackSound DEF Exit
    <2>2. << >> \in Seq(Row) /\ "off" \in Label
        BY DEF Label
    <2> QED
        BY <1>1, <1>12, <2>1, <2>2, TypedParts DEF Exit, Others
<1> QED
    BY <1>5, <1>6, <1>7, <1>8, <1>9, <1>10, <1>11, <1>12

\* Typed is inductive.
LEMMA TypedAlways == Spec => []Typed
<1>1. Init => Typed
    <2> SUFFICES ASSUME Init PROVE Typed
        OBVIOUS
    <2>1. NoTable \in Table /\ IsFiniteSet(NoTable.rows)
        BY FS_EmptySet DEF NoTable, Table
    <2>2. saved.trips \in Table /\ IsFiniteSet(saved.trips.rows) /\ saved.trips_new = NoTable
        BY HistoryAssumption DEF Init
    <2>3. saved \in Database
        BY <2>1, <2>2 DEF Init, Database
    <2>4. DatabaseOK /\ txn \in Instance \cup {NoOne}
        BY <2>1, <2>2, <2>3 DEF Init, DatabaseOK, Sound, Finite
    <2>5. kept \in SUBSET Row
        BY <2>2, TableFields DEF Init
    <2>6. "off" \in Label /\ << >> \in Seq(Row)
        BY DEF Label
    <2>7. Others
        BY <2>5, <2>6 DEF Init, Others
    <2> QED
        BY <2>4, <2>7, TypedParts
<1>2. Typed /\ [Next]_vars => Typed'
    <2> SUFFICES ASSUME Typed, [Next]_vars PROVE Typed'
        OBVIOUS
    <2>1. ASSUME NEW i \in Instance, Step(i) PROVE Typed'
        BY <2>1, StartTyped, CallTyped DEF Step
    <2>2. CASE Second
        BY <2>2, TypedParts DEF Second, Others, database, DatabaseOK
    <2>3. CASE UNCHANGED vars
        BY <2>3, TypedParts DEF vars, Others, database, DatabaseOK
    <2> QED
        BY <2>1, <2>2, <2>3 DEF Next
<1> QED
    BY <1>1, <1>2, PTL DEF Spec

\* Every variable has its type, in the file and in every transaction's copy,
\* whatever statements fail and whenever a program dies (HistoryDatabase.cpp).
THEOREM TypeCorrect == Spec => []TypeOK
<1>1. Typed => TypeOK
    BY DEF Typed
<1> QED
    BY <1>1, TypedAlways, PTL

-----------------------------------------------------------------------------
(* Trips are kept *)

Migrating == {"copy", "drop", "rename"}

\* An instance has its migration's transaction open while it migrates, and none
\* before.
OwnTransaction ==
    \A i \in Instance :
        /\ pc[i] \in Migrating \cup {"commit"} => txn = i
        /\ pc[i] \in {"off", "closed", "check", "create"} => txn # i

\* Where the trips are, step by step, in the copy that will be the database.
CopyKept ==
    \A i \in Instance :
        /\ pc[i] \in {"copy", "commit"} => kept \subseteq work.trips.rows
        /\ pc[i] \in {"drop", "rename"} => kept \subseteq work.trips_new.rows
        /\ txn = i /\ pc[i] \notin Migrating => ~work.trips_new.there

IInv == TripsKept /\ OwnTransaction /\ CopyKept

\* A change of nothing but pc's, of an instance that has no transaction and
\* does not get into one.
LEMMA StepAside ==
    ASSUME Typed, IInv, NEW i \in Instance, UNCHANGED <<database, kept>>,
           NEW from, NEW to, Go(i, from, to),
           to \notin Migrating \cup {"commit"},
           to \in {"off", "closed", "check", "create"} =>
                from \in {"off", "closed", "check", "create"},
           from \notin Migrating
    PROVE  IInv'
<1>1. pc' = [pc EXCEPT ![i] = to] /\ pc \in [Instance -> Label] /\ pc[i] = from
    BY DEF Go, Typed, TypeOK
<1>2. TripsKept'
    BY DEF IInv, TripsKept, database
<1>3. OwnTransaction'
    BY <1>1 DEF IInv, OwnTransaction, database
<1>4. CopyKept'
    BY <1>1 DEF IInv, CopyKept, Migrating, database
<1> QED
    BY <1>2, <1>3, <1>4 DEF IInv

\* A statement outside of transactions, or the end of one, that keeps the trips.
LEMMA OutOfTransaction ==
    ASSUME Typed, IInv, NEW i \in Instance, txn \in {i, NoOne}, txn' = NoOne,
           kept' \subseteq saved'.trips.rows, ~saved'.trips_new.there,
           pc'[i] \notin Migrating \cup {"commit"},
           \A j \in Instance \ {i} : pc'[j] = pc[j]
    PROVE  IInv'
<1>1. \A j \in Instance \ {i} : pc[j] \notin Migrating \cup {"commit"}
    BY HistoryAssumption DEF IInv, OwnTransaction
<1>2. \A j \in Instance : pc'[j] \notin Migrating \cup {"commit"}
    BY <1>1
<1> QED
    BY <1>2, HistoryAssumption DEF IInv, TripsKept, OwnTransaction, CopyKept, Migrating

\* The end of a transaction whose copy is thrown away.
LEMMA RolledBack ==
    ASSUME Typed, IInv, NEW i \in Instance, Rollback(i), UNCHANGED kept,
           pc' \in [Instance -> Label],
           pc'[i] \notin Migrating \cup {"commit"},
           \A j \in Instance \ {i} : pc'[j] = pc[j]
    PROVE  IInv'
<1>1. TripsKept' /\ txn' # i
    BY HistoryAssumption DEF IInv, TripsKept, Rollback
<1>2. OwnTransaction'
    BY <1>1, HistoryAssumption DEF IInv, OwnTransaction, Rollback, Migrating
<1>3. CopyKept'
    BY <1>1, HistoryAssumption DEF IInv, OwnTransaction, CopyKept, Rollback, Migrating
<1> QED
    BY <1>1, <1>2, <1>3 DEF IInv

\* A statement in a transaction, or its beginning.
LEMMA InTransaction ==
    ASSUME Typed, IInv, NEW i \in Instance, txn \in {i, NoOne}, txn' = i,
           UNCHANGED <<saved, kept>>, pc' \in [Instance -> Label],
           \A j \in Instance \ {i} : pc'[j] = pc[j],
           pc'[i] \notin {"off", "closed", "check", "create"},
           pc'[i] \in {"copy", "commit"} => kept \subseteq work'.trips.rows,
           pc'[i] \in {"drop", "rename"} => kept \subseteq work'.trips_new.rows,
           pc'[i] \notin Migrating => ~work'.trips_new.there
    PROVE  IInv'
<1>1. \A j \in Instance \ {i} : pc[j] \notin Migrating \cup {"commit"}
    BY HistoryAssumption DEF IInv, OwnTransaction
<1>2. TripsKept'
    BY DEF IInv, TripsKept
<1>3. OwnTransaction' /\ CopyKept'
    BY <1>1 DEF OwnTransaction, CopyKept, Migrating
<1> QED
    BY <1>2, <1>3 DEF IInv

\* initDatabase and createTable lose no trip.
LEMMA StartKeeps ==
    ASSUME Typed, IInv, NEW i \in Instance,
           \/ initDatabase(i) \/ FindTable(i) \/ AddSpeed(i) \/ NewTable(i) \/ NoTableMade(i)
           \/ StartMigration(i) \/ CreateNew(i) \/ CopyRows(i) \/ DropOld(i) \/ RenameNew(i)
           \/ CommitMigration(i) \/ MigrationFails(i) \/ Load(i)
    PROVE  IInv'
<1>1. /\ saved \in Database /\ work \in Database /\ pc \in [Instance -> Label]
      /\ txn \in Instance \cup {NoOne} /\ NoOne \notin Instance
    BY HistoryAssumption DEF Typed, TypeOK
<1>2. TripsKept /\ OwnTransaction /\ CopyKept
    BY DEF IInv
<1>3. \A from, to : Go(i, from, to) =>
          pc[i] = from /\ pc'[i] = to /\ \A j \in Instance \ {i} : pc'[j] = pc[j]
    BY <1>1 DEF Go
<1>4. CASE initDatabase(i) \/ FindTable(i) \/ NoTableMade(i) \/ StartMigration(i) \/ Load(i)
    <2>1. UNCHANGED <<database, kept>>
        BY <1>4 DEF initDatabase, FindTable, NoTableMade, StartMigration, Load
    <2>2. PICK from, to :
            /\ Go(i, from, to)
            /\ \/ from = "off" /\ to \in {"check", "closed"}
               \/ from = "check" /\ to \in {"load", "failed", "create"}
               \/ from = "load" /\ to = "ready"
        BY <1>4 DEF initDatabase, FindTable, NoTableMade, StartMigration, Load
    <2> QED
        BY <2>1, <2>2, StepAside DEF Migrating
<1>5. CASE AddSpeed(i) \/ NewTable(i)
    <2>1. pc[i] = "check" /\ pc'[i] = "load" /\ \A j \in Instance \ {i} : pc'[j] = pc[j]
        BY <1>3, <1>5 DEF AddSpeed, NewTable
    <2>2. txn # i
        BY <1>2, <2>1 DEF OwnTransaction
    <2>3. View(i) = saved
        BY <2>2 DEF View
    <2>4. txn = NoOne /\ txn' = NoOne /\ UNCHANGED kept
        BY <1>5, <2>2 DEF AddSpeed, NewTable, Exec
    <2>5. kept' \subseteq saved'.trips.rows /\ ~saved'.trips_new.there
        <3>1. CASE AddSpeed(i)
            <4>1. saved' = [saved EXCEPT !.trips =
                                TripTable(saved.trips.cols \cup {"speed"}, saved.trips.rows)]
                BY <1>1, <2>2, <2>3, <3>1 DEF AddSpeed, Exec
            <4>2. saved'.trips.rows = saved.trips.rows /\ saved'.trips_new = saved.trips_new
                BY <1>1, <4>1 DEF Database, TripTable
            <4> QED
                BY <1>2, <2>4, <4>2 DEF TripsKept
        <3>2. CASE NewTable(i)
            <4>1. saved' = [saved EXCEPT !.trips = TripTable({"speed"}, {})]
                BY <1>1, <2>2, <2>3, <3>2 DEF NewTable, Exec
            <4>2. saved'.trips_new = saved.trips_new
                BY <1>1, <4>1 DEF Database
            <4>3. saved.trips = NoTable
                BY <1>1, <2>3, <3>2, TableFields DEF NewTable, Database
            <4>4. kept = {}
                BY <1>2, <4>3 DEF TripsKept, NoTable
            <4> QED
                BY <1>2, <2>4, <4>2, <4>4 DEF TripsKept
        <3> QED
            BY <1>5, <3>1, <3>2
    <2> QED
        BY <2>1, <2>4, <2>5, OutOfTransaction DEF Migrating
<1>6. CASE CreateNew(i)
    <2>1. pc'[i] = "copy" /\ \A j \in Instance \ {i} : pc'[j] = pc[j]
        BY <1>3, <1>6 DEF CreateNew
    <2>2. /\ txn = NoOne /\ txn' = i /\ UNCHANGED <<saved, kept>>
          /\ work' = [saved EXCEPT !.trips_new = TripTable({"speed"}, {})]
        BY <1>6 DEF CreateNew, Begin
    <2>3. kept \subseteq work'.trips.rows
        BY <1>1, <1>2, <2>2 DEF TripsKept, Database
    <2>4. pc' \in [Instance -> Label]
        BY <1>1, <1>6 DEF CreateNew, Go, Label
    <2> QED
        BY <2>1, <2>2, <2>3, <2>4, InTransaction DEF Migrating
<1>7. CASE CopyRows(i) \/ DropOld(i) \/ RenameNew(i)
    <2>1. pc[i] \in Migrating
        BY <1>3, <1>7 DEF CopyRows, DropOld, RenameNew, Migrating
    <2>2. txn = i /\ View(i) = work
        BY <1>2, <2>1 DEF OwnTransaction, View
    <2>3. txn' = i /\ UNCHANGED <<saved, kept>>
        BY <1>7, <2>2 DEF CopyRows, DropOld, RenameNew, Exec
    <2>4. pc' \in [Instance -> Label] /\ \A j \in Instance \ {i} : pc'[j] = pc[j]
        BY <1>1, <1>3, <1>7 DEF CopyRows, DropOld, RenameNew, Go, Label
    <2>5. CASE CopyRows(i)
        <3>1. pc[i] = "copy" /\ pc'[i] = "drop"
            BY <1>3, <2>5 DEF CopyRows
        <3>2. work'.trips_new.rows = work.trips.rows
            BY <1>1, <2>2, <2>5 DEF CopyRows, Exec, Database, TripTable
        <3>3. kept \subseteq work'.trips_new.rows
            BY <1>2, <3>1, <3>2 DEF CopyKept
        <3> QED
            BY <2>2, <2>3, <2>4, <3>1, <3>3, InTransaction DEF Migrating
    <2>6. CASE DropOld(i)
        <3>1. pc[i] = "drop" /\ pc'[i] = "rename"
            BY <1>3, <2>6 DEF DropOld
        <3>2. work'.trips_new = work.trips_new
            BY <1>1, <2>2, <2>6 DEF DropOld, Exec, Database
        <3>3. kept \subseteq work'.trips_new.rows
            BY <1>2, <3>1, <3>2 DEF CopyKept
        <3> QED
            BY <2>2, <2>3, <2>4, <3>1, <3>3, InTransaction DEF Migrating
    <2>7. CASE RenameNew(i)
        <3>1. pc[i] = "rename" /\ pc'[i] = "commit"
            BY <1>3, <2>7 DEF RenameNew
        <3>2. work'.trips = work.trips_new /\ ~work'.trips_new.there
            BY <2>2, <2>7 DEF RenameNew, Exec, NoTable
        <3>3. kept \subseteq work'.trips.rows
            BY <1>2, <3>1, <3>2 DEF CopyKept
        <3> QED
            BY <2>2, <2>3, <2>4, <3>1, <3>2, <3>3, InTransaction DEF Migrating
    <2> QED
        BY <1>7, <2>5, <2>6, <2>7
<1>8. CASE CommitMigration(i)
    <2>1. /\ pc[i] = "commit" /\ pc'[i] = "load" /\ \A j \in Instance \ {i} : pc'[j] = pc[j]
          /\ pc' \in [Instance -> Label] /\ UNCHANGED kept
        BY <1>1, <1>3, <1>8 DEF CommitMigration, Go, Label
    <2>2. txn = i /\ kept \subseteq work.trips.rows /\ ~work.trips_new.there
        BY <1>2, <2>1 DEF OwnTransaction, CopyKept, Migrating
    <2>3. CASE saved' = work /\ txn' = NoOne
        BY <2>1, <2>2, <2>3, OutOfTransaction DEF Migrating
    <2>4. CASE UNCHANGED database
        BY <2>1, <2>2, <2>4, InTransaction DEF Migrating, database
    <2>5. CASE Rollback(i)
        BY <2>1, <2>5, RolledBack DEF Migrating
    <2> QED
        BY <1>8, <2>3, <2>4, <2>5 DEF CommitMigration, Commit
<1>9. CASE MigrationFails(i)
    <2>1. /\ pc'[i] = "failed" /\ \A j \in Instance \ {i} : pc'[j] = pc[j]
          /\ pc' \in [Instance -> Label] /\ UNCHANGED kept /\ Rollback(i)
        BY <1>1, <1>3, <1>9 DEF MigrationFails, Go, Label
    <2> QED
        BY <2>1, RolledBack DEF Migrating
<1> QED
    BY <1>4, <1>5, <1>6, <1>7, <1>8, <1>9

\* Nor do the calls of the pages and of the timer, and the end of the program.
LEMMA CallKeeps ==
    ASSUME Typed, IInv, NEW i \in Instance,
           \/ insertTrip(i) \/ (\E k \in 1..Limit : deleteTrip(i, k)) \/ clearAllTrips(i)
           \/ ClearFails(i) \/ (\E answered \in BOOLEAN : onAutoSyncTimeout(i, answered))
           \/ OpenPage(i) \/ ClosePage(i) \/ Exit(i)
    PROVE  IInv'
<1>1. /\ saved \in Database /\ work \in Database /\ pc \in [Instance -> Label]
      /\ txn \in Instance \cup {NoOne} /\ NoOne \notin Instance
    BY HistoryAssumption DEF Typed, TypeOK
<1>2. TripsKept /\ OwnTransaction /\ CopyKept
    BY DEF IInv
<1>3. Open(i) => /\ pc[i] \notin Migrating \cup {"commit"}
                 /\ pc[i] \notin {"off", "closed", "check", "create"}
                 /\ ~View(i).trips_new.there
    BY <1>2 DEF Open, Migrating, View, CopyKept, TripsKept
<1>4. \A rows : /\ [View(i) EXCEPT !.trips.rows = rows].trips.rows = rows
                /\ [View(i) EXCEPT !.trips.rows = rows].trips_new = View(i).trips_new
    <2>1. View(i) \in Database /\ View(i).trips \in Table
        BY <1>1 DEF View, Database
    <2>2. \A rows : [View(i).trips EXCEPT !.rows = rows].rows = rows
        <3>1. CASE View(i).trips = NoTable
            BY <3>1 DEF NoTable
        <3>2. CASE View(i).trips \in [there : {TRUE}, cols : SUBSET {"cost", "speed"},
                                       rows : SUBSET Row]
            BY <3>2
        <3> QED
            BY <2>1, <3>1, <3>2 DEF Table
    <2> QED
        BY <2>1, <2>2 DEF Database
\* A statement outside of transactions and one in the instance's own.
<1>5. ASSUME NEW rows, Open(i), Exec(i, [View(i) EXCEPT !.trips.rows = rows]), UNCHANGED pc,
             txn = NoOne => kept' \subseteq rows, txn = i => UNCHANGED kept
      PROVE  IInv'
    <2>1. CASE txn = NoOne
        <3>1. kept' \subseteq saved'.trips.rows /\ ~saved'.trips_new.there /\ txn' = NoOne
            BY <1>1, <1>3, <1>4, <1>5, <2>1 DEF Exec
        <3> QED
            BY <1>3, <1>5, <2>1, <3>1, OutOfTransaction
    <2>2. CASE txn = i
        <3>1. UNCHANGED <<saved, kept>> /\ ~work'.trips_new.there /\ txn' = i
            BY <1>3, <1>4, <1>5, <2>2 DEF Exec
        <3> QED
            BY <1>1, <1>3, <1>5, <2>2, <3>1, InTransaction DEF Migrating
    <2> QED
        BY <1>5, <2>1, <2>2 DEF Exec
<1>6. CASE insertTrip(i)
    <2>1. PICK trip \in Trip :
            LET row == [id |-> inserted + 1, ts |-> now, trip |-> trip]
            IN  /\ Exec(i, [View(i) EXCEPT !.trips.rows = @ \cup {row}])
                /\ kept' = IF txn = NoOne THEN kept \cup {row} ELSE kept
        BY <1>6 DEF insertTrip
    <2> DEFINE row == [id |-> inserted + 1, ts |-> now, trip |-> trip]
               rows == View(i).trips.rows \cup {row}
    <2>2. Exec(i, [View(i) EXCEPT !.trips.rows = rows])
        BY <2>1
    <2>3. txn = NoOne => kept' \subseteq rows
        BY <1>1, <1>2, <2>1 DEF View, TripsKept
    <2>4. txn = i => UNCHANGED kept
        BY <1>1, <2>1
    <2>5. Open(i) /\ UNCHANGED pc
        BY <1>6 DEF insertTrip
    <2> QED
        BY <1>5, <2>2, <2>3, <2>4, <2>5
<1>7. ASSUME NEW k \in 1..Limit, deleteTrip(i, k) PROVE IInv'
    <2> DEFINE rows == View(i).trips.rows \ Deleted(i, k)
    <2>1. Open(i) /\ UNCHANGED pc /\ Exec(i, [View(i) EXCEPT !.trips.rows = rows])
        BY <1>7 DEF deleteTrip
    <2>2. kept' = IF txn = NoOne THEN kept \ Deleted(i, k) ELSE kept
        BY <1>7 DEF deleteTrip
    <2>3. txn = NoOne => kept' \subseteq rows
        BY <1>1, <1>2, <2>2 DEF View, TripsKept
    <2>4. txn = i => UNCHANGED kept
        BY <1>1, <2>2
    <2> QED
        BY <1>5, <2>1, <2>3, <2>4
<1>8. CASE clearAllTrips(i)
    <2> DEFINE cleared == [View(i) EXCEPT !.trips.rows = {}]
    <2>1. /\ Open(i) /\ UNCHANGED pc /\ txn \in {i, NoOne}
          /\ \/ saved' = cleared /\ work' = cleared /\ txn' = NoOne /\ kept' = {}
             \/ work' = cleared /\ txn' = i /\ UNCHANGED <<saved, kept>>
             \/ Rollback(i) /\ UNCHANGED kept
        BY <1>8 DEF clearAllTrips
    <2>2. ~cleared.trips_new.there
        BY <1>3, <1>4, <2>1
    <2>3. CASE saved' = cleared /\ txn' = NoOne /\ kept' = {}
        BY <1>3, <2>1, <2>2, <2>3, OutOfTransaction
    <2>4. CASE work' = cleared /\ txn' = i /\ UNCHANGED <<saved, kept>>
        <3> HIDE DEF cleared
        <3> QED
            BY <1>1, <1>3, <2>1, <2>2, <2>4, InTransaction DEF Migrating
    <2>5. CASE Rollback(i) /\ UNCHANGED kept
        BY <1>1, <1>3, <2>1, <2>5, RolledBack
    <2> QED
        BY <2>1, <2>3, <2>4, <2>5
<1>9. CASE ClearFails(i)
    BY <1>1, <1>3, <1>9, RolledBack DEF ClearFails
<1>10. CASE Exit(i)
    <2>1. /\ pc' \in [Instance -> Label] /\ pc'[i] = "off"
          /\ \A j \in Instance \ {i} : pc'[j] = pc[j]
        BY <1>1, <1>10 DEF Exit, Label
    <2> QED
        BY <1>10, <2>1, RolledBack DEF Exit, Migrating
<1>11. CASE \/ \E answered \in BOOLEAN : onAutoSyncTimeout(i, answered)
            \/ OpenPage(i) \/ ClosePage(i)
    <2>1. UNCHANGED <<database, pc, kept>>
        BY <1>11 DEF onAutoSyncTimeout, OpenPage, ClosePage
    <2> QED
        BY <2>1 DEF IInv, TripsKept, OwnTransaction, CopyKept, database
<1> QED
    BY <1>6, <1>7, <1>8, <1>9, <1>10, <1>11

\* No trip is lost and no half-done migration is left behind: whatever statement
\* of createTable fails, whatever its commit does, whenever an instance dies and
\* however many of them share the file (HistoryDatabase.cpp).
THEOREM NoTripLost == Spec => []TripsKept
<1>1. Init => IInv
    <2> SUFFICES ASSUME Init PROVE IInv
        OBVIOUS
    <2>1. saved.trips_new = NoTable /\ kept = saved.trips.rows /\ txn = NoOne
        BY DEF Init
    <2>2. \A i \in Instance : pc[i] = "off" /\ txn # i
        BY <2>1, HistoryAssumption DEF Init
    <2> QED
        BY <2>1, <2>2 DEF IInv, TripsKept, OwnTransaction, CopyKept, Migrating, NoTable
<1>2. Typed /\ IInv /\ [Next]_vars => IInv'
    <2> SUFFICES ASSUME Typed, IInv, [Next]_vars PROVE IInv'
        OBVIOUS
    <2>1. ASSUME NEW i \in Instance, Step(i) PROVE IInv'
        BY <2>1, StartKeeps, CallKeeps DEF Step
    <2>2. CASE Second
        BY <2>2 DEF Second, IInv, TripsKept, OwnTransaction, CopyKept, database
    <2>3. CASE UNCHANGED vars
        BY <2>3 DEF vars, IInv, TripsKept, OwnTransaction, CopyKept, database
    <2> QED
        BY <2>1, <2>2, <2>3 DEF Next
<1>3. IInv => TripsKept
    BY DEF IInv
<1> QED
    BY <1>1, <1>2, <1>3, TypedAlways, PTL DEF Spec

-----------------------------------------------------------------------------
(* The list and the page.  ListIsLatest speaks of instances that are open;  *)
(* inductive is that an instance which is not has its list unread, and that *)
(* whoever has read it since the last change has the latest rows.           *)

Read(i) ==
    /\ list[i] \in Latest(View(i).trips.rows)
    /\ page[i] \in {NoPage, Stats(list[i])}

ListInv ==
    /\ page = [i \in Instance |-> page[i]]
    /\ \A i \in Instance : ~Open(i) => missed[i]
    /\ \A i \in Instance : ~missed[i] => Read(i)

\* What a step of instance i means to another: its own view changes only with
\* the file.
OthersView(i) ==
    \A j \in Instance \ {i} : saved' = saved => View(j)' = View(j)

LEMMA ExecView ==
    ASSUME Typed, NEW i \in Instance, NEW db, Exec(i, db)
    PROVE  OthersView(i)
BY HistoryAssumption DEF OthersView, Exec, View

LEMMA RollbackView ==
    ASSUME Typed, NEW i \in Instance, Rollback(i)
    PROVE  UNCHANGED saved /\ OthersView(i) /\ (txn # i => View(i)' = View(i))
BY HistoryAssumption DEF OthersView, Rollback, View, Typed, DatabaseOK

\* A step of i that leaves its list unread, or its view and list as they were.
LEMMA ListLeft ==
    ASSUME Typed, ListInv, NEW i \in Instance, OthersView(i),
           missed' \in [Instance -> BOOLEAN],
           \A j \in Instance \ {i} : pc'[j] = pc[j] /\ list'[j] = list[j] /\ page'[j] = page[j],
           \A j \in Instance \ {i} : missed'[j] = (missed[j] \/ saved' # saved),
           page' = [j \in Instance |-> page'[j]],
           ~Open(i)' => missed'[i],
           ~missed'[i] => Read(i)'
    PROVE  ListInv'
<1>1. ASSUME NEW j \in Instance, j # i PROVE (~Open(j)' => missed'[j]) /\ (~missed'[j] => Read(j)')
    <2>1. ~Open(j)' => missed'[j]
        BY <1>1 DEF Open, ListInv
    <2>2. ~missed'[j] => Read(j)'
        <3>1. ASSUME ~missed'[j] PROVE Read(j)'
            <4>1. ~missed[j] /\ saved' = saved
                BY <1>1, <3>1
            <4>2. View(j)' = View(j) /\ Read(j)
                BY <1>1, <4>1 DEF OthersView, ListInv
            <4> QED
                BY <1>1, <4>2 DEF Read
        <3> QED
            BY <3>1
    <2> QED
        BY <2>1, <2>2
<1> QED
    BY <1>1 DEF ListInv

\* The list is read again.
LEMMA ListRead ==
    ASSUME Typed, ListInv, NEW i \in Instance, OthersView(i), NEW answered \in BOOLEAN,
           refreshHistory(i, answered),
           \A j \in Instance \ {i} : pc'[j] = pc[j] /\ page'[j] = page[j],
           page' = [j \in Instance |-> page'[j]],
           Open(i)', answered => page'[i] \in {NoPage, Stats(list'[i])}
    PROVE  ListInv'
<1>1. /\ list \in [Instance -> Seq(Row)] /\ Missed(i) \in [Instance -> BOOLEAN]
      /\ missed' = [Missed(i) EXCEPT ![i] = ~answered]
    BY MissedTyped DEF Typed, TypeOK, refreshHistory
<1>2. PICK l \in IF answered THEN Latest(SeenTable(i).rows) ELSE {<< >>} :
                list' = [list EXCEPT ![i] = l]
    BY DEF refreshHistory
<1>3. SeenTable(i) = View(i)'.trips
    BY DEF SeenTable, View
<1>4. answered => list'[i] \in Latest(View(i)'.trips.rows)
    BY <1>1, <1>2, <1>3
<1>5. /\ missed' \in [Instance -> BOOLEAN] /\ missed'[i] = ~answered
      /\ \A j \in Instance \ {i} : missed'[j] = (missed[j] \/ saved' # saved)
    BY <1>1 DEF Missed
<1>6. \A j \in Instance \ {i} : list'[j] = list[j]
    BY <1>1, <1>2
<1>7. ~missed'[i] => Read(i)'
    BY <1>4, <1>5 DEF Read
<1> QED
    BY <1>5, <1>6, <1>7, ListLeft

\* What a step does to the pages, when it may compute the sums of one.
LEMMA UpdatedPage ==
    ASSUME NEW i \in Instance, page = [j \in Instance |-> page[j]],
           \/ updateStats(i)
           \/ UNCHANGED page
           \/ page' = [page EXCEPT ![i] = Stats(list'[i])]
    PROVE  /\ page' = [j \in Instance |-> page'[j]]
           /\ \A j \in Instance \ {i} : page'[j] = page[j]
           /\ updateStats(i) => page'[i] \in {NoPage, Stats(list'[i])}
           /\ page' = [page EXCEPT ![i] = Stats(list'[i])] => page'[i] = Stats(list'[i])
<1>1. PICK v : page' = [page EXCEPT ![i] = v]
    <2>1. page = [page EXCEPT ![i] = page[i]]
        OBVIOUS
    <2> QED
        BY <2>1 DEF updateStats
<1>2. updateStats(i) => page'[i] \in {NoPage, Stats(list'[i])}
    BY DEF updateStats
<1> QED
    BY <1>1, <1>2

LEMMA MissedEach ==
    ASSUME Typed, NEW i \in Instance, missed' = Missed(i)
    PROVE  /\ missed' \in [Instance -> BOOLEAN]
           /\ \A j \in Instance : missed'[j] = (missed[j] \/ (j # i /\ saved' # saved))
BY DEF Missed, Typed, TypeOK

LEMMA StartLists ==
    ASSUME Typed, ListInv, NEW i \in Instance,
           \/ initDatabase(i) \/ FindTable(i) \/ AddSpeed(i) \/ NewTable(i) \/ NoTableMade(i)
           \/ StartMigration(i) \/ CreateNew(i) \/ CopyRows(i) \/ DropOld(i) \/ RenameNew(i)
           \/ CommitMigration(i) \/ MigrationFails(i) \/ Load(i)
    PROVE  ListInv'
<1>1. /\ pc \in [Instance -> Label] /\ missed \in [Instance -> BOOLEAN]
      /\ Missed(i) \in [Instance -> BOOLEAN] /\ page = [j \in Instance |-> page[j]]
    BY MissedTyped DEF Typed, TypeOK, ListInv
<1>2. \A from, to : Go(i, from, to) =>
          pc[i] = from /\ pc'[i] = to /\ \A j \in Instance \ {i} : pc'[j] = pc[j]
    BY <1>1 DEF Go
<1>3. pc[i] \notin {"ready", "failed"} /\ \A j \in Instance \ {i} : pc'[j] = pc[j]
    BY <1>2 DEF initDatabase, FindTable, AddSpeed, NewTable, NoTableMade, StartMigration,
                CreateNew, CopyRows, DropOld, RenameNew, CommitMigration, MigrationFails, Load
<1>4. missed[i]
    BY <1>3 DEF ListInv, Open
\* Whatever is done to the database, the list is unread and stays so.
<1>5. ASSUME OthersView(i), SameList,
             \A j \in Instance : missed'[j] = (missed[j] \/ (j # i /\ saved' # saved)),
             missed' \in [Instance -> BOOLEAN]
      PROVE  ListInv'
    <2>1. missed'[i] /\ \A j \in Instance \ {i} : missed'[j] = (missed[j] \/ saved' # saved)
        BY <1>4, <1>5
    <2> QED
        BY <1>1, <1>3, <1>5, <2>1, ListLeft DEF SameList
<1>6. UNCHANGED database => OthersView(i) /\ saved' = saved
    BY DEF database, OthersView, View
<1>7. CASE initDatabase(i) \/ FindTable(i) \/ NoTableMade(i) \/ StartMigration(i)
    BY <1>1, <1>5, <1>6, <1>7 DEF initDatabase, FindTable, NoTableMade, StartMigration
<1>8. CASE AddSpeed(i) \/ NewTable(i) \/ CopyRows(i) \/ DropOld(i) \/ RenameNew(i)
    <2>1. OthersView(i)
        BY <1>8, ExecView DEF AddSpeed, NewTable, CopyRows, DropOld, RenameNew
    <2>2. SameList /\ missed' = Missed(i)
        BY <1>8 DEF AddSpeed, NewTable, CopyRows, DropOld, RenameNew
    <2> QED
        BY <1>5, <2>1, <2>2, MissedEach
<1>9. CASE CreateNew(i)
    <2>1. SameList /\ missed' = Missed(i) /\ txn = NoOne /\ txn' = i /\ saved' = saved
        BY <1>9 DEF CreateNew, Begin
    <2>2. OthersView(i)
        BY <2>1, HistoryAssumption DEF OthersView, View
    <2> QED
        BY <1>5, <2>1, <2>2, MissedEach
<1>10. CASE CommitMigration(i)
    <2>1. SameList /\ missed' = Missed(i) /\ Commit(i)
        BY <1>10 DEF CommitMigration
    <2>2. saved' = work /\ txn' = NoOne => OthersView(i)
        BY HistoryAssumption DEF OthersView, View
    <2>3. OthersView(i)
        BY <1>6, <2>1, <2>2, RollbackView DEF Commit
    <2> QED
        BY <1>5, <2>1, <2>3, MissedEach
<1>11. CASE MigrationFails(i)
    <2>1. SameList /\ missed' = missed /\ Rollback(i)
        BY <1>11 DEF MigrationFails
    <2> QED
        BY <1>1, <1>5, <2>1, RollbackView
<1>12. CASE Load(i)
    <2>1. /\ UNCHANGED database
          /\ \E answered \in BOOLEAN : refreshHistory(i, answered) /\
                  IF answered THEN updateStats(i) ELSE UNCHANGED page
        BY <1>12 DEF Load, RefreshAndTell
    <2>2. PICK answered \in BOOLEAN : refreshHistory(i, answered) /\
                  IF answered THEN updateStats(i) ELSE UNCHANGED page
        BY <2>1
    <2>3. Open(i)'
        BY <1>2, <1>12 DEF Load, Open
    <2>4. /\ page' = [j \in Instance |-> page'[j]]
          /\ \A j \in Instance \ {i} : page'[j] = page[j]
          /\ answered => page'[i] \in {NoPage, Stats(list'[i])}
        BY <1>1, <2>2, UpdatedPage
    <2> QED
        BY <1>3, <1>6, <2>1, <2>2, <2>3, <2>4, ListRead
<1> QED
    BY <1>7, <1>8, <1>9, <1>10, <1>11, <1>12

LEMMA CallLists ==
    ASSUME Typed, ListInv, NEW i \in Instance,
           \/ insertTrip(i) \/ (\E k \in 1..Limit : deleteTrip(i, k)) \/ clearAllTrips(i)
           \/ ClearFails(i) \/ (\E answered \in BOOLEAN : onAutoSyncTimeout(i, answered))
           \/ OpenPage(i) \/ ClosePage(i) \/ Exit(i)
    PROVE  ListInv'
<1>1. /\ pc \in [Instance -> Label] /\ missed \in [Instance -> BOOLEAN]
      /\ list \in [Instance -> Seq(Row)]
      /\ page = [j \in Instance |-> page[j]]
    BY DEF Typed, TypeOK, ListInv
<1>2. UNCHANGED database => OthersView(i) /\ saved' = saved /\ View(i)' = View(i)
    BY DEF database, OthersView, View
<1>3. UNCHANGED pc /\ Open(i) => Open(i)' /\ \A j \in Instance \ {i} : pc'[j] = pc[j]
    BY DEF Open
\* The page has the sums of the list, whether or not it was made to compute them.
<1>4. ASSUME NEW answered \in BOOLEAN, refreshHistory(i, answered), OthersView(i), UNCHANGED pc,
             Open(i),
             \/ updateStats(i)
             \/ ~answered /\ UNCHANGED page
             \/ page' = [page EXCEPT ![i] = Stats(list'[i])]
      PROVE  ListInv'
    <2>1. /\ page' = [j \in Instance |-> page'[j]]
          /\ \A j \in Instance \ {i} : page'[j] = page[j]
          /\ answered => page'[i] \in {NoPage, Stats(list'[i])}
        BY <1>1, <1>4, UpdatedPage
    <2> QED
        BY <1>3, <1>4, <2>1, ListRead
<1>5. CASE insertTrip(i)
    <2>1. Open(i) /\ UNCHANGED pc /\ RefreshAndTell(i)
        BY <1>5 DEF insertTrip
    <2>2. OthersView(i)
        BY <1>5, ExecView DEF insertTrip
    <2> QED
        BY <1>4, <2>1, <2>2 DEF RefreshAndTell
<1>6. ASSUME NEW k \in 1..Limit, deleteTrip(i, k) PROVE ListInv'
    <2>1. Open(i) /\ UNCHANGED pc /\ RefreshAndTell(i)
        BY <1>6 DEF deleteTrip
    <2>2. OthersView(i)
        BY <1>6, ExecView DEF deleteTrip
    <2> QED
        BY <1>4, <2>1, <2>2 DEF RefreshAndTell
<1>7. CASE clearAllTrips(i)
    <2>1. /\ Open(i) /\ UNCHANGED pc /\ txn \in {i, NoOne}
          /\ \E answered \in BOOLEAN : refreshHistory(i, answered) /\ updateStats(i)
          /\ txn' \in {i, NoOne} \/ Rollback(i)
        BY <1>7 DEF clearAllTrips
    <2>2. txn' \in {i, NoOne} => OthersView(i)
        BY <2>1, HistoryAssumption DEF OthersView, View
    <2>3. OthersView(i)
        BY <2>1, <2>2, RollbackView
    <2> QED
        BY <1>4, <2>1, <2>3
<1>8. CASE ClearFails(i)
    <2>1. /\ Open(i) /\ UNCHANGED <<pc, list>> /\ Rollback(i) /\ updateStats(i)
          /\ missed' = [missed EXCEPT ![i] = @ \/ txn = i]
        BY <1>8 DEF ClearFails
    <2>2. saved' = saved /\ OthersView(i) /\ (txn # i => View(i)' = View(i))
        BY <2>1, RollbackView
    <2>3. /\ missed' \in [Instance -> BOOLEAN] /\ missed'[i] = (missed[i] \/ txn = i)
          /\ \A j \in Instance \ {i} : missed'[j] = missed[j]
        BY <1>1, <2>1
    <2>4. /\ page' = [j \in Instance |-> page'[j]]
          /\ \A j \in Instance \ {i} : page'[j] = page[j]
          /\ page'[i] \in {NoPage, Stats(list'[i])}
        BY <1>1, <2>1, UpdatedPage
    <2>5. ~missed'[i] => Read(i)'
        <3>1. ASSUME ~missed'[i] PROVE Read(i)'
            <4>1. Read(i) /\ View(i)' = View(i)
                BY <2>2, <2>3, <3>1 DEF ListInv
            <4> QED
                BY <2>1, <2>4, <4>1 DEF Read
        <3> QED
            BY <3>1
    <2> QED
        BY <1>3, <2>1, <2>2, <2>3, <2>4, <2>5, ListLeft
<1>9. ASSUME NEW answered \in BOOLEAN, onAutoSyncTimeout(i, answered) PROVE ListInv'
    BY <1>2, <1>4, <1>9 DEF onAutoSyncTimeout
<1>10. CASE OpenPage(i)
    BY <1>2, <1>4, <1>10 DEF OpenPage
<1>11. CASE ClosePage(i)
    <2>1. /\ UNCHANGED <<database, pc, list, missed>> /\ page' = [page EXCEPT ![i] = NoPage]
        BY <1>11 DEF ClosePage
    <2>2. /\ page' = [j \in Instance |-> page'[j]] /\ page'[i] = NoPage
          /\ \A j \in Instance \ {i} : page'[j] = page[j]
        BY <1>1, <2>1
    <2>3. ~missed'[i] => Read(i)'
        BY <1>2, <2>1, <2>2 DEF ListInv, Read
    <2>4. ~Open(i)' => missed'[i]
        BY <2>1 DEF ListInv, Open
    <2> QED
        BY <1>1, <1>2, <2>1, <2>2, <2>3, <2>4, ListLeft
<1>12. CASE Exit(i)
    <2>1. /\ pc' = [pc EXCEPT ![i] = "off"] /\ Rollback(i) /\ list' = [list EXCEPT ![i] = << >>]
          /\ page' = [page EXCEPT ![i] = NoPage] /\ missed' = [missed EXCEPT ![i] = TRUE]
        BY <1>12 DEF Exit
    <2>2. saved' = saved /\ OthersView(i)
        BY <2>1, RollbackView
    <2>3. /\ missed' \in [Instance -> BOOLEAN] /\ missed'[i]
          /\ \A j \in Instance \ {i} :
                missed'[j] = missed[j] /\ pc'[j] = pc[j] /\ list'[j] = list[j]
        BY <1>1, <2>1
    <2>4. /\ page' = [j \in Instance |-> page'[j]]
          /\ \A j \in Instance \ {i} : page'[j] = page[j]
        BY <1>1, <2>1
    <2> QED
        BY <2>2, <2>3, <2>4, ListLeft
<1> QED
    BY <1>5, <1>6, <1>7, <1>8, <1>9, <1>10, <1>11, <1>12

\* The list in memory is the latest rows of the table and the page's sums are
\* those of the list, through every call that fails or succeeds, a transaction an
\* ignored commit left open and what other instances do, unless the last query of
\* the list failed or another instance has changed the file since
\* (refreshHistory, updateStats).
THEOREM ListUpToDate == Spec => []ListIsLatest
<1>1. Init => ListInv
    BY DEF Init, ListInv, Open
<1>2. Typed /\ ListInv /\ [Next]_vars => ListInv'
    <2> SUFFICES ASSUME Typed, ListInv, [Next]_vars PROVE ListInv'
        OBVIOUS
    <2>1. ASSUME NEW i \in Instance, Step(i) PROVE ListInv'
        BY <2>1, StartLists, CallLists DEF Step
    <2>2. CASE Second
        BY <2>2 DEF Second, ListInv, Open, Read, View, database
    <2>3. CASE UNCHANGED vars
        BY <2>3 DEF vars, ListInv, Open, Read, View, database
    <2> QED
        BY <2>1, <2>2, <2>3 DEF Next
<1>3. ListInv => ListIsLatest
    BY DEF ListInv, ListIsLatest, Read
<1> QED
    BY <1>1, <1>2, <1>3, TypedAlways, PTL DEF Spec

=============================================================================
