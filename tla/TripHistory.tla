---------------------------- MODULE TripHistory ----------------------------
(***************************************************************************)
(* The trips of the car's display: HistoryDatabase.cpp, and the history    *)
(* page that shows its list (HistoryPage.qml).  The table is in a file, so *)
(* several instances of the program may have it open; the timer of each    *)
(* looks for what another has changed.                                     *)
(*                                                                         *)
(* SQLite is external: a statement reads or changes the whole database at  *)
(* once or fails; a transaction works on a copy that replaces the database *)
(* when it commits, and only its own instance sees the copy; while there   *)
(* is one, the statements of others that write fail.  BEGIN takes no lock, *)
(* it is part of the transaction's first statement.                        *)
(***************************************************************************)
EXTENDS Integers, FiniteSets, Sequences, Functions

CONSTANTS Instance,     \* the running copies of the program
          Trip,         \* what a trip is inserted with: [key, dist, time], where
                        \* key stands for its date, origin and destination
          Limit,        \* the rows of the list, 50 in the code
          FirstTables,  \* the databases earlier versions may have left
          DeleteLimit,  \* the SQLite in use parses DELETE ... LIMIT
          MaxInserts,   \* bound: trips inserted
          MaxTime,      \* bound: seconds that pass
          NoOne, NoPage

\* A table has columns and rows, or is not there.
Row == [id : Nat, ts : Nat, trip : Trip]
NoTable == [there |-> FALSE, cols |-> {}, rows |-> {}]
Table == {NoTable} \cup [there : {TRUE}, cols : SUBSET {"cost", "speed"}, rows : SUBSET Row]
TripTable(cols, rows) == [there |-> TRUE, cols |-> cols, rows |-> rows]

ASSUME HistoryAssumption ==
    /\ Limit \in Nat \ {0} /\ MaxInserts \in Nat /\ MaxTime \in Nat
    /\ DeleteLimit \in BOOLEAN /\ NoOne \notin Instance
    /\ \A t \in Trip : t.dist \in Nat /\ t.time \in Nat
    /\ FirstTables \subseteq Table /\ \A t \in FirstTables : IsFiniteSet(t.rows)

VARIABLES
    saved,      \* the database in the file: tables trips and trips_new
    work,       \* the database a transaction works on
    txn,        \* the instance that has a transaction open
    now,        \* CURRENT_TIMESTAMP, in seconds
    pc,         \* where each instance is in initDatabase
    timer,      \* m_syncTimer is active
    list,       \* m_historyList
    page,       \* the sums on the history page, when there is one
    inserted,   \* history: trips inserted, the last one's id
    kept,       \* history: rows stored for good and not deleted
    missed      \* history: the list was not read since the table changed

database == <<saved, work, txn>>
vars == <<database, now, pc, timer, list, page, inserted, kept, missed>>

Init ==
    /\ saved \in [trips : FirstTables, trips_new : {NoTable}]
    /\ work = saved /\ txn = NoOne /\ now = 0
    /\ pc = [i \in Instance |-> "off"] /\ timer = [i \in Instance |-> FALSE]
    /\ list = [i \in Instance |-> << >>] /\ page = [i \in Instance |-> NoPage]
    /\ inserted = 0 /\ kept = saved.trips.rows
    /\ missed = [i \in Instance |-> TRUE]

-----------------------------------------------------------------------------
(* SQLite *)

View(i) == IF txn = i THEN work ELSE saved

\* A statement that changes the database, outside a transaction or in one.
Exec(i, db) ==
    /\ txn \in {i, NoOne} /\ txn' = txn /\ work' = db
    /\ saved' = IF txn = i THEN saved ELSE db

\* The others' lists are of a table that is no more.
Missed(i) == [j \in Instance |-> missed[j] \/ (j # i /\ saved' # saved)]

\* A bug to detect: the transaction is not begun.
Begin_Not(i, db) ==
    txn = NoOne /\ saved' = db /\ work' = db /\ UNCHANGED txn

\* The first statement of a transaction.
Begin(i, db) ==
    txn = NoOne /\ txn' = i /\ work' = db /\ UNCHANGED saved

\* A bug to detect: the copy outlives its transaction.
Rollback_KeepsCopy(i) ==
    txn' = (IF txn = i THEN NoOne ELSE txn) /\ UNCHANGED <<work, saved>>

Rollback(i) ==
    /\ txn' = IF txn = i THEN NoOne ELSE txn
    /\ work' = IF txn = i THEN saved ELSE work
    /\ UNCHANGED saved

\* The result of commit() is not looked at: it may have failed and left the
\* transaction open, or undone.
Commit(i) ==
    \/ saved' = work /\ txn' = NoOne /\ UNCHANGED work
    \/ UNCHANGED database
    \/ Rollback(i)

-----------------------------------------------------------------------------
(* The list and the page *)

\* The answers to SELECT ... ORDER BY timestamp DESC LIMIT 50.
Latest(rows) ==
    LET n == IF Cardinality(rows) < Limit THEN Cardinality(rows) ELSE Limit
    IN  {s \in [1..n -> rows] :
            /\ IsInjective(s)
            /\ \A k \in 1..n - 1 : s[k].ts >= s[k + 1].ts
            /\ \A r \in rows \ {s[k] : k \in 1..n} : \A k \in 1..n : s[k].ts >= r.ts}

getTotalDistance(l) == SumFunction([k \in DOMAIN l |-> l[k].trip.dist])
getTotalTime(l) == SumFunction([k \in DOMAIN l |-> l[k].trip.time])

getAverageSpeed(l) ==
    IF getTotalTime(l) > 0 THEN getTotalDistance(l) \div getTotalTime(l) ELSE 0

\* updateStats
Stats(l) == [distance |-> getTotalDistance(l), time |-> getTotalTime(l),
             speed |-> getAverageSpeed(l), count |-> Len(l)]

\* The table as the statements just made left it, for the instance that made them.
SeenTable(i) == (IF txn' = i THEN work' ELSE saved').trips

\* A bug to detect: the list is not cleared first.
refreshHistory_Appends(i, answered) ==
    /\ answered => "speed" \in SeenTable(i).cols
    /\ \E l \in IF answered THEN Latest(SeenTable(i).rows) ELSE {<< >>} :
            list' = [list EXCEPT ![i] = @ \o l]
    /\ missed' = [Missed(i) EXCEPT ![i] = ~answered]

\* refreshHistory: the list is read again; if the query fails it is empty.
refreshHistory(i, answered) ==
    /\ answered => "speed" \in SeenTable(i).cols
    /\ \E l \in IF answered THEN Latest(SeenTable(i).rows) ELSE {<< >>} :
            list' = [list EXCEPT ![i] = l]
    /\ missed' = [Missed(i) EXCEPT ![i] = ~answered]

\* The page computes its sums anew from the list, if it is there.
updateStats(i) ==
    page' = [page EXCEPT ![i] = IF @ = NoPage THEN NoPage ELSE Stats(list'[i])]

\* countChanged makes the page do so; it is not emitted when the query fails.
RefreshAndTell(i) ==
    \E answered \in BOOLEAN :
        refreshHistory(i, answered) /\ IF answered THEN updateStats(i) ELSE UNCHANGED page

-----------------------------------------------------------------------------
(* initDatabase and createTable *)

Go(i, from, to) == pc[i] = from /\ pc' = [pc EXCEPT ![i] = to]

SameList == UNCHANGED <<timer, list, page>>

\* The program starts; the file opens or not.
initDatabase(i) ==
    /\ \E to \in {"check", "closed"} : Go(i, "off", to)
    /\ UNCHANGED <<database, now, inserted, kept, missed>> /\ SameList

\* The table is as it should be, or a query or ALTER TABLE failed, or CREATE
\* TABLE IF NOT EXISTS found it after the query for it failed.
FindTable(i) ==
    /\ View(i).trips.there /\ Go(i, "check", "load")
    /\ UNCHANGED <<database, now, inserted, kept, missed>> /\ SameList

AddSpeed(i) ==
    LET t == View(i).trips
    IN  /\ t.there /\ "speed" \notin t.cols /\ Go(i, "check", "load")
        /\ Exec(i, [View(i) EXCEPT !.trips = TripTable(t.cols \cup {"speed"}, t.rows)])
        /\ missed' = Missed(i) /\ UNCHANGED <<now, inserted, kept>> /\ SameList

NewTable(i) ==
    /\ ~View(i).trips.there /\ Go(i, "check", "load")
    /\ Exec(i, [View(i) EXCEPT !.trips = TripTable({"speed"}, {})])
    /\ missed' = Missed(i) /\ UNCHANGED <<now, inserted, kept>> /\ SameList

\* createTable returns false.
NoTableMade(i) ==
    /\ Go(i, "check", "failed")
    /\ UNCHANGED <<database, now, inserted, kept, missed>> /\ SameList

StartMigration(i) ==
    /\ "cost" \in View(i).trips.cols /\ "speed" \notin View(i).trips.cols
    /\ Go(i, "check", "create")
    /\ UNCHANGED <<database, now, inserted, kept, missed>> /\ SameList

CreateNew(i) ==
    /\ ~saved.trips_new.there /\ Go(i, "create", "copy")
    /\ Begin(i, [saved EXCEPT !.trips_new = TripTable({"speed"}, {})])
    /\ missed' = Missed(i) /\ UNCHANGED <<now, inserted, kept>> /\ SameList

CopyRows(i) ==
    /\ Go(i, "copy", "drop")
    /\ Exec(i, [View(i) EXCEPT !.trips_new = TripTable({"speed"}, View(i).trips.rows)])
    /\ missed' = Missed(i) /\ UNCHANGED <<now, inserted, kept>> /\ SameList

DropOld(i) ==
    /\ Go(i, "drop", "rename")
    /\ Exec(i, [View(i) EXCEPT !.trips = NoTable])
    /\ missed' = Missed(i) /\ UNCHANGED <<now, inserted, kept>> /\ SameList

RenameNew(i) ==
    /\ Go(i, "rename", "commit")
    /\ Exec(i, [trips |-> View(i).trips_new, trips_new |-> NoTable])
    /\ missed' = Missed(i) /\ UNCHANGED <<now, inserted, kept>> /\ SameList

CommitMigration(i) ==
    /\ Go(i, "commit", "load") /\ Commit(i)
    /\ missed' = Missed(i) /\ UNCHANGED <<now, inserted, kept>> /\ SameList

\* A statement of the migration fails.
MigrationFails(i) ==
    /\ \E step \in {"create", "copy", "drop", "rename"} : Go(i, step, "failed")
    /\ Rollback(i)
    /\ UNCHANGED <<now, inserted, kept, missed>> /\ SameList

\* The end of initDatabase; startAutoSync.
Load(i) ==
    /\ Go(i, "load", "ready") /\ UNCHANGED database
    /\ RefreshAndTell(i) /\ timer' = [timer EXCEPT ![i] = TRUE]
    /\ UNCHANGED <<now, inserted, kept>>

-----------------------------------------------------------------------------
(* What the pages and the timer call.  A call that fails changes nothing.   *)

\* m_db is open, and no other call of the instance is under way.
Open(i) == pc[i] \in {"ready", "failed"}

insertTrip(i) ==
    /\ Open(i) /\ inserted < MaxInserts /\ "speed" \in View(i).trips.cols
    /\ \E trip \in Trip :
        LET row == [id |-> inserted + 1, ts |-> now, trip |-> trip]
        IN  /\ Exec(i, [View(i) EXCEPT !.trips.rows = @ \cup {row}])
            /\ kept' = IF txn = NoOne THEN kept \cup {row} ELSE kept
    /\ inserted' = inserted + 1 /\ RefreshAndTell(i)
    /\ UNCHANGED <<now, pc, timer>>

\* The rows a deletion of row k of the list removes: the first that matches.
Deleted(i, k) ==
    LET same == {r \in View(i).trips.rows : r.trip.key = list[i][k].trip.key}
    IN  {r \in same : \A q \in same : r.id <= q.id}

deleteTrip(i, k) ==
    /\ Open(i) /\ DeleteLimit /\ View(i).trips.there /\ k \in DOMAIN list[i]
    /\ Exec(i, [View(i) EXCEPT !.trips.rows = @ \ Deleted(i, k)])
    /\ kept' = IF txn = NoOne THEN kept \ Deleted(i, k) ELSE kept
    /\ RefreshAndTell(i)
    /\ UNCHANGED <<now, pc, timer, inserted>>

\* The button is there when the list has rows.  In a transaction that an
\* earlier commit left open, BEGIN fails and the rest is part of that one.
clearAllTrips(i) ==
    LET cleared == [View(i) EXCEPT !.trips.rows = {}]
    IN  /\ Open(i) /\ list[i] # << >> /\ txn \in {i, NoOne} /\ View(i).trips.there
        /\ \/ saved' = cleared /\ work' = cleared /\ txn' = NoOne /\ kept' = {}
           \/ work' = cleared /\ txn' = i /\ UNCHANGED <<saved, kept>>
           \/ Rollback(i) /\ UNCHANGED kept
        /\ \E answered \in BOOLEAN : refreshHistory(i, answered) /\ updateStats(i)
        /\ UNCHANGED <<now, pc, timer, inserted>>

ClearFails(i) ==
    /\ Open(i) /\ list[i] # << >> /\ Rollback(i)
    /\ missed' = [missed EXCEPT ![i] = @ \/ txn = i]
    /\ UNCHANGED list /\ updateStats(i)
    /\ UNCHANGED <<now, pc, timer, inserted, kept>>

\* A bug to detect: the number of rows is compared with what fits the list.
OutOfStep_Capped(i) ==
    View(i).trips.there /\ Cardinality(View(i).trips.rows) > Len(list[i])

OutOfStep(i) ==
    View(i).trips.there /\ Cardinality(View(i).trips.rows) # Len(list[i])

\* dataChanged makes the page compute its sums, whether the query failed or not.
onAutoSyncTimeout(i, answered) ==
    /\ Open(i) /\ timer[i] /\ OutOfStep(i) /\ UNCHANGED database
    /\ refreshHistory(i, answered) /\ updateStats(i)
    /\ UNCHANGED <<now, pc, timer, inserted, kept>>

\* The history page is made and reads the table.
OpenPage(i) ==
    /\ Open(i) /\ page[i] = NoPage /\ UNCHANGED database
    /\ \E answered \in BOOLEAN : refreshHistory(i, answered)
    /\ page' = [page EXCEPT ![i] = Stats(list'[i])]
    /\ UNCHANGED <<now, pc, timer, inserted, kept>>

ClosePage(i) ==
    /\ page[i] # NoPage /\ page' = [page EXCEPT ![i] = NoPage]
    /\ UNCHANGED <<database, now, pc, timer, list, inserted, kept, missed>>

\* The program ends or is killed, at any step; it may be started again.
Exit(i) ==
    /\ pc[i] # "off" /\ pc' = [pc EXCEPT ![i] = "off"]
    /\ Rollback(i) /\ timer' = [timer EXCEPT ![i] = FALSE]
    /\ list' = [list EXCEPT ![i] = << >>] /\ page' = [page EXCEPT ![i] = NoPage]
    /\ missed' = [missed EXCEPT ![i] = TRUE]
    /\ UNCHANGED <<now, inserted, kept>>

Second ==
    /\ now < MaxTime /\ now' = now + 1
    /\ UNCHANGED <<database, pc, timer, list, page, inserted, kept, missed>>

Step(i) ==
    \/ initDatabase(i) \/ FindTable(i) \/ AddSpeed(i) \/ NewTable(i) \/ NoTableMade(i)
    \/ StartMigration(i) \/ CreateNew(i) \/ CopyRows(i) \/ DropOld(i) \/ RenameNew(i)
    \/ CommitMigration(i) \/ MigrationFails(i) \/ Load(i)
    \/ insertTrip(i) \/ (\E k \in 1..Limit : deleteTrip(i, k)) \/ clearAllTrips(i) \/ ClearFails(i)
    \/ \E answered \in BOOLEAN : onAutoSyncTimeout(i, answered)
    \/ OpenPage(i) \/ ClosePage(i) \/ Exit(i)

Next == (\E i \in Instance : Step(i)) \/ Second

\* The timer of a program that runs expires again and again, and the database
\* answers in the end.
Spec == Init /\ [][Next]_vars
             /\ \A i \in Instance : WF_vars(onAutoSyncTimeout(i, TRUE))

-----------------------------------------------------------------------------
(* Properties *)

Database == [trips : Table, trips_new : Table]
Label == {"off", "closed", "check", "create", "copy", "drop", "rename", "commit", "load",
          "ready", "failed"}

\* Every variable has its type, and without a transaction there is no copy.
TypeOK ==
    /\ saved \in Database /\ work \in Database
    /\ txn \in Instance \cup {NoOne} /\ (txn = NoOne => work = saved)
    /\ now \in Nat /\ inserted \in Nat
    /\ pc \in [Instance -> Label]
    /\ timer \in [Instance -> BOOLEAN] /\ missed \in [Instance -> BOOLEAN]
    /\ list \in [Instance -> Seq(Row)]
    /\ kept \in SUBSET Row

\* The trips stored are in the file's table until they are deleted or cleared,
\* and the table of a half-done migration is never left in the file (where it
\* would make every later migration fail): whatever statement of createTable
\* fails, whenever the program dies, and when two instances migrate at once.
TripsKept == kept \subseteq saved.trips.rows /\ ~saved.trips_new.there

\* Unless its last query failed or another instance has changed the table since,
\* the list of an instance is the latest rows of the table, also after its own
\* insertions, deletions and clearings, and the page has the sums of that list.
ListIsLatest ==
    \A i \in Instance : Open(i) /\ ~missed[i] =>
        /\ list[i] \in Latest(View(i).trips.rows)
        /\ page[i] \in {NoPage, Stats(list[i])}

Rows(i) == Cardinality(View(i).trips.rows)

\* A list that has not as many rows as the table gets them: the timer makes up
\* for a query that failed and for what another instance added or removed.
Synced ==
    \A i \in Instance :
        pc[i] = "ready" ~> \/ Len(list[i]) = IF Rows(i) < Limit THEN Rows(i) ELSE Limit
                          \/ pc[i] # "ready" \/ "speed" \notin View(i).trips.cols
=============================================================================
