--------------------------- MODULE MCTripHistory ---------------------------
(***************************************************************************)
(* TripHistory for TLC: trips along the same road at the same hour of the  *)
(* day, so that the code stores them with the same date.                   *)
(***************************************************************************)
EXTENDS TripHistory

OldTrip == [key |-> "home", dist |-> 4, time |-> 0]
Trips == {OldTrip, [key |-> "home", dist |-> 3, time |-> 2]}
OldRows == {[id |-> 0, ts |-> 0, trip |-> OldTrip]}

\* No table, the one with costs, and the one without costs and speeds.
Tables == {NoTable, TripTable({"cost"}, OldRows), TripTable({}, OldRows)}
=============================================================================
