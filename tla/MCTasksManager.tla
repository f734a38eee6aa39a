--------------------------- MODULE MCTasksManager ---------------------------
(* The tasks manager on small instances. *)
EXTENDS TasksManager, TLC

\* UUIDs are interchangeable; used where no liveness property is checked.
Symmetry == Permutations(Tasks)

MCHistoryLimits == {1}
MCEntries == {"RunTask"}
MCBothEntries == {"RunTask", "AddTask"}
MCReadOps == {"status"}
MCListOps == {"list"}
NoReads == {}
=============================================================================
