---------------------------- MODULE MCRepoClient ----------------------------
(* Processes on one local repository, on small instances. *)
EXTENDS RepoClient, Integers, TLC

Symmetry == Permutations(Procs) \cup Permutations(Releases)

\* What the next steps of a process depend on: how its command ends is for whoever
\* started it, and a cleanup has no more use for what the update before it was.
Ahead(p) ==
    IF At(p, "idle") THEN Idle
    ELSE IF proc[p].at \in {"clean", "actual", "judge"}
    THEN [Idle EXCEPT !.at = proc[p].at, !.todo = proc[p].todo, !.unread = proc[p].unread,
                      !.autoclean = proc[p].autoclean]
    ELSE IF proc[p].at \in {"versions", "forget", "erase", "erased"}
    THEN [Idle EXCEPT !.at = proc[p].at, !.todo = proc[p].todo, !.release = proc[p].release]
    ELSE [proc[p] EXCEPT !.result = "none"]
View == <<published, home, locks, [p \in Procs |-> Ahead(p)], handedOut, asked,
          lostMarks, lostPins, raced>>

\* Once a release has raced with a cleanup, or two marks have got lost, the rest is not
\* explored.
FirstRace == raced = {} /\ Cardinality(lostMarks) + Cardinality(lostPins) <= 1

\* One command after the other, with nothing to disturb it.
QuietNext ==
    \E p \in Procs :
        /\ \/ (\A q \in Procs : At(q, "idle")) /\ StartAny(p)
           \/ Step(p)
        /\ Remember
QuietSpec == Init /\ [][QuietNext]_vars /\ \A p \in Procs : WF_vars(Step(p) /\ Remember)
=============================================================================
