------------------------------ MODULE MCBackend ------------------------------
(***************************************************************************)
(* What the backend writes, checked in one run: the files of a project,     *)
(* the models' health with the calls that keep it, the crash reports with  *)
(* their collector, and the command history beside the project.  They      *)
(* share no variable; a behaviour is one of one of them, chosen at the     *)
(* start, in which the others rest.                                        *)
(***************************************************************************)
EXTENDS ProjectStore, Services, TLC

VARIABLE part

BackendInit ==
    /\ Init /\ CallsInit /\ ReportsInit /\ HistoryInit
    /\ \/ part \in {"store", "history", "calls"} /\ \A r, q \in Report : owner[r] = owner[q]
       \/ part = "crash"

Store == part = "store" /\ Next /\ UNCHANGED <<part, calls, reports, commandHistory>>
Calls == part = "calls" /\ CallsNext /\ UNCHANGED <<part, vars, reports, commandHistory>>
Reports == part = "crash" /\ ReportsNext /\ UNCHANGED <<part, vars, calls, commandHistory>>
\* Where the scopes tell nothing, one content less is enough.
History ==
    /\ part = "history" /\ HistoryNext
    /\ compared \/ made' < MaxMade
    /\ UNCHANGED <<part, vars, calls, reports>>
\* Only the store must never be stuck.
Rest == part # "store" /\ UNCHANGED <<part, vars, calls, reports, commandHistory>>

BackendSpec ==
    /\ BackendInit
    /\ [][Store \/ Calls \/ Reports \/ History \/ Rest]_<<part, vars, calls, reports,
                                                           commandHistory>>

\* Fragment identifiers, editors and reports are interchangeable; the reports
\* bear the names of the fragments, which halves the symmetries.
Symmetry ==
    Permutations(Fragment) \cup Permutations(Editor)
=============================================================================
