------------------------------- MODULE Services -------------------------------
(***************************************************************************)
(* What the backend keeps beside the files of the project: the models'      *)
(* health with the calls that need it, the crash reports with their        *)
(* collector, and the command history.  They share no variable.             *)
(***************************************************************************)
EXTENDS AiFailover, CrashPipeline, CommandHistory

\* What the variables of the calls, the reports and the history may hold.
ServicesTypeOK ==
    /\ CallsTypeOK
    /\ ReportsTypeOK
    /\ HistoryTypeOK
=============================================================================
