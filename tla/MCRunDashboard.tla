--------------------------- MODULE MCRunDashboard ---------------------------
(***************************************************************************)
(* RunDashboard on small instances.                                        *)
(***************************************************************************)
EXTENDS RunDashboard

\* The first of two runs reports between its start and its end.
MCFirstReports == <<3, 2>>
=============================================================================
