----------------------------- MODULE MCDashboard -----------------------------
EXTENDS Dashboard

\* One key of a tab before the first job, one after it that the environment
\* forces off, and the execution mode no widget writes.
MCKeys == {"data", "include_macro", "mode"}
MCValues == {0, 1}
MCDefaults == [k \in MCKeys |-> 0]
MCEnvOff == {"include_macro"}

\* A complete file, and one that names the mode only.  (A file that is missing
\* or empty at first is reached by a crash between OpenFile and Flush.)
MCFiles == {[k \in MCKeys |-> 1], [k \in {"mode"} |-> 1]}

\* The sidebar, a job before and one after the widgets above (the second
\* changes the settings), and one that saves nothing.
MCClicks == {None} \cup Sidebar \cup {"sync_data", "run_paper_loop", "run_audit"}
=============================================================================
