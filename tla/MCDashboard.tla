----------------------------- MODULE MCDashboard -----------------------------
(* Model values and bounds for checking Dashboard. *)
EXTENDS Dashboard, TLC

CONSTANTS s1, s2

NoRetry == {0}
SameText(text, pattern) == text = pattern
AllTasks == [type |-> Unset, enabled |-> Unset, name |-> Unset, command |-> Unset,
        worker |-> Unset, status |-> {}, parent |-> 0]
MCFilters == {AllTasks, [AllTasks EXCEPT !.status = {"stopped"}]}
=============================================================================
