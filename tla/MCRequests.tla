----------------------------- MODULE MCRequests -----------------------------
(* The components whose handlers read and write rows in separate statements,   *)
(* side by side: `focus` says at the start which of them moves.                *)
EXTENDS Accounts, Recovery, ProjectRows, NginxSync, Access, RowBrowser

CONSTANTS app, app2, tab, k1, k2
VARIABLE focus

rest == <<avars, fvars, rowvars, nvars, xvars, wvars>>

MCResembles == {<<app, app2>>}
MCCloneId == [p \in {app, app2} |-> app2]

Init ==
    /\ focus \in {"accounts", "recovery", "rows", "nginx", "access", "browser"}
    /\ AccountsInit /\ RecoveryInit /\ RowsInit /\ NginxInit /\ AccessInit /\ BrowserInit
    /\ focus # "accounts" => secret = CHOOSE pw \in Passwords : TRUE
    /\ focus # "access" => people = <<>>
    /\ tables = [t \in Tables |-> IF t # tab THEN <<>> ELSE <<[key |-> k1, by |-> 0], [key |-> k2, by |-> 0]>>]

Next ==
    \/ focus = "accounts" /\ AccountsNext /\ UNCHANGED <<fvars, rowvars, nvars, xvars, wvars, focus>>
    \/ focus = "recovery" /\ RecoveryNext /\ UNCHANGED <<avars, rowvars, nvars, xvars, wvars, focus>>
    \/ focus = "rows" /\ RowsNext /\ UNCHANGED <<avars, fvars, nvars, xvars, wvars, focus>>
    \/ focus = "nginx" /\ NginxNext /\ UNCHANGED <<avars, fvars, rowvars, xvars, wvars, focus>>
    \/ focus = "access" /\ AccessNext /\ UNCHANGED <<avars, fvars, rowvars, nvars, wvars, focus>>
    \/ focus = "browser" /\ BrowserNext /\ UNCHANGED <<avars, fvars, rowvars, nvars, xvars, focus>>

Spec == Init /\ [][Next]_<<rest, focus>>

RequestsTypeOK ==
    /\ AccountsTypeOK /\ RecoveryTypeOK /\ RowsTypeOK
    /\ NginxTypeOK /\ AccessTypeOK /\ BrowserTypeOK
==============================================================================
