---------------------------- MODULE MCBackground ----------------------------
(* The components that run beside the requests, side by side: `focus` says at   *)
(* the start which of them moves, so that the states of one are not multiplied  *)
(* by those of another.                                                         *)
EXTENDS DeployUpdate, TgBot, RateLimit, CronParse, DBPool, Backups, TLC

CONSTANTS app, app_x
VARIABLE focus

allvars == <<dvars, bvars, lvars, cvars, pvars, kvars, focus>>

MCInterval == app :> 1 @@ app_x :> 2
MCRetention == app :> 2 @@ app_x :> 2
MCLooks == {<<app, app_x>>}

Every == [base |-> "*", lo |-> 0, hi |-> 0, step |-> 1]
EveryOther == [Every EXCEPT !.step = 2]
Only(n) == [base |-> "N", lo |-> n, hi |-> n, step |-> 1]
From(a, b, n) == [base |-> "a-b", lo |-> a, hi |-> b, step |-> n]
MCMonthDays == <<3, 2>>
MCTimes == 0..22
MCExpressions ==
    [minute : {{Every}, {Only(1)}, {EveryOther}}, hour : {{Every}, {Only(0)}},
     dom : {{Every}, {EveryOther}, {Only(3)}, {Only(1), From(2, 3, 2)}},
     month : {{Every}, {Only(2)}, {Only(5)}},
     dow : {{Every}, {Only(1)}, {EveryOther}, {From(1, 0, 1)}}]

Init ==
    /\ focus \in {"deploy", "bot", "limit", "cron", "pool", "backups"}
    /\ DeployInit /\ BotInit /\ LimitInit /\ PoolInit /\ BackupsInit /\ CronInit
    /\ focus # "cron" => from = 0 /\ expr = [f \in FieldNames |-> {Every}]

Next ==
    \/ focus = "deploy" /\ DeployNext /\ UNCHANGED <<bvars, lvars, cvars, pvars, kvars, focus>>
    \/ focus = "bot" /\ BotNext /\ UNCHANGED <<dvars, lvars, cvars, pvars, kvars, focus>>
    \/ focus = "limit" /\ LimitNext /\ UNCHANGED <<dvars, bvars, cvars, pvars, kvars, focus>>
    \/ focus = "cron" /\ CronNext /\ UNCHANGED <<dvars, bvars, lvars, pvars, kvars, focus>>
    \/ focus = "pool" /\ PoolNext /\ UNCHANGED <<dvars, bvars, lvars, cvars, kvars, focus>>
    \/ focus = "backups" /\ BackupsNext /\ UNCHANGED <<dvars, bvars, lvars, cvars, pvars, focus>>

\* The bot's fairness, where the bot is what moves.
InFocus(A) == focus = "bot" /\ A /\ UNCHANGED <<dvars, lvars, cvars, pvars, kvars, focus>>
Spec ==
    /\ Init /\ [][Next]_allvars
    /\ WF_allvars(InFocus(Post)) /\ WF_allvars(InFocus(BotStep))
    /\ WF_allvars(InFocus(Wait)) /\ WF_allvars(InFocus(Wake))

BackgroundTypeOK ==
    DeployTypeOK /\ BotTypeOK /\ LimitTypeOK /\ PoolTypeOK /\ BackupsTypeOK
==============================================================================
