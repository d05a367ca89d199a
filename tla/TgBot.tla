-------------------------------- MODULE TgBot --------------------------------
(* The Telegram bot (cmd/tg-bot): long polling with an offset in memory, sleep *)
(* behind a webhook, commands, and deaths of the bot.  Telegram numbers the    *)
(* updates, keeps each until a later offset or a webhook call confirms it,      *)
(* answers getUpdates with an array, and refuses it while a webhook is set.     *)
EXTENDS Naturals, FiniteSets

CONSTANTS
    MaxUpdates,    \* bound: updates users send
    MaxFaults      \* bound: API calls that fail and deaths of the bot

ASSUME UpdatesAssumption == {MaxUpdates, MaxFaults} \subseteq Nat

VARIABLES
    sent,          \* updates sent so far (their ids are 1..sent)
    confirmed,     \* ids Telegram will not deliver again
    hook,          \* a webhook is set
    bot,           \* where the program is, lastUpdateID, wakeCh
    handled,       \* updates whose command was executed
    faults         \* faults so far

bvars == <<sent, confirmed, hook, bot, handled, faults>>

Ids == 1..MaxUpdates
Pending(offset) == {i \in offset..sent : i \notin confirmed}
Newest(S) == CHOOSE i \in S : \A j \in S : j <= i
Dead == [pc |-> "dead", last |-> 0, wake |-> FALSE]
Awake == bot.pc \notin {"hooked", "asleep"}

\* What the callers of tgAPI find in the answer to getUpdates: `result` is an
\* array, the field it is decoded into a map.  Decode keeps ok, leaves the map
\* nil and returns an error that tgAPI drops, so there is no list to be found.
Decoded(updates) == {}

BotInit ==
    /\ sent = 0 /\ confirmed = {} /\ hook = FALSE
    /\ bot = Dead
    /\ handled = {}
    /\ faults = 0

Send ==
    /\ sent < MaxUpdates
    /\ sent' = sent + 1
    /\ UNCHANGED <<confirmed, hook, bot, handled, faults>>

\* Mutant of Post: wakeCh without a buffer drops a wake-up nobody waits for yet.
PostUnbuffered ==
    /\ hook /\ bot.pc # "dead"
    /\ \E i \in Pending(1) : confirmed' = confirmed \cup {i}
    /\ bot' = [bot EXCEPT !.wake = @ \/ bot.pc = "asleep"]
    /\ UNCHANGED <<sent, hook, handled, faults>>

\* webhookHandler: the answer 200 confirms the update, whose text is not read;
\* wakeCh holds one wake-up.
Post ==
    /\ hook /\ bot.pc # "dead"
    /\ \E i \in Pending(1) : confirmed' = confirmed \cup {i}
    /\ bot' = [bot EXCEPT !.wake = TRUE]
    /\ UNCHANGED <<sent, hook, handled, faults>>

\* An API call whose error the code drops, or that fails: at most MaxFaults.
Call(works) == IF works THEN faults' = faults ELSE faults < MaxFaults /\ faults' = faults + 1

\* main: deleteWebhook, its error dropped.
Boot ==
    /\ bot.pc = "dead"
    /\ \E works \in BOOLEAN : Call(works) /\ hook' = (hook /\ ~works)
    /\ bot' = [Dead EXCEPT !.pc = "boot"]
    /\ UNCHANGED <<sent, confirmed, handled>>

\* getUpdates(offset = -1, limit = 1) makes Telegram forget all but the newest
\* update, whose id is to become lastUpdateID.
SkipOld ==
    /\ bot.pc = "boot" /\ ~hook
    /\ LET newest == Newest(Pending(1) \cup {0})
       IN  /\ bot' = [bot EXCEPT !.pc = "poll", !.last = Newest(Decoded({newest}) \cup {0})]
           /\ confirmed' = confirmed \cup (1..(newest - 1))
    /\ UNCHANGED <<sent, hook, handled, faults>>

\* Its error leaves lastUpdateID at zero.
SkipFails ==
    /\ bot.pc = "boot"
    /\ Call(hook)
    /\ bot' = [bot EXCEPT !.pc = "poll"]
    /\ UNCHANGED <<sent, confirmed, hook, handled>>

\* getUpdates(lastUpdateID + 1) confirms what precedes it, and the commands of
\* the answer are executed.  An answer without updates ten minutes after the
\* last message sets the webhook, whose error is dropped.  The call is refused
\* while a webhook is set: the loop sleeps five seconds and asks again.
Poll ==
    /\ bot.pc = "poll" /\ ~hook
    /\ LET got == Decoded(Pending(bot.last + 1))
       IN  /\ handled' = handled \cup got
           /\ \/ /\ bot' = [bot EXCEPT !.last = Newest(got \cup {bot.last})]
                 /\ UNCHANGED <<hook, faults>>
              \/ /\ got = {}
                 /\ bot' = [bot EXCEPT !.pc = "hooked"]
                 /\ \E works \in BOOLEAN : Call(works) /\ hook' = works
    /\ confirmed' = confirmed \cup (1..bot.last)
    /\ UNCHANGED sent

\* The receive on wakeCh ...
Wait ==
    /\ bot.pc = "hooked"
    /\ bot' = [bot EXCEPT !.pc = "asleep"]
    /\ UNCHANGED <<sent, confirmed, hook, handled, faults>>

\* ... and deleteWebhook, its error dropped.
Wake ==
    /\ bot.pc = "asleep" /\ bot.wake
    /\ bot' = [bot EXCEPT !.pc = "poll", !.wake = FALSE]
    /\ \E works \in BOOLEAN : Call(works) /\ hook' = (hook /\ ~works)
    /\ UNCHANGED <<sent, confirmed, handled>>

\* SIGTERM sets the webhook and exits; a crash or SIGKILL just ends the bot.
Die ==
    /\ bot.pc # "dead"
    /\ faults < MaxFaults /\ faults' = faults + 1
    /\ bot' = Dead
    /\ hook' \in {hook, TRUE}
    /\ UNCHANGED <<sent, confirmed, handled>>

BotStep == Boot \/ SkipOld \/ SkipFails \/ Poll \/ Wait \/ Wake

BotNext == Send \/ Post \/ BotStep \/ Die

\* systemd restarts the bot, its loop runs, Telegram retries its posts.
BotFairness == WF_bvars(Post) /\ WF_bvars(BotStep) /\ WF_bvars(Wait) /\ WF_bvars(Wake)

BotSpec == BotInit /\ [][BotNext]_bvars
BotFairSpec == BotSpec /\ BotFairness

-----------------------------------------------------------------------------
(* Properties *)

BotTypeOK ==
    /\ sent \in 0..MaxUpdates /\ confirmed \subseteq 1..sent /\ hook \in BOOLEAN
    /\ bot \in [pc : {"dead", "boot", "poll", "hooked", "asleep"}, last : 0..sent, wake : BOOLEAN]
    /\ handled \subseteq Ids /\ faults \in 0..MaxFaults

\* A message that waits for a bot behind its webhook wakes it, also when it
\* arrives between setWebhook and the receive on wakeCh.
MessageWakes == (~Awake /\ hook /\ Pending(1) # {}) ~> Awake

\* A command that waits for a bot that polls, and that no fault disturbs, is
\* executed (README.md: "Polling bot, 10 commands").  Does not hold: the updates
\* are never found in the answer, and the webhook confirms them in the end.
CommandsRun ==
    \A i \in Ids : bot.pc = "poll" /\ ~hook /\ i \in Pending(bot.last + 1) ~> i \in handled

=============================================================================
