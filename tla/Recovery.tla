------------------------------- MODULE Recovery -------------------------------
(* Password recovery of one account: codes by mail (HandleForgotRequest) and   *)
(* their verification (HandleForgotVerify), with any number of requests        *)
(* between the statements of another.  The limits of a code are checked in one *)
(* statement and counted in another.                                           *)
EXTENDS Naturals, FiniteSets

CONSTANTS
    Verifiers,     \* verifications in flight at one time
    Mailers,       \* requests for a code in flight at one time
    MaxAttempts,   \* attempts a code allows (5)
    MaxFails,      \* failures of an account in ten minutes (20)
    MaxCodes       \* bound: codes sent

ASSUME RecoveryAssumption ==
    IsFiniteSet(Verifiers) /\ {MaxAttempts, MaxFails} \subseteq Nat \ {0} /\ MaxCodes \in Nat

VARIABLES
    codes,      \* number of rows of verification_codes
    used,       \* codes that are used or have expired
    attempts,   \* attempts[c]
    guessed,    \* history: wrong guesses compared with code c
    aged,       \* codes older than ten minutes
    cooled,     \* the last code is sixty seconds old
    mailer,     \* mailer[m]: where a request for a code is
    verifier    \* verifier[v]: where a verification is, and its code

fvars == <<codes, used, attempts, guessed, aged, cooled, mailer, verifier>>

Codes == 1..MaxCodes
NotVerifying == [pc |-> "free", code |-> 0]
Usable == {c \in 1..codes : c \notin used}
LastOf(S) == CHOOSE c \in S : \A d \in S : d <= c
Tries(count) == UNION {{c} \X (1..count[c]) : c \in (aged + 1)..codes}
Failures(count) == Cardinality(Tries(count))    \* their sum
Judging(c) == {v \in Verifiers : verifier[v] = [pc |-> "wrong", code |-> c]}

RecoveryInit ==
    /\ codes = 0 /\ aged = 0 /\ used = {} /\ cooled = TRUE
    /\ attempts = [c \in Codes |-> 0] /\ guessed = [c \in Codes |-> 0]
    /\ mailer = [m \in Mailers |-> "free"]
    /\ verifier = [v \in Verifiers |-> NotVerifying]

Cool == cooled' = TRUE /\ UNCHANGED <<codes, used, attempts, guessed, aged, mailer, verifier>>

\* HandleForgotRequest: the cooldown, ...
AskCode(m) ==
    /\ mailer[m] = "free" /\ cooled
    /\ mailer' = [mailer EXCEPT ![m] = "retire"]
    /\ UNCHANGED <<codes, used, attempts, guessed, aged, cooled, verifier>>

\* ... the older codes retired, ...
Retire(m) ==
    /\ mailer[m] = "retire"
    /\ used' = 1..codes
    /\ mailer' = [mailer EXCEPT ![m] = "insert"]
    /\ UNCHANGED <<codes, attempts, guessed, aged, cooled, verifier>>

\* ... and the new one inserted and mailed.
InsertCode(m) ==
    /\ mailer[m] = "insert" /\ codes < MaxCodes
    /\ codes' = codes + 1
    /\ cooled' = FALSE
    /\ mailer' = [mailer EXCEPT ![m] = "free"]
    /\ UNCHANGED <<used, attempts, guessed, aged, verifier>>

CodeExpires ==
    /\ \E c \in Usable : used' = used \cup {c}
    /\ UNCHANGED <<codes, attempts, guessed, aged, cooled, mailer, verifier>>

AgeCode ==
    /\ aged < codes /\ aged + 1 \in used
    /\ aged' = aged + 1
    /\ UNCHANGED <<codes, used, attempts, guessed, cooled, mailer, verifier>>

Compare(v, c) ==
    /\ \/ /\ verifier' = [verifier EXCEPT ![v] = [pc |-> "wrong", code |-> c]]
          /\ guessed' = [guessed EXCEPT ![c] = @ + 1]
       \/ /\ verifier' = [verifier EXCEPT ![v] = [pc |-> "right", code |-> c]]
          /\ UNCHANGED guessed
    /\ UNCHANGED <<codes, used, attempts, aged, cooled, mailer>>

\* Mutant of Verify: the attempts of the code are not looked at.
VerifyUnlimited(v) ==
    /\ verifier[v].pc = "free" /\ Usable # {}
    /\ Compare(v, LastOf(Usable))

\* HandleForgotVerify: the newest usable code, its attempts, the failures of the
\* account, and the comparison.
Verify(v) ==
    /\ verifier[v].pc = "free" /\ Usable # {}
    /\ attempts[LastOf(Usable)] < MaxAttempts
    /\ Failures(attempts) < MaxFails
    /\ Compare(v, LastOf(Usable))

CountAttempt(v) ==
    LET c == verifier[v].code
    IN  /\ verifier[v].pc = "wrong"
        /\ attempts' = [attempts EXCEPT ![c] = @ + 1]
        /\ verifier' = [verifier EXCEPT ![v] = NotVerifying]
        /\ UNCHANGED <<codes, used, guessed, aged, cooled, mailer>>

\* The new password is stored, then the code marked as used.
Redeem(v) ==
    /\ verifier[v].pc = "right"
    /\ used' = used \cup {verifier[v].code}
    /\ verifier' = [verifier EXCEPT ![v] = NotVerifying]
    /\ UNCHANGED <<codes, attempts, guessed, aged, cooled, mailer>>

RecoveryNext ==
    \/ Cool \/ CodeExpires \/ AgeCode
    \/ \E m \in Mailers : AskCode(m) \/ Retire(m) \/ InsertCode(m)
    \/ \E v \in Verifiers : Verify(v) \/ CountAttempt(v) \/ Redeem(v)

RecoverySpec == RecoveryInit /\ [][RecoveryNext]_fvars

-----------------------------------------------------------------------------
(* Properties *)

RecoveryTypeOK ==
    /\ codes \in 0..MaxCodes /\ used \subseteq 1..codes /\ aged \in 0..codes
    /\ attempts \in [Codes -> Nat] /\ guessed \in [Codes -> Nat]
    /\ cooled \in BOOLEAN
    /\ mailer \in [Mailers -> {"free", "retire", "insert"}]
    /\ verifier \in [Verifiers -> [pc : {"free", "wrong", "right"}, code : 0..codes]]

\* Checking and counting an attempt apart costs at most one guess more for each
\* further verification in flight: per code, and per ten minutes of an account.
GuessesBounded ==
    /\ \A c \in Codes : guessed[c] < MaxAttempts + Cardinality(Verifiers)
    /\ Failures(guessed) < MaxFails + Cardinality(Verifiers)

=============================================================================
