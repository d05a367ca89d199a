------------------------------- MODULE Accounts -------------------------------
(* The password and the sessions of one account: login with the upgrade of an  *)
(* unsalted account, change, reset and recovery of the password, by the new    *)
(* client, which sends sha256(password + salt), and by the old one, which      *)
(* sends the password.  Every handler reads the row in one statement, hashes,  *)
(* and writes it in another.  A hashed value is a sequence: <<p>> is password  *)
(* p in the clear, Append(x, s) is sha256(x + s); bcrypt changes nothing here. *)
EXTENDS Naturals, Sequences

CONSTANTS
    Sessions,     \* requests in flight at one time
    Passwords,
    MaxSets       \* bound: passwords set

ASSUME AccountsAssumption == Passwords # {} /\ MaxSets \in Nat

VARIABLES
    row,       \* password_hash, pwd_salt (0 when empty) and token_version
    secret,    \* history: the password that was set last
    saltsUsed, \* salts drawn by NewSaltHex
    tokens,    \* history: token_version of each token, and the password it was given for
    op,        \* op[s]: the request of s
    mishap     \* history: what may have spoilt the stored hash

avars == <<row, secret, saltsUsed, tokens, op, mishap>>

NoSalt == 0
ClientKinds == {"new", "old"}
NoOp == [pc |-> "free", old |-> <<>>, new |-> <<>>, salt |-> 0, hash |-> <<>>, tv |-> 0]
Clear(x) == Len(x) = 1          \* ~IsSHA256Hex

\* Mutant of VerifyPassword: the payload is wrapped without the account's salt.
VerifyUnsalted(hash, payload, salt) == hash = payload \/ hash = Append(payload, NoSalt)

VerifyPassword(hash, payload, salt) == hash = payload \/ hash = Append(payload, salt)

\* What a client sends for a password, after a look at /auth/salt if it is new.
Payload(client, pw) == IF client = "new" THEN <<pw, row.salt>> ELSE <<pw>>

AccountsInit ==
    /\ secret \in Passwords
    /\ row \in [hash : {<<secret, NoSalt>>}, salt : {NoSalt}, tv : {0}]
    /\ saltsUsed = 0 /\ tokens = {} /\ mishap = {}
    /\ op = [s \in Sessions |-> NoOp]

Ask(s, pc, old, new) ==
    /\ op[s].pc = "free"
    /\ op' = [op EXCEPT ![s] = [NoOp EXCEPT !.pc = pc, !.old = old, !.new = new]]
    /\ UNCHANGED <<row, secret, saltsUsed, tokens, mishap>>

SendLogin(s) == \E c \in ClientKinds, pw \in Passwords : Ask(s, "login", Payload(c, pw), <<pw>>)

\* Behind RequireAuth: some token must carry the version of the row.
SendChange(s) ==
    /\ \E t \in tokens : t.tv = row.tv
    /\ \E c \in ClientKinds, pw, new \in Passwords : Ask(s, "change", Payload(c, pw), Payload(c, new))

\* By an administrator (ResetPassword, UpdateUser) or with a recovery code.
SendReset(s) == \E c \in ClientKinds, new \in Passwords : Ask(s, "reset", <<>>, Payload(c, new))

Done(s) == op' = [op EXCEPT ![s] = NoOp]

\* A password that does not verify ends a login or a change.
Deny(s) ==
    /\ op[s].pc \in {"login", "change"}
    /\ ~VerifyPassword(row.hash, op[s].old, row.salt)
    /\ Done(s)
    /\ UNCHANGED <<row, secret, saltsUsed, tokens, mishap>>

Issue(pw, tv) == tokens' = tokens \cup {[tv |-> tv, pw |-> pw]}

\* HandleLogin: the row, the verification, and the token ...
Login(s) ==
    /\ op[s].pc = "login"
    /\ VerifyPassword(row.hash, op[s].old, row.salt)
    /\ row.hash = op[s].old \/ row.salt # NoSalt
    /\ Issue(op[s].new[1], row.tv)
    /\ Done(s)
    /\ UNCHANGED <<row, secret, saltsUsed, mishap>>

\* ... or first a salt for an account that matched the old way.
LoginLegacy(s) ==
    /\ op[s].pc = "login"
    /\ row.hash # op[s].old /\ row.salt = NoSalt
    /\ VerifyPassword(row.hash, op[s].old, row.salt)
    /\ op' = [op EXCEPT ![s].pc = "upgrade", ![s].hash = row.hash, ![s].tv = row.tv]
    /\ UNCHANGED <<row, secret, saltsUsed, tokens, mishap>>

Upgrade(s) ==
    /\ op[s].pc = "upgrade"
    /\ saltsUsed' = saltsUsed + 1
    /\ row' = [row EXCEPT !.salt = saltsUsed', !.hash = Append(op[s].old, saltsUsed')]
    /\ mishap' = mishap \cup IF row.hash = op[s].hash THEN {} ELSE {"upgradeRace"}
    /\ Issue(op[s].new[1], op[s].tv)
    /\ Done(s)
    /\ UNCHANGED secret

\* HandleMePassword reads the hash and the salt; a reset by the old client only
\* the salt.
ReadRow(s) ==
    /\ op[s].pc \in {"change", "reset"}
    /\ op[s].pc = "change" => VerifyPassword(row.hash, op[s].old, row.salt)
    /\ op' = [op EXCEPT ![s].pc = IF @ = "change" THEN "setChange" ELSE "setReset",
                        ![s].salt = row.salt]
    /\ UNCHANGED <<row, secret, saltsUsed, tokens, mishap>>

Store(hash, salt, pw) ==
    /\ row.tv < MaxSets
    /\ row' = [hash |-> hash, salt |-> salt, tv |-> row.tv + 1]
    /\ secret' = pw

\* Wrap a payload in the clear with the salt that was read; an account without
\* a salt gets one, around whatever was sent.
SetChange(s) ==
    LET o == op[s]
    IN  /\ o.pc = "setChange"
        /\ IF o.salt = NoSalt
           THEN /\ saltsUsed' = saltsUsed + 1
                /\ Store(Append(o.new, saltsUsed'), saltsUsed', o.new[1])
                /\ mishap' = mishap \cup IF Clear(o.new) THEN {} ELSE {"unsaltedChange"}
           ELSE /\ Store(IF Clear(o.new) THEN Append(o.new, o.salt) ELSE o.new, o.salt, o.new[1])
                /\ mishap' = mishap \cup
                       IF Clear(o.new) \/ o.new[2] = o.salt THEN {} ELSE {"staleSalt"}
                /\ UNCHANGED saltsUsed
        /\ Done(s)
        /\ UNCHANGED tokens

SetReset(s) ==
    LET o == op[s]
        hash == IF Clear(o.new) THEN Append(o.new, o.salt) ELSE o.new
    IN  /\ o.pc = "setReset"
        /\ Store(hash, row.salt, o.new[1])
        /\ mishap' = mishap \cup IF hash[2] = row.salt THEN {} ELSE {"staleSalt"}
        /\ Done(s)
        /\ UNCHANGED <<saltsUsed, tokens>>

\* exp: a token dies after eight hours.
Expire == /\ \E t \in tokens : tokens' = tokens \ {t}
          /\ UNCHANGED <<row, secret, saltsUsed, op, mishap>>

AccountsNext ==
    \/ Expire
    \/ \E s \in Sessions :
        \/ SendLogin(s) \/ SendChange(s) \/ SendReset(s) \/ Deny(s)
        \/ Login(s) \/ LoginLegacy(s) \/ Upgrade(s)
        \/ ReadRow(s) \/ SetChange(s) \/ SetReset(s)

AccountsSpec == AccountsInit /\ [][AccountsNext]_avars

-----------------------------------------------------------------------------
(* Properties *)

AccountsTypeOK ==
    /\ row \in [hash : Seq(Passwords \cup Nat), salt : 0..saltsUsed, tv : 0..MaxSets]
    /\ secret \in Passwords /\ saltsUsed \in Nat
    /\ tokens \subseteq [tv : 0..row.tv, pw : Passwords]
    /\ \A s \in Sessions : op[s].pc \in
           {"free", "login", "upgrade", "change", "reset", "setChange", "setReset"}
    /\ mishap \subseteq {"upgradeRace", "unsaltedChange", "staleSalt"}

Opens(pw, client) ==
    VerifyPassword(row.hash, IF client = "new" THEN <<pw, row.salt>> ELSE <<pw>>, row.salt)

\* The password that was set last, and no other, opens the account, from the new
\* client and the old one, and a token that still passes RequireAuth was given
\* for that password: unless an upgrade overwrote a newer password, a hash was
\* built with a salt that is not the account's, or the new client changed the
\* password of an account without one.
PasswordRules ==
    mishap = {} =>
        /\ \A pw \in Passwords, c \in ClientKinds : Opens(pw, c) <=> pw = secret
        /\ \A t \in tokens : t.tv = row.tv => t.pw = secret

\* A change of the password never locks its owner out: "wrapping without salt
\* would lock the account out" (auth.go, HandleMePassword).  Does not hold
\* (README, Known divergences).
ChangeKeepsAccess ==
    mishap \subseteq {"unsaltedChange"} => \E c \in ClientKinds : Opens(secret, c)

=============================================================================
