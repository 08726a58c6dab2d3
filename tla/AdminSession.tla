---------------------------- MODULE AdminSession ----------------------------
(***************************************************************************)
(* The administrator's own sign-in: handleLogin and its guard, tokens that *)
(* carry the second they were issued in, and requireAuth, which compares   *)
(* that with the moment the password last changed.                         *)
(***************************************************************************)
EXTENDS LoginGuard

CONSTANTS
    Logins,            \* requests to /api/auth/login handled at once
    TicksPerSecond,
    MaxNow, MaxChanges \* bounds: the clock, and changes of the password

VARIABLES
    now,       \* the clock
    password,  \* users.password_hash: how often it has been changed
    changed,   \* users.updated_at
    login,     \* what each sign-in request is doing
    tokens     \* the tokens issued; none gets as old as TokenTTL here

adminVars == <<now, password, changed, login, tokens>>

Free == [at |-> "idle"]

\* iat is in whole seconds.  The token does not carry `at`, the moment itself.
Issued == [iat |-> now \div TicksPerSecond, at |-> now]

\* requireAuth: issued.Before(changed.Add(-time.Second)) is refused.
Accepted(t) == t.iat * TicksPerSecond >= changed - TicksPerSecond

-----------------------------------------------------------------------------
HandleLogin(l, k, pw) ==
    /\ login[l] = Free /\ ~ Blocked(k)
    /\ login' = [login EXCEPT ![l] = [at |-> "query", key |-> k, pw |-> pw]]
    /\ UNCHANGED <<now, password, changed, tokens, guard>>

\* The hash is read, then compared, which takes its time.  Any error counts as a failure.
Authenticate(l) ==
    /\ login[l].at = "query"
    /\ \E ok \in {login[l].pw = password, FALSE} :
          login' = [login EXCEPT ![l] = [@ EXCEPT !.at = IF ok THEN "right" ELSE "wrong"]]
    /\ UNCHANGED <<now, password, changed, tokens, guard>>

LoginFails(l) ==
    /\ login[l].at = "wrong" /\ Fail(login[l].key)
    /\ login' = [login EXCEPT ![l] = Free]
    /\ UNCHANGED <<now, password, changed, tokens>>

IssueToken(l) ==
    /\ login[l].at = "right" /\ Success(login[l].key)
    /\ tokens' = tokens \cup {Issued}
    /\ login' = [login EXCEPT ![l] = Free]
    /\ UNCHANGED <<now, password, changed>>

\* handleChangePassword, from a session that requireAuth let in: the UPDATE at its end.
ChangePassword ==
    /\ \E t \in tokens : Accepted(t)
    /\ password < MaxChanges
    /\ password' = password + 1 /\ changed' = now
    /\ UNCHANGED <<now, login, tokens, guard>>

Tick ==
    /\ now < MaxNow /\ now' = now + 1
    /\ GuardTick
    /\ UNCHANGED <<password, changed, login, tokens>>

AdminInit ==
    /\ now = 0 /\ password = 0 /\ changed = 0
    /\ login = [l \in Logins |-> Free] /\ tokens = {}
    /\ GuardInit

AdminNext ==
    \/ \E l \in Logins :
          \/ \E k \in Keys, pw \in 0..MaxChanges : HandleLogin(l, k, pw)
          \/ Authenticate(l) \/ LoginFails(l) \/ IssueToken(l)
    \/ ChangePassword \/ Tick
    \/ Reap /\ UNCHANGED adminVars

AdminSpec == AdminInit /\ [][AdminNext]_<<adminVars, guard>>

\* No session opened more than a second before the last change of password is accepted.
\* (requireAuth: "Changing the password has to end every session that was already open"; the
\* second is what `changed.Add(-time.Second)` gives away.)
OldSessionsEnd == \A t \in tokens : Accepted(t) => t.at + TicksPerSecond >= changed
=============================================================================
