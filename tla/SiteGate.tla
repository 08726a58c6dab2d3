------------------------------ MODULE SiteGate ------------------------------
(***************************************************************************)
(* The login gate in front of a site: accounts with a session generation   *)
(* in the control plane, signed cookies, and workers that check them       *)
(* against the generations of the configuration they have loaded.          *)
(*                                                                         *)
(* Of the configuration only the accounts are kept here.  That             *)
(* publishes are ordered and workers never go back is what ConfigPublish   *)
(* and ConfigSync show.                                                    *)
(***************************************************************************)
EXTENDS LoginGuard

CONSTANTS
    Sites,
    Users,       \* account ids, which the database never gives out twice
    SiteOf,      \* SiteOf[u]: the site of account u
    Addresses,   \* client addresses
    Workers,
    Logins,      \* sign-in requests the control plane handles at once
    MaxGen       \* bound: the generation of an account

\* siteLoginKey: failures are counted by site and address together.
ASSUME GateAssumption ==
    /\ SiteOf \in [Users -> Sites]
    /\ Keys = Sites \X Addresses
    /\ IsFiniteSet(Logins)
    /\ MaxGen \in Nat \ {0}

VARIABLES
    account,    \* table site_users
    deleted,    \* ids of deleted accounts, which are not used again
    snapshot,   \* what a running Publish has read of it, Unread when none has
    published,  \* the part of moswaf:config that comes from it
    conf,       \* conf[w]: the same, in the configuration worker w has loaded
    login,      \* what each sign-in request is doing
    cookies     \* the sessions that have been signed and have not expired

\* A row: its generation, and which password it has by the number of the generation that
\* set it.  Generation 0: no such row.
NoRow == [gen |-> 0, pw |-> 0]
Rows == {NoRow} \cup [gen : 1..MaxGen, pw : 1..MaxGen]
Accounts == [Users -> Rows]

gateVars == <<account, deleted, snapshot, published, conf, login, cookies>>

Unread == [u \in Users |-> [gen |-> -1, pw |-> -1]]
Sessions == [user : Users, gen : 1..MaxGen, pw : 1..MaxGen]

LoginStates ==
    [at : {"query", "compare"}, user : Users, address : Addresses, pw : 0..MaxGen, row : Rows]
Free == [at |-> "idle"]

KeyOf(l) == <<SiteOf[login[l].user], login[l].address>>

-----------------------------------------------------------------------------
(* Accounts: siteusers.go.  Each is one SQL statement. *)

\* Mutant: an id that is given out again.
CreateSiteUserAgain(u) ==
    /\ account[u] = NoRow
    /\ account' = [account EXCEPT ![u] = [gen |-> 1, pw |-> 1]]
    /\ UNCHANGED deleted

CreateSiteUser(u) ==
    /\ account[u] = NoRow /\ u \notin deleted
    /\ account' = [account EXCEPT ![u] = [gen |-> 1, pw |-> 1]]
    /\ UNCHANGED deleted

SetSiteUserPassword(u) ==
    /\ account[u].gen \in 1..(MaxGen - 1)
    /\ account' = [account EXCEPT ![u] = [gen |-> account[u].gen + 1,
                                          pw |-> account[u].gen + 1]]
    /\ UNCHANGED deleted

RevokeSiteUserSessions(u) ==
    /\ account[u].gen \in 1..(MaxGen - 1)
    /\ account' = [account EXCEPT ![u] = [gen |-> account[u].gen + 1, pw |-> account[u].pw]]
    /\ UNCHANGED deleted

DeleteSiteUser(u) ==
    /\ account[u] # NoRow
    /\ account' = [account EXCEPT ![u] = NoRow]
    /\ deleted' = deleted \cup {u}

Administer ==
    /\ \E u \in Users : \/ CreateSiteUser(u) \/ SetSiteUserPassword(u)
                        \/ RevokeSiteUserSessions(u) \/ DeleteSiteUser(u)
    /\ UNCHANGED <<snapshot, published, conf, login, cookies, guard>>

-----------------------------------------------------------------------------
(* The way of the generations to the workers.  Every change is followed by a publish, and *)
(* there are others, so one may run at any time; its mutex keeps it to one at a time.     *)

SiteGenerations ==
    /\ snapshot = Unread
    /\ snapshot' = account
    /\ UNCHANGED <<account, deleted, published, conf, login, cookies, guard>>

\* Publish stores what it read, or fails, before or after it did so.
PublishGenerations ==
    /\ snapshot # Unread
    /\ published' \in {snapshot, published}
    /\ snapshot' = Unread
    /\ UNCHANGED <<account, deleted, conf, login, cookies, guard>>

Load(w) ==
    /\ conf[w] # published
    /\ conf' = [conf EXCEPT ![w] = published]
    /\ UNCHANGED <<account, deleted, snapshot, published, login, cookies, guard>>

-----------------------------------------------------------------------------
(* A request at worker w. *)

\* The gate is published as on only for a site that has an account.
AuthEnabled(w, s) == \E u \in Users : SiteOf[u] = s /\ conf[w][u].gen > 0

\* auth.verify: signed for this site, and of the generation the site has for that account.
Verify(w, s, c) == SiteOf[c.user] = s /\ conf[w][c.user].gen = c.gen

-----------------------------------------------------------------------------
(* Signing in: login.serve in worker w, then handleSiteLogin. *)

\* Mutant: a lock that is not asked about.
ServeLocked(l, w, u, address, pw) ==
    /\ login[l] = Free /\ AuthEnabled(w, SiteOf[u])
    /\ login' = [login EXCEPT ![l] = [at |-> "query", user |-> u, address |-> address,
                                      pw |-> pw, row |-> NoRow]]
    /\ UNCHANGED <<account, deleted, snapshot, published, conf, cookies, guard>>

\* The form of a site whose gate is on reaches the control plane, with some password for some
\* account; a blocked key is answered 429.
Serve(l, w, u, address, pw) ==
    /\ login[l] = Free /\ AuthEnabled(w, SiteOf[u])
    /\ ~ Blocked(<<SiteOf[u], address>>)
    /\ login' = [login EXCEPT ![l] = [at |-> "query", user |-> u, address |-> address,
                                      pw |-> pw, row |-> NoRow]]
    /\ UNCHANGED <<account, deleted, snapshot, published, conf, cookies, guard>>

\* The row is read, hash and generation together, before the slow comparison.  A query that
\* fails is answered 500 and not counted.
AuthenticateSiteUser(l) ==
    /\ login[l].at = "query"
    /\ login' \in {[login EXCEPT ![l].at = "compare", ![l].row = account[login[l].user]],
                   [login EXCEPT ![l] = Free]}
    /\ UNCHANGED <<account, deleted, snapshot, published, conf, cookies, guard>>

Matches(l) == login[l].row # NoRow /\ login[l].row.pw = login[l].pw

WrongPassword(l) ==
    /\ login[l].at = "compare" /\ ~ Matches(l)
    /\ Fail(KeyOf(l))
    /\ login' = [login EXCEPT ![l] = Free]
    /\ UNCHANGED <<account, deleted, snapshot, published, conf, cookies>>

\* Mutant: the generation is read again when the cookie is signed.
SignSessionFresh(l) ==
    /\ login[l].at = "compare" /\ Matches(l)
    /\ Success(KeyOf(l))
    /\ cookies' = cookies \cup
          (IF account[login[l].user] = NoRow THEN {}
           ELSE {[user |-> login[l].user, gen |-> account[login[l].user].gen,
                  pw |-> login[l].pw]})
    /\ login' = [login EXCEPT ![l] = Free]
    /\ UNCHANGED <<account, deleted, snapshot, published, conf>>

SignSession(l) ==
    /\ login[l].at = "compare" /\ Matches(l)
    /\ Success(KeyOf(l))
    /\ cookies' = cookies \cup {[user |-> login[l].user, gen |-> login[l].row.gen,
                                 pw |-> login[l].pw]}
    /\ login' = [login EXCEPT ![l] = Free]
    /\ UNCHANGED <<account, deleted, snapshot, published, conf>>

LoginStep(l) ==
    \/ \E w \in Workers, u \in Users, address \in Addresses, pw \in 0..MaxGen :
          Serve(l, w, u, address, pw)
    \/ AuthenticateSiteUser(l) \/ WrongPassword(l) \/ SignSession(l)

\* `exp` passes.
Expire(c) ==
    /\ cookies' = cookies \ {c}
    /\ UNCHANGED <<account, deleted, snapshot, published, conf, login, guard>>

\* moswafd stops: the guard, the requests and the publish it was busy with are lost.
Restart ==
    /\ guard' = [k \in Keys |-> NoRecord]
    /\ login' = [l \in Logins |-> Free] /\ snapshot' = Unread
    /\ UNCHANGED <<account, deleted, published, conf, cookies>>

GateInit ==
    /\ account = [u \in Users |-> NoRow] /\ deleted = {}
    /\ snapshot = Unread /\ published = account /\ conf = [w \in Workers |-> account]
    /\ login = [l \in Logins |-> Free] /\ cookies = {}
    /\ GuardInit

GateNext ==
    \/ Administer \/ SiteGenerations \/ PublishGenerations \/ Restart
    \/ \E w \in Workers : Load(w)
    \/ \E l \in Logins : LoginStep(l)
    \/ \E c \in cookies : Expire(c)
    \/ (Reap \/ GuardTick) /\ UNCHANGED gateVars

allGateVars == <<gateVars, guard>>

GateSpec == GateInit /\ [][GateNext]_allGateVars

GateTypeOK ==
    /\ guard \in [Keys -> Records]
    /\ account \in Accounts /\ deleted \in SUBSET Users
    /\ published \in Accounts /\ conf \in [Workers -> Accounts]
    /\ snapshot \in Accounts \cup {Unread}
    /\ login \in [Logins -> LoginStates \cup {Free}]
    /\ cookies \in SUBSET Sessions

-----------------------------------------------------------------------------
(* Properties. *)

\* A session that a worker lets through was opened with the password the account has in that
\* worker's configuration, although the password may have been changed while the sign-in was
\* comparing the old one (SetSiteUserPassword: "ends every session that account already had").
OldPasswordShutOut ==
    \A w \in Workers, c \in cookies :
        Verify(w, SiteOf[c.user], c) => c.pw = conf[w][c.user].pw

\* Every copy of a row of the table: in a publish, in Redis, in a worker, in a sign-in that is
\* under way and, signed, in a cookie.
Copies(u) ==
    {account[u], snapshot[u], published[u]}
      \cup {conf[w][u] : w \in Workers}
      \cup {login[l].row : l \in {k \in Logins : login[k].at = "compare" /\ login[k].user = u}}
      \cup {[gen |-> c.gen, pw |-> c.pw] : c \in {d \in cookies : d.user = u}}

\* No copy is ahead of the table, and all copies of one generation have one password.
CopiesAgree(u) ==
    \A r \in Copies(u) :
        /\ r.gen > 0 => u \in deleted \/ r.gen <= account[u].gen
        /\ \A q \in Copies(u) : r.gen > 0 /\ q.gen = r.gen => q.pw = r.pw

\* The inductive invariant behind OldPasswordShutOut.
GateInv ==
    /\ GateTypeOK
    /\ \A u \in deleted : account[u] = NoRow
    /\ \A u \in Users : CopiesAgree(u)
=============================================================================
