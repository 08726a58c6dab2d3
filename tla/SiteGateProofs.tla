--------------------------- MODULE SiteGateProofs ---------------------------
(* The theorems about the login gate. *)
EXTENDS GateHistory, FiniteSetTheorems, TLAPS

\* What fail() leaves in the guard is a record for every key (auth.go).
LEMMA FailType ==
    ASSUME guard \in [Keys -> Records], NEW k \in Keys, Fail(k)
    PROVE  guard' \in [Keys -> Records]
<1>1. \A r \in Records : Counted(r) \in Records
  BY GuardAssumption DEF Counted, Records
<1>2. NoRecord \in Records
  BY GuardAssumption DEF NoRecord, Records
<1> QED BY <1>1, <1>2 DEF Fail

\* The key a request is counted by is one of the guard's.
LEMMA KeyOfType ==
    ASSUME GateTypeOK, NEW l \in Logins, login[l] # Free
    PROVE  KeyOf(l) \in Keys
BY GateAssumption DEF GateTypeOK, KeyOf, LoginStates

\* Every step keeps the types.
LEMMA GateTypeStep ==
    ASSUME GateTypeOK, [GateNext]_allGateVars
    PROVE  GateTypeOK'
<1> USE DEF GateTypeOK
<1>1. NoRow \in Rows /\ NoRecord \in Records
  BY GuardAssumption, GateAssumption DEF NoRow, Rows, NoRecord, Records
<1>2. CASE Administer
  <2>1. ASSUME NEW u \in Users, CreateSiteUser(u)
        PROVE  account' \in Accounts /\ deleted' \in SUBSET Users
    BY <2>1, GateAssumption DEF CreateSiteUser, Accounts, Rows
  <2>2. ASSUME NEW u \in Users, SetSiteUserPassword(u)
        PROVE  account' \in Accounts /\ deleted' \in SUBSET Users
    BY <2>2, GateAssumption DEF SetSiteUserPassword, Accounts, Rows
  <2>3. ASSUME NEW u \in Users, RevokeSiteUserSessions(u)
        PROVE  account' \in Accounts /\ deleted' \in SUBSET Users
    BY <2>3, GateAssumption DEF RevokeSiteUserSessions, Accounts, Rows, NoRow
  <2>4. ASSUME NEW u \in Users, DeleteSiteUser(u)
        PROVE  account' \in Accounts /\ deleted' \in SUBSET Users
    BY <2>4, <1>1 DEF DeleteSiteUser, Accounts
  <2> QED BY <1>2, <2>1, <2>2, <2>3, <2>4 DEF Administer
<1>3. CASE SiteGenerations
  BY <1>3 DEF SiteGenerations
<1>4. CASE PublishGenerations
  BY <1>4 DEF PublishGenerations
<1>5. CASE Restart
  BY <1>5, <1>1 DEF Restart
<1>6. CASE \E w \in Workers : Load(w)
  BY <1>6 DEF Load
<1>7. ASSUME NEW l \in Logins, LoginStep(l) PROVE GateTypeOK'
  <2>1. CASE \E w \in Workers, u \in Users, address \in Addresses, pw \in 0..MaxGen :
                Serve(l, w, u, address, pw)
    BY <2>1, <1>1 DEF Serve, LoginStates
  <2>2. CASE AuthenticateSiteUser(l)
    BY <2>2 DEF AuthenticateSiteUser, LoginStates, Accounts, Free
  <2>3. CASE WrongPassword(l)
    BY <2>3, KeyOfType, FailType DEF WrongPassword, Free
  <2>4. CASE SignSession(l)
    <3>1. guard' \in [Keys -> Records]
      BY <2>4, <1>1, KeyOfType DEF SignSession, Success
    <3>2. login[l] \in LoginStates
      BY <2>4 DEF SignSession, Free
    <3>3. login[l].user \in Users /\ login[l].row \in [gen : 1..MaxGen, pw : 1..MaxGen]
      BY <2>4, <3>2 DEF SignSession, Matches, LoginStates, Rows
    <3>4. [user |-> login[l].user, gen |-> login[l].row.gen, pw |-> login[l].pw] \in Sessions
      BY <2>4, <3>3 DEF SignSession, Matches, Sessions
    <3>5. cookies' \in SUBSET Sessions
      BY <2>4, <3>4 DEF SignSession
    <3> QED BY <2>4, <3>1, <3>5 DEF SignSession
  <2> QED BY <1>7, <2>1, <2>2, <2>3, <2>4 DEF LoginStep
<1>8. CASE \E c \in cookies : Expire(c)
  BY <1>8 DEF Expire
<1>9. CASE (Reap \/ GuardTick) /\ UNCHANGED gateVars
  <2>1. guard' \in [Keys -> Records]
    <3>1. CASE Reap
      BY <3>1, <1>1 DEF Reap
    <3>2. CASE GuardTick
      <4>1. \A r \in Records : Older(r) \in Records
        BY GuardAssumption DEF Records, Older
      <4> QED BY <3>2, <4>1, <1>1 DEF GuardTick
    <3> QED BY <1>9, <3>1, <3>2
  <2> QED BY <1>9, <2>1 DEF gateVars
<1>10. CASE UNCHANGED allGateVars
  BY <1>10 DEF allGateVars, gateVars
<1> QED BY <1>2, <1>3, <1>4, <1>5, <1>6, <1>7, <1>8, <1>9, <1>10 DEF GateNext

-----------------------------------------------------------------------------
\* While the table stays as it is, copies of copies are no harm.
LEMMA CopiedIsHarmless ==
    ASSUME NEW u \in Users, CopiesAgree(u), account'[u] = account[u], deleted' = deleted,
           Copies(u)' \subseteq Copies(u) \cup {Unread[u]}
    PROVE  CopiesAgree(u)'
<1>1. Unread[u].gen = -1
  BY DEF Unread
<1>2. \A r \in Copies(u)' : r.gen > 0 => r \in Copies(u)
  BY <1>1
<1> QED BY <1>2, <1>1 DEF CopiesAgree

\* A new row is harmless if its generation is higher than any copy's, and a deletion always.
LEMMA ChangedIsHarmless ==
    ASSUME NEW u \in Users, CopiesAgree(u),
           Copies(u)' \subseteq Copies(u) \cup {account'[u]}, deleted \subseteq deleted',
           \/ u \in deleted' /\ account'[u] = NoRow
           \/ /\ account[u].gen \in Nat /\ account'[u].gen = account[u].gen + 1
              /\ u \notin deleted
              /\ \A r \in Copies(u) : r.gen \in Int
    PROVE  CopiesAgree(u)'
<1>1. CASE u \in deleted' /\ account'[u] = NoRow
  BY <1>1 DEF CopiesAgree, NoRow
<1>2. CASE /\ account[u].gen \in Nat /\ account'[u].gen = account[u].gen + 1
           /\ u \notin deleted /\ \A r \in Copies(u) : r.gen \in Int
  <2>1. \A r \in Copies(u) : r.gen > 0 => r.gen < account'[u].gen
    BY <1>2 DEF CopiesAgree
  <2> QED BY <1>2, <2>1 DEF CopiesAgree
<1> QED BY <1>1, <1>2

\* Generations are numbers, wherever they have been copied to.
LEMMA CopiesType ==
    ASSUME GateTypeOK, NEW u \in Users, NEW r \in Copies(u)
    PROVE  r.gen \in Int
<1> USE GateAssumption DEF GateTypeOK, Accounts
<1>1. \A row \in Rows : row.gen \in Int
  BY DEF Rows, NoRow
<1>2. CASE r \in {account[u], published[u]} \cup {conf[w][u] : w \in Workers}
  BY <1>1, <1>2
<1>3. CASE r = snapshot[u]
  BY <1>1, <1>3 DEF Unread
<1>4. CASE \E l \in Logins : login[l].at = "compare" /\ r = login[l].row
  BY <1>1, <1>4 DEF LoginStates, Free
<1>5. CASE \E c \in cookies : r = [gen |-> c.gen, pw |-> c.pw]
  BY <1>5 DEF Sessions
<1> QED BY <1>2, <1>3, <1>4, <1>5 DEF Copies

\* What is published, loaded, read and signed is copied from a row or from a copy of it.
LEMMA OthersOnlyCopy ==
    ASSUME GateTypeOK, NEW u \in Users, UNCHANGED <<account, deleted>>,
           [GateNext]_allGateVars
    PROVE  Copies(u)' \subseteq Copies(u) \cup {Unread[u]}
<1> USE DEF Copies
<1>1. CASE SiteGenerations
  BY <1>1 DEF SiteGenerations
<1>2. CASE PublishGenerations
  BY <1>2 DEF PublishGenerations
<1>3. CASE Restart
  BY <1>3 DEF Restart, Free
<1>4. CASE \E w \in Workers : Load(w)
  BY <1>4 DEF Load, GateTypeOK
<1>5. ASSUME NEW l \in Logins, LoginStep(l)
      PROVE  Copies(u)' \subseteq Copies(u) \cup {Unread[u]}
  <2>1. \A k \in Logins \ {l} : login'[k] = login[k]
    BY <1>5 DEF LoginStep, Serve, AuthenticateSiteUser, WrongPassword, SignSession, GateTypeOK
  <2>2. UNCHANGED <<account, snapshot, published, conf>>
    BY <1>5 DEF LoginStep, Serve, AuthenticateSiteUser, WrongPassword, SignSession
  <2>3. login'[l].at = "compare" /\ login'[l].user = u => login'[l].row = account[u]
    <3>1. CASE AuthenticateSiteUser(l)
      BY <3>1 DEF AuthenticateSiteUser, GateTypeOK, LoginStates, Free
    <3>2. CASE ~ AuthenticateSiteUser(l)
      <4>1. login'[l].at # "compare"
        <5>1. CASE \E w \in Workers, v \in Users, address \in Addresses, pw \in 0..MaxGen :
                      Serve(l, w, v, address, pw)
          BY <5>1 DEF Serve, GateTypeOK
        <5>2. CASE WrongPassword(l) \/ SignSession(l)
          BY <5>2 DEF WrongPassword, SignSession, GateTypeOK, Free
        <5> QED BY <1>5, <3>2, <5>1, <5>2 DEF LoginStep
      <4> QED BY <4>1
    <3> QED BY <3>1, <3>2
  <2>4. \A c \in cookies' : c \in cookies
            \/ (c.user = u => [gen |-> c.gen, pw |-> c.pw] \in Copies(u))
    <3>1. CASE SignSession(l)
      <4>1. login[l] \in LoginStates /\ login[l].row \in [gen : 1..MaxGen, pw : 1..MaxGen]
        BY <3>1 DEF SignSession, Matches, LoginStates, Rows, Free, GateTypeOK
      <4>2. [gen |-> login[l].row.gen, pw |-> login[l].pw] = login[l].row
        BY <3>1, <4>1 DEF SignSession, Matches
      <4>3. login[l].user = u => login[l].row \in Copies(u)
        BY <3>1 DEF SignSession
      <4>4. ASSUME NEW c \in cookies', c \notin cookies
            PROVE  /\ c.user = login[l].user
                   /\ [gen |-> c.gen, pw |-> c.pw] = [gen |-> login[l].row.gen, pw |-> login[l].pw]
        BY <3>1, <4>4 DEF SignSession
      <4> QED BY <4>2, <4>3, <4>4
    <3>2. CASE UNCHANGED cookies
      BY <3>2
    <3> QED BY <1>5, <3>1, <3>2 DEF LoginStep, Serve, AuthenticateSiteUser, WrongPassword
  <2>5. ASSUME NEW k \in Logins, login'[k].at = "compare", login'[k].user = u
        PROVE  login'[k].row \in Copies(u)
    <3>1. CASE k = l
      BY <2>3, <2>5, <3>1
    <3>2. CASE k # l
      BY <2>1, <2>5, <3>2
    <3> QED BY <3>1, <3>2
  <2>6. ASSUME NEW c \in cookies', c.user = u
        PROVE  [gen |-> c.gen, pw |-> c.pw] \in Copies(u)
    BY <2>4, <2>6
  <2>7. SUFFICES ASSUME NEW r \in Copies(u)' PROVE r \in Copies(u)
    OBVIOUS
  <2>8. CASE r \in {account'[u], snapshot'[u], published'[u]} \cup {conf'[w][u] : w \in Workers}
    BY <2>2, <2>8
  <2>9. CASE \E k \in Logins : /\ login'[k].at = "compare" /\ login'[k].user = u
                              /\ r = login'[k].row
    BY <2>5, <2>9
  <2>10. CASE \E c \in cookies' : c.user = u /\ r = [gen |-> c.gen, pw |-> c.pw]
    BY <2>6, <2>10
  <2> QED BY <2>7, <2>8, <2>9, <2>10
<1>6. CASE \E c \in cookies : Expire(c)
  BY <1>6 DEF Expire
<1>7. CASE UNCHANGED gateVars
  BY <1>7 DEF gateVars
<1>8. CASE Administer
  BY <1>8 DEF Administer
<1> QED BY <1>1, <1>2, <1>3, <1>4, <1>5, <1>6, <1>7, <1>8 DEF GateNext, allGateVars

\* Every step keeps the inductive invariant.
LEMMA GateStep ==
    ASSUME GateInv, [GateNext]_allGateVars
    PROVE  GateInv'
<1>1. GateTypeOK'
  BY GateTypeStep DEF GateInv
<1>2. CASE UNCHANGED <<account, deleted>>
  <2>1. ASSUME NEW u \in Users PROVE CopiesAgree(u)'
    BY <1>2, OthersOnlyCopy, CopiedIsHarmless DEF GateInv
  <2> QED BY <1>1, <1>2, <2>1 DEF GateInv
<1>3. CASE Administer
  <2>1. PICK a \in Users : \/ CreateSiteUser(a) \/ SetSiteUserPassword(a)
                           \/ RevokeSiteUserSessions(a) \/ DeleteSiteUser(a)
    BY <1>3 DEF Administer
  <2>2. \A u \in Users \ {a} : account'[u] = account[u]
    BY <2>1 DEF CreateSiteUser, SetSiteUserPassword, RevokeSiteUserSessions, DeleteSiteUser,
                GateInv, GateTypeOK, Accounts
  <2>3. UNCHANGED <<snapshot, published, conf, login, cookies>>
    BY <1>3 DEF Administer
  <2>4. \A u \in Users : Copies(u)' \subseteq Copies(u) \cup {account'[u]}
    BY <2>3 DEF Copies
  <2>5. CopiesAgree(a)'
    <3>1. CASE DeleteSiteUser(a)
      BY <3>1, <2>4, ChangedIsHarmless DEF DeleteSiteUser, GateInv, GateTypeOK, Accounts
    <3>2. CASE ~ DeleteSiteUser(a)
      <4>1. account[a].gen \in Nat /\ account'[a].gen = account[a].gen + 1
        BY <2>1, <3>2 DEF CreateSiteUser, SetSiteUserPassword, RevokeSiteUserSessions, NoRow,
                          GateInv, GateTypeOK, Accounts
      <4>2. a \notin deleted /\ deleted' = deleted
        BY <2>1, <3>2 DEF CreateSiteUser, SetSiteUserPassword, RevokeSiteUserSessions, NoRow,
                          GateInv
      <4>3. \A r \in Copies(a) : r.gen \in Int
        BY CopiesType DEF GateInv
      <4> QED BY <2>4, <4>1, <4>2, <4>3, ChangedIsHarmless DEF GateInv
    <3> QED BY <3>1, <3>2
  <2>6. ASSUME NEW u \in Users \ {a} PROVE CopiesAgree(u)'
    <3>1. Copies(u)' = Copies(u)
      BY <2>2, <2>3 DEF Copies
    <3>2. u \in deleted' <=> u \in deleted
      BY <2>1 DEF CreateSiteUser, SetSiteUserPassword, RevokeSiteUserSessions, DeleteSiteUser
    <3> QED BY <2>2, <3>1, <3>2 DEF CopiesAgree, GateInv
  <2>7. \A u \in deleted' : account'[u] = NoRow
    BY <2>1, <2>2 DEF CreateSiteUser, SetSiteUserPassword, RevokeSiteUserSessions,
       DeleteSiteUser, GateInv, GateTypeOK, Accounts, NoRow
  <2> QED BY <1>1, <2>5, <2>6, <2>7 DEF GateInv
<1> QED BY <1>2, <1>3
        DEF GateNext, allGateVars, gateVars, SiteGenerations, PublishGenerations, Restart, Load,
            LoginStep, Serve, AuthenticateSiteUser, WrongPassword, SignSession, Expire

\* The invariant holds at the start: no account, no session.
LEMMA GateInitially == GateInit => GateInv
<1> SUFFICES ASSUME GateInit PROVE GateInv
  OBVIOUS
<1>1. GateTypeOK
  BY GuardAssumption, GateAssumption
     DEF GateInit, GuardInit, GateTypeOK, Accounts, Rows, NoRecord, Records
<1>2. ASSUME NEW u \in Users, NEW r \in Copies(u) PROVE ~ (r.gen > 0)
  BY <1>2 DEF GateInit, Copies, NoRow, Unread, Free
<1> QED BY <1>1, <1>2 DEF GateInit, GateInv, CopiesAgree

-----------------------------------------------------------------------------
(* The theorems. *)

\* A session passes only with the password the worker's configuration knows the account by,
\* for any number of accounts, workers and sign-ins at once (auth.lua verify, siteusers.go
\* SetSiteUserPassword).
THEOREM OldPasswordsEnd == GateSpec => []OldPasswordShutOut
<1>1. GateInit => GateInv
  BY GateInitially
<1>2. GateInv /\ [GateNext]_allGateVars => GateInv'
  BY GateStep
<1>3. GateInv => OldPasswordShutOut
  <2> SUFFICES ASSUME GateInv, NEW w \in Workers, NEW c \in cookies,
                      Verify(w, SiteOf[c.user], c)
               PROVE  c.pw = conf[w][c.user].pw
    BY DEF OldPasswordShutOut
  <2>1. c.user \in Users /\ c.gen > 0
    BY GateAssumption DEF GateInv, GateTypeOK, Sessions
  <2>2. conf[w][c.user] \in Copies(c.user) /\ [gen |-> c.gen, pw |-> c.pw] \in Copies(c.user)
    BY <2>1 DEF Copies
  <2> QED BY <2>1, <2>2 DEF GateInv, CopiesAgree, Verify
<1> QED BY <1>1, <1>2, <1>3, PTL DEF GateSpec

\* The state of the gate keeps its types, for all sites, accounts and thresholds (sitelogin.go,
\* siteusers.go, auth.go loginGuard).
THEOREM GateTypeCorrect == GateSpec => []GateTypeOK
<1>1. GateInit => GateTypeOK
  BY GateInitially DEF GateInv
<1>2. GateTypeOK /\ [GateNext]_allGateVars => GateTypeOK'
  BY GateTypeStep
<1> QED BY <1>1, <1>2, PTL DEF GateSpec

-----------------------------------------------------------------------------
\* A guard that knows no more keys than before is as bounded as before.
LEMMA FewerKnown ==
    ASSUME GuardBounded, Known' \subseteq Known
    PROVE  GuardBounded'
<1>1. IsFiniteSet(Known)
  BY GuardAssumption, FS_Subset DEF Known
<1>2. Cardinality(Known') <= Cardinality(Known) /\ Cardinality(Known) \in Nat
      /\ Cardinality(Known') \in Nat
  BY <1>1, FS_Subset, FS_CardinalityType
<1> QED BY <1>2, GuardAssumption DEF GuardBounded

\* fail() makes room before it adds a record (auth.go).
LEMMA FailBounded ==
    ASSUME guard \in [Keys -> Records], GuardBounded, NEW k \in Keys, Fail(k)
    PROVE  GuardBounded'
<1>1. IsFiniteSet(Known) /\ Cardinality(Known) \in Nat
  BY GuardAssumption, FS_Subset, FS_CardinalityType DEF Known
<1>2. CASE k \in Known
  <2>1. Known' \subseteq Known
    BY <1>2 DEF Fail, Known
  <2> QED BY <2>1, FewerKnown
<1>3. CASE k \notin Known /\ Cardinality(Known) < MaxRecords
  <2>1. Known' \subseteq Known \cup {k}
    BY <1>3 DEF Fail, Known
  <2>2. IsFiniteSet(Known \cup {k}) /\ Cardinality(Known \cup {k}) = Cardinality(Known) + 1
    BY <1>1, <1>3, FS_AddElement
  <2>3. Cardinality(Known') <= Cardinality(Known) + 1 /\ Cardinality(Known') \in Nat
    BY <2>1, <2>2, FS_Subset, FS_CardinalityType
  <2> QED BY <1>1, <1>3, <2>3, GuardAssumption DEF GuardBounded
<1>4. CASE k \notin Known /\ ~ (Cardinality(Known) < MaxRecords)
  <2>1. PICK victim \in Known : Known' \subseteq (Known \ {victim}) \cup {k}
    <3>1. PICK victim \in Keys : /\ EvictOldest(victim)
             /\ guard' = [guard EXCEPT ![victim] = NoRecord, ![k] = Counted(NoRecord)]
      BY <1>4 DEF Fail
    <3> QED BY <3>1 DEF EvictOldest, Known
  <2>2. IsFiniteSet(Known \ {victim})
        /\ Cardinality(Known \ {victim}) = Cardinality(Known) - 1
    BY <1>1, FS_RemoveElement
  <2>3. IsFiniteSet((Known \ {victim}) \cup {k})
        /\ Cardinality((Known \ {victim}) \cup {k}) = Cardinality(Known)
    <3>1. k \notin Known \ {victim}
      BY <1>4
    <3>2. IsFiniteSet((Known \ {victim}) \cup {k})
          /\ Cardinality((Known \ {victim}) \cup {k}) = Cardinality(Known \ {victim}) + 1
      BY <2>2, <3>1, FS_AddElement
    <3> QED BY <1>1, <2>2, <3>2
  <2>4. Cardinality(Known') <= Cardinality(Known)
    BY <2>1, <2>3, FS_Subset
  <2>5. Cardinality(Known') \in Nat
    BY <2>1, <2>3, FS_Subset, FS_CardinalityType
  <2> QED BY <1>1, <2>4, <2>5, GuardAssumption DEF GuardBounded
<1> QED BY <1>2, <1>3, <1>4

\* The guard never outgrows its ceiling, whoever signs in and however often (auth.go fail,
\* evictOldestLocked).
THEOREM GuardStaysBounded == GateSpec => []GuardBounded
<1> DEFINE Inv == GateTypeOK /\ GuardBounded
<1>1. GateInit => Inv
  <2> SUFFICES ASSUME GateInit PROVE Inv
    OBVIOUS
  <2>1. GateTypeOK
    BY GateInitially DEF GateInv
  <2>2. Known = {}
    BY DEF GateInit, GuardInit, Known
  <2> QED BY <2>1, <2>2, FS_EmptySet, GuardAssumption DEF GuardBounded
<1>2. Inv /\ [GateNext]_allGateVars => Inv'
  <2> SUFFICES ASSUME Inv, [GateNext]_allGateVars PROVE GuardBounded'
    BY GateTypeStep
  <2>1. ASSUME NEW l \in Logins, WrongPassword(l) PROVE GuardBounded'
    BY <2>1, KeyOfType, FailBounded DEF WrongPassword, Free, GateTypeOK
  <2>2. CASE \A l \in Logins : ~ WrongPassword(l)
    <3>1. \/ UNCHANGED guard
          \/ \E l \in Logins : Success(KeyOf(l))
          \/ Reap \/ GuardTick
          \/ guard' = [k \in Keys |-> NoRecord]
      BY <2>2 DEF GateNext, allGateVars, Administer, SiteGenerations, PublishGenerations,
         Restart, Load, LoginStep, Serve, AuthenticateSiteUser, SignSession, Expire
    <3>2. Known' \subseteq Known
      BY <3>1 DEF Known, Success, Reap, GuardTick, GateTypeOK
    <3> QED BY <3>2, FewerKnown
  <2> QED BY <2>1, <2>2
<1> QED BY <1>1, <1>2, PTL DEF GateSpec

-----------------------------------------------------------------------------
(* Sessions that have ended: EndedInv. *)

\* What Rises says of four generations, written out.
LEMMA RisesMeans ==
    ASSUME NEW a \in Nat, NEW b \in Nat, NEW c \in Nat, NEW d \in Nat
    PROVE  Rises(<<a, b, c, d>>) <=>
              /\ a > 0 => /\ b = 0 \/ b >= a
                          /\ c = 0 \/ c >= a
                          /\ d = 0 \/ d >= a
                          /\ b = 0 => c = 0 /\ d = 0
                          /\ c = 0 => d = 0
              /\ b > 0 => /\ c = 0 \/ c >= b
                          /\ d = 0 \/ d >= b
                          /\ c = 0 => d = 0
              /\ c > 0 => d = 0 \/ d >= c
<1> DEFINE way == <<a, b, c, d>>
<1>1. way[1] = a /\ way[2] = b /\ way[3] = c /\ way[4] = d
  OBVIOUS
<1>2. 1..4 = {1, 2, 3, 4} /\ 2..4 = {2, 3, 4} /\ 3..4 = {3, 4} /\ 4..4 = {4}
  OBVIOUS
<1> HIDE DEF way
<1>3. Rises(way) <=>
        \A i, j \in {1, 2, 3, 4} :
            i < j /\ way[i] > 0 =>
                /\ way[j] = 0 \/ way[j] >= way[i]
                /\ way[j] = 0 => \A k \in j..4 : way[k] = 0
  BY <1>2 DEF Rises
<1>4. Rises(way) <=>
        /\ way[1] > 0 => /\ way[2] = 0 \/ way[2] >= way[1]
                         /\ way[3] = 0 \/ way[3] >= way[1]
                         /\ way[4] = 0 \/ way[4] >= way[1]
                         /\ way[2] = 0 => way[3] = 0 /\ way[4] = 0
                         /\ way[3] = 0 => way[4] = 0
        /\ way[2] > 0 => /\ way[3] = 0 \/ way[3] >= way[2]
                         /\ way[4] = 0 \/ way[4] >= way[2]
                         /\ way[3] = 0 => way[4] = 0
        /\ way[3] > 0 => way[4] = 0 \/ way[4] >= way[3]
  BY <1>2, <1>3
<1> QED BY <1>1, <1>4 DEF way

\* A step of the generations towards the worker leaves them in order.
LEMMA StepsRise ==
    ASSUME NEW a \in Nat, NEW b \in Nat, NEW c \in Nat, NEW d \in Nat, Rises(<<a, b, c, d>>)
    PROVE  /\ Rises(<<b, b, c, d>>) /\ Rises(<<a, c, d, d>>) /\ Rises(<<a, b, d, d>>)
           /\ Rises(<<a, b, c, 0>>) /\ Rises(<<a, b, 0, 0>>)
           /\ d > 0 => Rises(<<a, b, c, d + 1>>) /\ Rises(<<a, b, d + 1, d + 1>>)
BY RisesMeans

\* Generations are numbers wherever they are on the way.
LEMMA WayType ==
    ASSUME GateTypeOK, NEW w \in Workers, NEW u \in Users
    PROVE  /\ conf[w][u].gen \in Nat /\ published[u].gen \in Nat
           /\ ToPublish(u).gen \in Nat /\ account[u].gen \in Nat
<1>1. \A r \in Rows : r.gen \in Nat
  BY GateAssumption DEF Rows, NoRow
<1>2. conf[w][u] \in Rows /\ published[u] \in Rows /\ account[u] \in Rows
  BY DEF GateTypeOK, Accounts
<1>3. ToPublish(u) \in Rows
  BY <1>2 DEF GateTypeOK, Accounts, ToPublish
<1> QED BY <1>1, <1>2, <1>3

\* A publish that has read the table has read every account.
LEMMA ReadIsKnown ==
    ASSUME GateTypeOK, NEW u \in Users
    PROVE  account # Unread
<1>1. account[u] \in Rows /\ \A r \in Rows : r.gen # -1
  BY GateAssumption DEF GateTypeOK, Accounts, Rows, NoRow
<1> QED BY <1>1 DEF Unread

\* What a step can do to the generations on the way to a worker.
LEMMA WaySteps ==
    ASSUME GateInv, [GateNext]_allGateVars, NEW w \in Workers, NEW u \in Users,
           NEW a, NEW b, NEW c, NEW d, Way(w, u) = <<a, b, c, d>>
    PROVE  \/ Way(w, u)' \in {<<a, b, c, d>>, <<b, b, c, d>>, <<a, c, d, d>>, <<a, b, d, d>>,
                              <<a, b, c, 0>>, <<a, b, 0, 0>>}
           \/ /\ u \notin deleted
              /\ Way(w, u)' \in {<<a, b, c, d + 1>>, <<a, b, d + 1, d + 1>>}
<1>0. /\ a = conf[w][u].gen /\ b = published[u].gen
      /\ c = ToPublish(u).gen /\ d = account[u].gen
  BY DEF Way
<1>1. CASE UNCHANGED <<account, deleted, snapshot, published, conf>>
  BY <1>0, <1>1 DEF Way, ToPublish
<1>2. CASE SiteGenerations
  BY <1>0, <1>2, ReadIsKnown DEF SiteGenerations, Way, ToPublish, GateInv
<1>3. CASE PublishGenerations
  BY <1>0, <1>3 DEF PublishGenerations, Way, ToPublish
<1>4. CASE Restart
  BY <1>0, <1>4 DEF Restart, Way, ToPublish
<1>5. CASE \E v \in Workers : Load(v)
  BY <1>0, <1>5 DEF Load, Way, ToPublish, GateInv, GateTypeOK
<1>6. CASE Administer
  <2>1. PICK v \in Users : \/ CreateSiteUser(v) \/ SetSiteUserPassword(v)
                           \/ RevokeSiteUserSessions(v) \/ DeleteSiteUser(v)
    BY <1>6 DEF Administer
  <2>2. UNCHANGED <<snapshot, published, conf>>
    BY <1>6 DEF Administer
  <2>3. CASE u # v
    <3>1. account'[u] = account[u]
      BY <2>1, <2>3 DEF CreateSiteUser, SetSiteUserPassword, RevokeSiteUserSessions,
                        DeleteSiteUser, GateInv, GateTypeOK, Accounts
    <3> QED BY <1>0, <2>2, <3>1 DEF Way, ToPublish
  <2>4. CASE u = v /\ DeleteSiteUser(v)
    <3>1. account'[u].gen = 0
      BY <2>4 DEF DeleteSiteUser, GateInv, GateTypeOK, Accounts, NoRow
    <3> QED BY <1>0, <2>2, <3>1 DEF Way, ToPublish
  <2>5. CASE u = v /\ ~ DeleteSiteUser(v)
    <3>1. u \notin deleted /\ account'[u].gen = account[u].gen + 1
      BY <2>1, <2>5 DEF CreateSiteUser, SetSiteUserPassword, RevokeSiteUserSessions,
                        GateInv, GateTypeOK, Accounts, NoRow
    <3> QED BY <1>0, <2>2, <3>1 DEF Way, ToPublish
  <2> QED BY <2>3, <2>4, <2>5
<1> QED BY <1>1, <1>2, <1>3, <1>4, <1>5, <1>6
        DEF GateNext, allGateVars, gateVars, LoginStep, Serve, AuthenticateSiteUser,
            WrongPassword, SignSession, Expire

\* Before an account is created nothing on the way knows it, and no session is of it.
LEMMA UnknownBefore ==
    ASSUME GateInv, NEW w \in Workers, NEW u \in Users, u \notin deleted, account[u].gen = 0
    PROVE  /\ conf[w][u].gen = 0 /\ published[u].gen = 0 /\ ToPublish(u).gen = 0
           /\ \A s \in cookies : s.user # u
<1>1. \A r \in Copies(u) : ~ (r.gen > 0)
  <2> TAKE r \in Copies(u)
  <2>1. r.gen \in Int
    BY CopiesType DEF GateInv
  <2> QED BY <2>1 DEF GateInv, CopiesAgree
<1>2. {conf[w][u], published[u], account[u], snapshot[u]} \subseteq Copies(u)
  BY DEF Copies
<1>3. ToPublish(u) \in Copies(u)
  BY <1>2 DEF ToPublish
<1>4. conf[w][u].gen = 0 /\ published[u].gen = 0 /\ ToPublish(u).gen = 0
  BY <1>1, <1>2, <1>3, WayType DEF GateInv
<1>5. ASSUME NEW s \in cookies, s.user = u PROVE FALSE
  <2>1. [gen |-> s.gen, pw |-> s.pw] \in Copies(u)
    BY <1>5 DEF Copies
  <2>2. s.gen > 0
    BY GateAssumption DEF GateInv, GateTypeOK, Sessions
  <2> QED BY <1>1, <2>1, <2>2
<1> QED BY <1>4, <1>5

\* The generations on the way to a worker stay in order.
LEMMA RisesStep ==
    ASSUME EndedInv, [GateNext]_allGateVars, NEW w \in Workers, NEW u \in Users
    PROVE  Rises(Way(w, u))'
<1> DEFINE a == conf[w][u].gen
           b == published[u].gen
           c == ToPublish(u).gen
           d == account[u].gen
<1>1. a \in Nat /\ b \in Nat /\ c \in Nat /\ d \in Nat
  BY WayType DEF EndedInv, GateInv
<1>2. Way(w, u) = <<a, b, c, d>> /\ Rises(<<a, b, c, d>>)
  BY DEF Way, EndedInv
<1>3. u \notin deleted /\ d = 0 => a = 0 /\ b = 0 /\ c = 0
  BY UnknownBefore DEF EndedInv
<1>4. \/ Way(w, u)' \in {<<a, b, c, d>>, <<b, b, c, d>>, <<a, c, d, d>>, <<a, b, d, d>>,
                         <<a, b, c, 0>>, <<a, b, 0, 0>>}
      \/ /\ u \notin deleted
         /\ Way(w, u)' \in {<<a, b, c, d + 1>>, <<a, b, d + 1, d + 1>>}
  BY <1>2, WaySteps DEF EndedInv
<1> HIDE DEF a, b, c, d
<1>5. Rises(<<0, 0, 0, 1>>) /\ Rises(<<0, 0, 1, 1>>)
  BY RisesMeans
<1>6. /\ Rises(<<b, b, c, d>>) /\ Rises(<<a, c, d, d>>) /\ Rises(<<a, b, d, d>>)
      /\ Rises(<<a, b, c, 0>>) /\ Rises(<<a, b, 0, 0>>)
      /\ d > 0 => Rises(<<a, b, c, d + 1>>) /\ Rises(<<a, b, d + 1, d + 1>>)
  BY <1>1, <1>2, StepsRise
<1>7. u \notin deleted => Rises(<<a, b, c, d + 1>>) /\ Rises(<<a, b, d + 1, d + 1>>)
  <2>1. CASE d > 0
    BY <1>6, <2>1
  <2>2. CASE u \notin deleted /\ d = 0
    <3>1. a = 0 /\ b = 0 /\ c = 0 /\ d + 1 = 1
      BY <1>3, <2>2
    <3> QED BY <1>5, <3>1
  <2> QED BY <1>1, <2>1, <2>2
<1>8. \A way \in {<<a, b, c, d>>, <<b, b, c, d>>, <<a, c, d, d>>, <<a, b, d, d>>,
                  <<a, b, c, 0>>, <<a, b, 0, 0>>} : Rises(way)
  BY <1>2, <1>6
<1>9. Rises(Way(w, u)')
  BY <1>4, <1>7, <1>8
<1> QED BY <1>9 DEF Rises

\* What Past says of four generations, written out.
LEMMA PastMeans ==
    ASSUME NEW w \in Workers, NEW s
    PROVE  Past(w, s) <=>
              /\ conf[w][s.user].gen = 0 \/ conf[w][s.user].gen > s.gen
              /\ published[s.user].gen = 0 \/ published[s.user].gen > s.gen
              /\ ToPublish(s.user).gen = 0 \/ ToPublish(s.user).gen > s.gen
              /\ account[s.user].gen = 0 \/ account[s.user].gen > s.gen
<1>1. 1..4 = {1, 2, 3, 4}
  OBVIOUS
<1> QED BY <1>1 DEF Past, Way

\* A session that a step ends, or that had ended before, is past.
LEMMA PastStep ==
    ASSUME EndedInv, [GateNext]_allGateVars, NEW w \in Workers, NEW s \in cookies,
           Past(w, s) \/ (Accepts(w, s) /\ ~ Accepts(w, s)')
    PROVE  Past(w, s)'
<1> DEFINE u == s.user
           a == conf[w][u].gen
           b == published[u].gen
           c == ToPublish(u).gen
           d == account[u].gen
<1>0. u \in Users /\ s.gen \in Nat /\ s.gen > 0
  BY GateAssumption DEF EndedInv, GateInv, GateTypeOK, Sessions
<1>1. a \in Nat /\ b \in Nat /\ c \in Nat /\ d \in Nat
  BY <1>0, WayType DEF EndedInv, GateInv
<1>2. Way(w, u) = <<a, b, c, d>> /\ Rises(<<a, b, c, d>>)
  BY <1>0 DEF Way, EndedInv
<1>3. u \notin deleted => d > 0
  BY <1>0, <1>1, UnknownBefore DEF EndedInv
<1>4. \/ Way(w, u)' \in {<<a, b, c, d>>, <<b, b, c, d>>, <<a, c, d, d>>, <<a, b, d, d>>,
                         <<a, b, c, 0>>, <<a, b, 0, 0>>}
      \/ /\ u \notin deleted
         /\ Way(w, u)' \in {<<a, b, c, d + 1>>, <<a, b, d + 1, d + 1>>}
  BY <1>0, <1>2, WaySteps DEF EndedInv
<1>5. Way(w, u)' = <<a', b', c', d'>>
  BY DEF Way
<1>6. Past(w, s) => /\ a = 0 \/ a > s.gen
                    /\ b = 0 \/ b > s.gen
                    /\ c = 0 \/ c > s.gen
                    /\ d = 0 \/ d > s.gen
  BY PastMeans
<1>7. Accepts(w, s) <=> a = s.gen
  BY DEF Accepts, Verify
<1>8. Accepts(w, s)' <=> a' = s.gen
  BY DEF Accepts, Verify
<1>9. Past(w, s)' <=> /\ a' = 0 \/ a' > s.gen
                      /\ b' = 0 \/ b' > s.gen
                      /\ c' = 0 \/ c' > s.gen
                      /\ d' = 0 \/ d' > s.gen
  <2>1. 1..4 = {1, 2, 3, 4}
    OBVIOUS
  <2> QED BY <2>1 DEF Past, Way
<1>10. \/ /\ a' = a /\ b' \in {b, c} /\ c' \in {c, d, 0} /\ d' \in {d, 0}
       \/ a' = b /\ b' = b /\ c' = c /\ d' = d
       \/ d > 0 /\ a' = a /\ b' = b /\ c' \in {c, d + 1} /\ d' = d + 1
  <2> HIDE DEF a, b, c, d, u
  <2> QED BY <1>3, <1>4, <1>5
<1> HIDE DEF a, b, c, d, u
<1>11. CASE Past(w, s)
  BY <1>0, <1>1, <1>6, <1>9, <1>10, <1>11
<1>12. CASE Accepts(w, s) /\ ~ Accepts(w, s)'
  <2>1. a = s.gen /\ b # s.gen /\ a' = b /\ b' = b /\ c' = c /\ d' = d
    BY <1>7, <1>8, <1>10, <1>12
  <2>2. /\ b = 0 \/ b >= a
        /\ c = 0 \/ c >= a
        /\ d = 0 \/ d >= a
        /\ b = 0 => c = 0 /\ d = 0
        /\ b > 0 => (c = 0 \/ c >= b) /\ (d = 0 \/ d >= b)
    BY <1>0, <1>1, <1>2, <2>1, RisesMeans
  <2> QED BY <1>0, <1>1, <1>9, <2>1, <2>2
<1> QED BY <1>11, <1>12

\* Every step keeps the inductive invariant.
LEMMA EndedStep ==
    ASSUME EndedInv, [GateNext /\ Remember]_historyVars
    PROVE  EndedInv'
<1>1. [GateNext]_allGateVars
  BY DEF historyVars
<1>2. GateInv'
  BY <1>1, GateStep DEF EndedInv
<1>3. \A w \in Workers, u \in Users : Rises(Way(w, u))'
  BY <1>1, RisesStep
<1>4. CASE Remember
  <2>1. ended' \subseteq Workers \X cookies'
    BY <1>4 DEF Remember
  <2>2. ASSUME NEW p \in ended' PROVE Past(p[1], p[2])'
    <3>1. p[1] \in Workers /\ p[2] \in cookies
      BY <1>4 DEF Remember, EndedInv
    <3>2. Past(p[1], p[2]) \/ (Accepts(p[1], p[2]) /\ ~ Accepts(p[1], p[2])')
      BY <1>4 DEF Remember, EndedInv
    <3> QED BY <1>1, <3>1, <3>2, PastStep
  <2> QED BY <1>2, <1>3, <2>1, <2>2 DEF EndedInv
<1>5. CASE UNCHANGED historyVars
  <2>1. UNCHANGED <<account, snapshot, published, conf, cookies, ended>>
    BY <1>5 DEF historyVars, allGateVars, gateVars
  <2>2. \A p \in ended : Past(p[1], p[2])' = Past(p[1], p[2])
    BY <2>1 DEF Past, Way, ToPublish
  <2> QED BY <1>2, <1>3, <2>1, <2>2 DEF EndedInv
<1> QED BY <1>4, <1>5

\* A session a worker has refused is refused there for good, for any number of accounts, workers
\* and publishes in any order (auth.lua verify, siteusers.go SiteGenerations).
THEOREM EndedForGood == HistorySpec => []EndedStaysEnded
<1>1. HistoryInit => EndedInv
  <2> SUFFICES ASSUME HistoryInit PROVE EndedInv
    OBVIOUS
  <2>1. GateInv
    BY GateInitially DEF HistoryInit
  <2>2. ASSUME NEW w \in Workers, NEW u \in Users PROVE Rises(Way(w, u))
    <3>1. Way(w, u) = <<0, 0, 0, 0>>
      BY DEF HistoryInit, GateInit, Way, ToPublish, NoRow
    <3> QED BY <3>1, RisesMeans
  <2> QED BY <2>1, <2>2 DEF HistoryInit, EndedInv
<1>2. EndedInv /\ [GateNext /\ Remember]_historyVars => EndedInv'
  BY EndedStep
<1>3. EndedInv => EndedStaysEnded
  <2> SUFFICES ASSUME EndedInv, NEW p \in ended PROVE ~ Accepts(p[1], p[2])
    BY DEF EndedStaysEnded
  <2>1. p[1] \in Workers /\ p[2] \in cookies /\ Past(p[1], p[2])
    BY DEF EndedInv
  <2>2. p[2].gen \in Nat /\ p[2].gen > 0
    BY <2>1, GateAssumption DEF EndedInv, GateInv, GateTypeOK, Sessions
  <2> QED BY <2>1, <2>2, PastMeans DEF Accepts, Verify
<1> QED BY <1>1, <1>2, <1>3, PTL DEF HistorySpec

-----------------------------------------------------------------------------
(* Sign-ins under a lock: LateInv. *)

\* Sign-ins under way are counted as a set; the key of one that has not changed has not either.
LEMMA FewerBusy ==
    ASSUME NEW k \in Keys, NEW n \in Nat,
           n + Cardinality({l \in Logins : login[l] # Free /\ KeyOf(l) = k}) < Cardinality(Logins),
           \A l \in Logins :
              \/ login'[l] = Free
              \/ /\ login[l] # Free
                 /\ login'[l].user = login[l].user /\ login'[l].address = login[l].address
              \/ <<SiteOf[login'[l].user], login'[l].address>> # k
    PROVE  /\ n + Cardinality({l \in Logins : login[l] # Free /\ KeyOf(l) = k})' < Cardinality(Logins)
           /\ \A l \in Logins : login[l] # Free /\ KeyOf(l) = k /\ login'[l] = Free =>
                n + 1 + Cardinality({j \in Logins : login[j] # Free /\ KeyOf(j) = k})'
                    < Cardinality(Logins)
<1> DEFINE Busy == {l \in Logins : login[l] # Free /\ KeyOf(l) = k}
<1>1. IsFiniteSet(Logins) /\ IsFiniteSet(Busy) /\ Cardinality(Logins) \in Nat
  BY GateAssumption, FS_Subset, FS_CardinalityType
<1>2. Busy' \subseteq Busy
  BY DEF KeyOf
<1>3. Cardinality(Busy) \in Nat /\ Cardinality(Busy') \in Nat
      /\ Cardinality(Busy') <= Cardinality(Busy)
  BY <1>1, <1>2, FS_Subset, FS_CardinalityType
<1>4. ASSUME NEW l \in Logins, login[l] # Free /\ KeyOf(l) = k /\ login'[l] = Free
      PROVE  Cardinality(Busy') <= Cardinality(Busy) - 1
  <2>1. Busy' \subseteq Busy \ {l}
    BY <1>2, <1>4
  <2>2. IsFiniteSet(Busy \ {l}) /\ Cardinality(Busy \ {l}) = Cardinality(Busy) - 1
    BY <1>1, <1>4, FS_RemoveElement
  <2> QED BY <2>1, <2>2, FS_Subset
<1> HIDE DEF Busy
<1>5. n + Cardinality(Busy) < Cardinality(Logins)
  BY DEF Busy
<1>6. n + Cardinality(Busy') < Cardinality(Logins)
  BY <1>1, <1>3, <1>5
<1>7. \A l \in Logins : login[l] # Free /\ KeyOf(l) = k /\ login'[l] = Free =>
         n + 1 + Cardinality(Busy') < Cardinality(Logins)
  BY <1>1, <1>3, <1>4, <1>5
<1> QED BY <1>6, <1>7 DEF Busy

\* A request that has just ended leaves room for one.
LEMMA RoomForOne ==
    ASSUME NEW k \in Keys, NEW j \in Logins, login'[j] = Free
    PROVE  Cardinality({l \in Logins : login[l] # Free /\ KeyOf(l) = k})' < Cardinality(Logins)
<1> DEFINE Busy == {l \in Logins : login[l] # Free /\ KeyOf(l) = k}
<1>1. IsFiniteSet(Logins) /\ Cardinality(Logins) \in Nat
  BY GateAssumption, FS_CardinalityType
<1>2. IsFiniteSet(Logins \ {j}) /\ Cardinality(Logins \ {j}) = Cardinality(Logins) - 1
  BY <1>1, FS_RemoveElement
<1>3. Busy' \subseteq Logins \ {j}
  OBVIOUS
<1>4. Cardinality(Busy') <= Cardinality(Logins) - 1 /\ Cardinality(Busy') \in Nat
  BY <1>2, <1>3, FS_Subset, FS_CardinalityType
<1> QED BY <1>1, <1>4

\* Only a wrong password locks a key.
LEMMA LockedByFailure ==
    ASSUME GateTypeOK, [GateNext]_allGateVars, NEW k \in Keys,
           ~ (guard[k].lock > 0), guard'[k].lock > 0
    PROVE  CountedFor(k)
<1>1. guard[k] \in Records /\ guard[k].lock \in Nat
  BY GuardAssumption DEF GateTypeOK, Records
<1>2. ~ UNCHANGED guard /\ guard'[k] # NoRecord
  BY DEF NoRecord
<1>3. ASSUME NEW l \in Logins, LoginStep(l) PROVE CountedFor(k)
  <2>1. CASE WrongPassword(l)
    <3>1. KeyOf(l) \in Keys
      BY <2>1, KeyOfType DEF WrongPassword, Free
    <3>2. KeyOf(l) # k => guard'[k] \in {guard[k], NoRecord}
      BY <2>1, <3>1 DEF WrongPassword, Fail, GateTypeOK
    <3>3. KeyOf(l) = k
      BY <3>2 DEF NoRecord
    <3> QED BY <2>1, <3>3 DEF CountedFor
  <2>2. CASE SignSession(l)
    <3>1. guard'[k] \in {guard[k], NoRecord}
      BY <2>2 DEF SignSession, Success, GateTypeOK
    <3> QED BY <3>1 DEF NoRecord
  <2> QED BY <1>2, <1>3, <2>1, <2>2 DEF LoginStep, Serve, AuthenticateSiteUser
<1>4. ~ Restart
  BY <1>2 DEF Restart
<1>5. ~ (Reap \/ GuardTick)
  <2>1. ~ Reap
    BY <1>2 DEF Reap
  <2>2. ~ GuardTick
    BY <1>1, <1>2 DEF GuardTick, Older
  <2> QED BY <2>1, <2>2
<1> QED BY <1>2, <1>3, <1>4, <1>5
        DEF GateNext, allGateVars, Administer, SiteGenerations, PublishGenerations, Load, Expire

\* No sign-in begins for a key that is locked, and none changes its key.
LEMMA NobodyServed ==
    ASSUME NEW k \in Keys, NEW l \in Logins,
           GateTypeOK, [GateNext]_allGateVars, guard[k].lock > 0
    PROVE  \/ login'[l] = Free
           \/ /\ login[l] # Free
              /\ login'[l].user = login[l].user /\ login'[l].address = login[l].address
           \/ <<SiteOf[login'[l].user], login'[l].address>> # k
<1>1. CASE login'[l] = login[l]
  BY <1>1
<1>2. CASE Restart
  BY <1>2 DEF Restart
<1>3. ASSUME NEW j \in Logins, LoginStep(j), login'[l] # login[l]
      PROVE  \/ login'[l] = Free
             \/ /\ login[l] # Free
                /\ login'[l].user = login[l].user /\ login'[l].address = login[l].address
             \/ <<SiteOf[login'[l].user], login'[l].address>> # k
  <2>1. j = l
    BY <1>3 DEF LoginStep, Serve, AuthenticateSiteUser, WrongPassword, SignSession, GateTypeOK
  <2>2. CASE WrongPassword(l) \/ SignSession(l)
    BY <2>2 DEF WrongPassword, SignSession, GateTypeOK
  <2>3. CASE AuthenticateSiteUser(l)
    BY <2>3 DEF AuthenticateSiteUser, GateTypeOK, LoginStates, Free
  <2>4. ASSUME NEW w \in Workers, NEW u \in Users, NEW address \in Addresses,
               NEW pw \in 0..MaxGen, Serve(l, w, u, address, pw)
        PROVE  <<SiteOf[login'[l].user], login'[l].address>> # k
    <3>1. <<SiteOf[u], address>> # k
      BY <2>4 DEF Serve, Blocked
    <3>2. login'[l].user = u /\ login'[l].address = address
      BY <2>4 DEF Serve, GateTypeOK
    <3> QED BY <3>1, <3>2 DEF KeyOf
  <2> QED BY <1>3, <2>1, <2>2, <2>3, <2>4 DEF LoginStep
<1> QED BY <1>1, <1>2, <1>3
        DEF GateNext, allGateVars, gateVars, Administer, SiteGenerations, PublishGenerations,
            Load, Expire

\* Every step keeps the inductive invariant.
LEMMA LateStep ==
    ASSUME LateInv, [GateNext /\ Remember]_historyVars
    PROVE  LateInv'
<1>1. [GateNext]_allGateVars
  BY DEF historyVars
<1>2. GateTypeOK'
  BY <1>1, GateTypeStep DEF LateInv
<1>3. ASSUME NEW k \in Keys, guard[k].lock > 0, NEW n \in Nat,
             n + Cardinality({l \in Logins : login[l] # Free /\ KeyOf(l) = k})
                < Cardinality(Logins)
      PROVE  /\ n + Cardinality({l \in Logins : login[l] # Free /\ KeyOf(l) = k})'
                  < Cardinality(Logins)
             /\ \A l \in Logins : login[l] # Free /\ KeyOf(l) = k /\ login'[l] = Free =>
                  n + 1 + Cardinality({j \in Logins : login[j] # Free /\ KeyOf(j) = k})'
                      < Cardinality(Logins)
  <2>1. GateTypeOK
    BY DEF LateInv
  <2>2. \A l \in Logins :
           \/ login'[l] = Free
           \/ /\ login[l] # Free
              /\ login'[l].user = login[l].user /\ login'[l].address = login[l].address
           \/ <<SiteOf[login'[l].user], login'[l].address>> # k
    BY <1>1, <1>3, <2>1, NobodyServed
  <2> QED BY <1>3, <2>2, FewerBusy
<1>4. CASE Remember
  <2>1. late' \in [Keys -> Nat]
    BY <1>4 DEF Remember, LateInv
  <2>2. ASSUME NEW k \in Keys, Blocked(k)'
        PROVE  (late[k] + Cardinality({l \in Logins : login[l] # Free /\ KeyOf(l) = k})
                  < Cardinality(Logins))'
    <3>1. guard'[k].lock > 0
      BY <2>2 DEF Blocked
    <3>2. CASE ~ (guard[k].lock > 0)
      <4>1. late'[k] = 0
        <5>1. guard[k].lock = 0
          BY <3>2, GuardAssumption DEF LateInv, GateTypeOK, Records
        <5> QED BY <1>4, <5>1 DEF Remember
      <4>2. PICK j \in Logins : WrongPassword(j)
        BY <1>1, <3>1, <3>2, LockedByFailure DEF LateInv, CountedFor
      <4>3. login'[j] = Free
        BY <4>2 DEF WrongPassword, LateInv, GateTypeOK
      <4>4. Cardinality({l \in Logins : login[l] # Free /\ KeyOf(l) = k})' < Cardinality(Logins)
        BY <4>3, RoomForOne
      <4>5. Cardinality({l \in Logins : login[l] # Free /\ KeyOf(l) = k})' \in Nat
        BY GateAssumption, FS_Subset, FS_CardinalityType
      <4> QED BY <4>1, <4>4, <4>5
    <3>3. CASE guard[k].lock > 0
      <4>1. late[k] \in Nat /\ late[k] + Cardinality({l \in Logins : login[l] # Free /\ KeyOf(l) = k})
                < Cardinality(Logins)
        BY <3>3 DEF LateInv, LockAdmitsNobody, Blocked
      <4> DEFINE Busy == {l \in Logins : login[l] # Free /\ KeyOf(l) = k}
      <4>3. /\ late[k] + Cardinality(Busy)' < Cardinality(Logins)
            /\ \A l \in Logins : login[l] # Free /\ KeyOf(l) = k /\ login'[l] = Free =>
                  late[k] + 1 + Cardinality(Busy)' < Cardinality(Logins)
        BY <3>3, <4>1, <1>3
      <4>4. late'[k] = IF CountedFor(k) THEN late[k] + 1 ELSE late[k]
        <5>1. guard[k].lock # 0 /\ guard'[k].lock # 0
          BY <3>1, <3>3
        <5> QED BY <1>4, <5>1 DEF Remember
      <4>5. CASE CountedFor(k)
        <5>1. PICK l \in Logins : WrongPassword(l) /\ KeyOf(l) = k
          BY <4>5 DEF CountedFor
        <5>2. login[l] # Free /\ login'[l] = Free
          BY <5>1 DEF WrongPassword, LateInv, GateTypeOK, Free
        <5>3. late[k] + 1 + Cardinality(Busy)' < Cardinality(Logins)
          BY <4>3, <5>1, <5>2
        <5> QED BY <4>4, <4>5, <5>3
      <4>6. CASE ~ CountedFor(k)
        BY <4>3, <4>4, <4>6
      <4> QED BY <4>5, <4>6
    <3> QED BY <3>2, <3>3
  <2> QED BY <1>2, <2>1, <2>2 DEF LateInv, LockAdmitsNobody
<1>5. CASE UNCHANGED historyVars
  BY <1>2, <1>5 DEF historyVars, allGateVars, gateVars, LateInv, LockAdmitsNobody, Blocked, KeyOf
<1> QED BY <1>4, <1>5

\* Under a lock no more passwords are tried for a key than were on their way when it began, for
\* any number of sign-ins at once (auth.go blocked and fail, sitelogin.go handleSiteLogin).
THEOREM LocksHold == HistorySpec => []LockAdmitsNobody
<1>1. HistoryInit => LateInv
  <2> SUFFICES ASSUME HistoryInit PROVE LateInv
    OBVIOUS
  <2>1. GateTypeOK
    BY GateInitially DEF HistoryInit, GateInv
  <2>2. \A k \in Keys : ~ Blocked(k)
    BY DEF HistoryInit, GateInit, GuardInit, Blocked, NoRecord
  <2> QED BY <2>1, <2>2 DEF HistoryInit, LateInv, LockAdmitsNobody
<1>2. LateInv /\ [GateNext /\ Remember]_historyVars => LateInv'
  BY LateStep
<1>4. LateInv => LockAdmitsNobody
  BY DEF LateInv
<1> QED BY <1>1, <1>2, <1>4, PTL DEF HistorySpec
=============================================================================
