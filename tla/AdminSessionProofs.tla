------------------------- MODULE AdminSessionProofs -------------------------
(* A change of password ends the sessions of the dashboard, but for those of the last second. *)
EXTENDS AdminSession, TLAPS

\* A token says it was issued no later than it was: the second is rounded down.
AdminInv ==
    /\ now \in Nat /\ changed \in Nat
    /\ \A t \in tokens : t.iat \in Nat /\ t.at \in Nat /\ t.iat * TicksPerSecond <= t.at

LEMMA RoundedDown ==
    ASSUME NEW n \in Nat, NEW d \in Nat \ {0}
    PROVE  n \div d \in Nat /\ (n \div d) * d <= n
OBVIOUS

LEMMA AdminStep ==
    ASSUME TicksPerSecond \in Nat \ {0}, AdminInv, [AdminNext]_<<adminVars, guard>>
    PROVE  AdminInv'
<1>1. ASSUME NEW l \in Logins, IssueToken(l) PROVE AdminInv'
  <2>1. tokens' = tokens \cup {Issued} /\ UNCHANGED <<now, changed>>
    BY <1>1 DEF IssueToken
  <2>2. Issued.iat \in Nat /\ Issued.at \in Nat /\ Issued.iat * TicksPerSecond <= Issued.at
    BY RoundedDown DEF Issued, AdminInv
  <2> QED BY <2>1, <2>2 DEF AdminInv
<1>2. ASSUME NEW l \in Logins, LoginFails(l) \/ Authenticate(l) PROVE AdminInv'
  BY <1>2 DEF LoginFails, Authenticate, AdminInv
<1>3. ASSUME NEW l \in Logins, NEW k \in Keys, NEW pw \in 0..MaxChanges, HandleLogin(l, k, pw)
      PROVE  AdminInv'
  BY <1>3 DEF HandleLogin, AdminInv
<1>4. ASSUME ChangePassword PROVE AdminInv'
  BY <1>4 DEF ChangePassword, AdminInv
<1>5. ASSUME Tick PROVE AdminInv'
  BY <1>5 DEF Tick, AdminInv
<1>6. ASSUME UNCHANGED adminVars PROVE AdminInv'
  BY <1>6 DEF adminVars, AdminInv
<1> QED BY <1>1, <1>2, <1>3, <1>4, <1>5, <1>6 DEF AdminNext

\* requireAuth accepts no token issued more than a second before the last change of password,
\* for any number of sign-ins that overlap the change.
THEOREM ChangeEndsSessions ==
    ASSUME TicksPerSecond \in Nat \ {0} PROVE AdminSpec => []OldSessionsEnd
<1>1. AdminInit => AdminInv
  BY DEF AdminInit, AdminInv
<1>2. AdminInv /\ [AdminNext]_<<adminVars, guard>> => AdminInv'
  BY AdminStep
<1>3. AdminInv => OldSessionsEnd
  <2> SUFFICES ASSUME AdminInv, NEW t \in tokens, Accepted(t)
               PROVE  t.at + TicksPerSecond >= changed
    BY DEF OldSessionsEnd
  <2>1. /\ t.iat * TicksPerSecond \in Nat /\ t.at \in Nat /\ changed \in Nat
        /\ t.iat * TicksPerSecond <= t.at
        /\ t.iat * TicksPerSecond >= changed - TicksPerSecond
    BY DEF AdminInv, Accepted
  <2> QED BY <2>1
<1> QED BY <1>1, <1>2, <1>3, PTL DEF AdminSpec
=============================================================================
