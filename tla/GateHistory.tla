---------------------------- MODULE GateHistory ----------------------------
(* The login gate with two history variables, to say what it promises over time. *)
EXTENDS SiteGate

VARIABLES
    ended,  \* <<w, c>>: worker w has let session c through and then refused it
    late    \* late[k]: wrong passwords counted for k since the lock it is under began

historyVars == <<allGateVars, ended, late>>

Accepts(w, c) == Verify(w, SiteOf[c.user], c)

CountedFor(k) == \E l \in Logins : WrongPassword(l) /\ KeyOf(l) = k

Remember ==
    /\ ended' = {p \in Workers \X cookies' :
                    p \in ended \/ (p[2] \in cookies /\ Accepts(p[1], p[2])
                                     /\ ~ Accepts(p[1], p[2])')}
    /\ late' = [k \in Keys |->
                  IF guard[k].lock = 0 \/ guard'[k].lock = 0 THEN 0
                  ELSE IF CountedFor(k) THEN late[k] + 1 ELSE late[k]]

HistoryInit == GateInit /\ ended = {} /\ late = [k \in Keys |-> 0]
HistorySpec == HistoryInit /\ [][GateNext /\ Remember]_historyVars

\* A session that has ended at a worker, because its generation was raised or its account was
\* deleted, is not let through there again, whatever is changed, published, lost or restarted
\* later (SiteGenerations: "deleting a user revokes instantly").
EndedStaysEnded == \A p \in ended : ~ Accepts(p[1], p[2])

\* While a key is locked, no more passwords are compared for it than were already on their way
\* when the lock began: fewer than the control plane handles at once (handleSiteLogin asks
\* blocked() before a comparison and counts after it).
LockAdmitsNobody ==
    \A k \in Keys :
        Blocked(k) => late[k] + Cardinality({l \in Logins : login[l] # Free /\ KeyOf(l) = k})
                        < Cardinality(Logins)

-----------------------------------------------------------------------------
(* What the two rest on. *)

\* What the next publish to store anything has read or will read of account u.
ToPublish(u) == IF snapshot = Unread THEN account[u] ELSE snapshot[u]

\* The generations of account u on their way from the table to worker w, the newest last.
Way(w, u) == <<conf[w][u].gen, published[u].gen, ToPublish(u).gen, account[u].gen>>

\* On its way a generation only rises until it is 0, for a deleted account, and stays so.
Rises(way) ==
    \A i, j \in 1..4 :
        i < j /\ way[i] > 0 =>
            /\ way[j] = 0 \/ way[j] >= way[i]
            /\ way[j] = 0 => \A k \in j..4 : way[k] = 0

\* Nothing on the way to w is a generation at which session c would pass, now or later.
Past(w, c) == \A i \in 1..4 : Way(w, c.user)[i] = 0 \/ Way(w, c.user)[i] > c.gen

\* The inductive invariant behind EndedStaysEnded.
EndedInv ==
    /\ GateInv
    /\ \A w \in Workers, u \in Users : Rises(Way(w, u))
    /\ ended \subseteq Workers \X cookies
    /\ \A p \in ended : Past(p[1], p[2])

\* And the one behind LockAdmitsNobody.
LateInv == GateTypeOK /\ late \in [Keys -> Nat] /\ LockAdmitsNobody
=============================================================================
