----------------------------- MODULE MCSiteGate -----------------------------
(* Small instances of the login gate. *)
EXTENDS GateHistory, TLC

OnlySite == [u \in Users |-> CHOOSE s \in Sites : TRUE]
SitesAndAddresses == Sites \X Addresses

\* Requests and addresses are interchangeable, and only invariants are checked.
Alike == Permutations(Logins) \cup Permutations(Addresses)
=============================================================================
