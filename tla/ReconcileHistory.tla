-------------------------- MODULE ReconcileHistory --------------------------
(***************************************************************************)
(* The reporting agent with one history variable, to say what a reconcile  *)
(* cycle achieves while the consumer, the clock and failures work against  *)
(* it.                                                                     *)
(***************************************************************************)
EXTENDS AgentReport

VARIABLE
    disturbed   \* addresses that something other than this cycle's own successful nft
                \* commands put into or took out of the kernel since desired() was computed,
                \* and those whose command failed

historyVars == <<reportVars, disturbed>>

\* An add or a remove of the running cycle that succeeded.
OwnStep == rpc \in {"add", "remove"} /\ todo' # todo /\ faults' = faults

Moved == {ip \in IPs : (kernel[ip] > 0) # (kernel'[ip] > 0)}

Remember ==
    disturbed' = IF rpc \in {"idle", "desired"} THEN {}
                 ELSE disturbed
                        \cup (IF OwnStep THEN {} ELSE Moved)
                        \cup (IF faults' # faults THEN todo \ todo' ELSE {})

HistoryInit == ReportingInit /\ disturbed = {}
HistorySpec == HistoryInit /\ [][ReportNext /\ Remember]_historyVars

\* What a reconcile reads back and publishes is the ban list it fetched, less the addresses
\* it must not drop: every wanted address is in the kernel and every other one is out,
\* except where the consumer, a timeout or a failed nft command touched that very address
\* after desired() ran.
ReconcileExact ==
    rpc = "publish" => \A ip \in IPs \ disturbed : ip \in have <=> want[ip] > 0

-----------------------------------------------------------------------------
(* What it rests on. *)

\* How far the running cycle has come with one address.
CycleSoFar(ip) ==
    /\ rpc = "add" =>
          /\ want[ip] > 0 /\ ip \notin todo => kernel[ip] > 0
          /\ want[ip] = 0 /\ ip \notin have => kernel[ip] = 0
    /\ rpc = "remove" =>
          /\ want[ip] > 0 => ip \notin todo /\ kernel[ip] > 0
          /\ want[ip] = 0 /\ ip \notin todo => kernel[ip] = 0
    /\ rpc = "publish" => (ip \in have <=> want[ip] > 0)

\* The inductive invariant behind ReconcileExact: what the cycle has done with an address
\* stands until something else touches it, and then the address is disturbed.
CycleInv == ProtectedInv /\ \A ip \in IPs \ disturbed : CycleSoFar(ip)
=============================================================================
