---------------------------- MODULE ReportedBan ----------------------------
(***************************************************************************)
(* The kernel-ban pipeline together with what the agent publishes, which   *)
(* is what /unban goes by.                                                 *)
(***************************************************************************)
EXTENDS KernelBan, AgentReport

VARIABLES
    orphans, \* the elements of the list moswaf:kernel_orphans
    health   \* ticks left of the hash moswaf:kernel_agent, 0: it is not there

own == <<orphans, health>>
reportedVars == <<vars, published, own>>

\* expiry(): four reconcile intervals.
Expiry == 4 * Resync

\* Written at the end of every cycle, the failed ones included; the write itself may fail.
ReportHealth ==
    health' = IF rpc = "report" /\ ReconcileReport /\ faults' = faults
              THEN Expiry ELSE health

\* publishState replaces the list, release_all deletes it with the hashes, and it expires when
\* the cycles that would have written it fail.
ReportOrphans ==
    \/ ReconcilePublish /\ orphans' = have \ Wanted
    \/ ReleaseAllForget /\ orphans' = {}
    \/ (faults' # faults \/ ~(ReconcilePublish \/ ReleaseAllForget)) /\ UNCHANGED orphans

\* kernel_state(): Redis answers with what is published, or not at all.
KernelStates ==
    {[reachable |-> TRUE, listed |-> applied \cup refused, orphans |-> orphans,
      health |-> health > 0],
     [reachable |-> FALSE, listed |-> {}, orphans |-> {}, health |-> FALSE]}

ReportedNext ==
    \/ \E w \in Workers : FrontStep(w, KernelStates) /\ UNCHANGED <<agentVars, published, own>>
    \/ AgentReporting /\ ReportHealth /\ ReportOrphans /\ UNCHANGED frontVars
    \/ RedisExpires /\ UNCHANGED <<vars, own>>
    \/ orphans # {} /\ orphans' = {} /\ UNCHANGED <<vars, published, health>>
    \/ Tick /\ health' = (IF health > 0 THEN health - 1 ELSE 0) /\ UNCHANGED <<published, orphans>>

ReportedSpec ==
    /\ Init /\ ReportInit /\ orphans = {} /\ health = 0
    /\ [][ReportedNext]_reportedVars

\* While the agent is stopped, /unban decides that the kernel is not involved only for an
\* address the kernel is not dropping (api.lua: "this endpoint never answers 200 for an
\* unban that only half happened").
UnbanIsWhole ==
    [][\A w \in Workers, ip \in IPs :
          cpc = "down" /\ job[w] = Idle /\ kernel[ip] > 0
            => job'[w] # [at |-> "lift", ip |-> ip, queued |-> FALSE]]_reportedVars

-----------------------------------------------------------------------------
(* What the composition rests on. *)

\* Both sides are in order, and what Redis holds of the agent names addresses that appear.
ReportedInv == PipelineInv /\ ReportInv /\ orphans \in SUBSET IPs
=============================================================================
