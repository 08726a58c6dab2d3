----------------------------- MODULE KernelBan -----------------------------
(***************************************************************************)
(* The kernel-ban pipeline: the OpenResty workers that ban, escalate and   *)
(* unban (BanFrontend) and the host agent (KernelAgent), with the ban      *)
(* dictionary and the ban feed between them (BanShared).  What the agent   *)
(* has published when /unban looks is left open here: any answer Redis     *)
(* could give is allowed.  ReportedBan fixes it.                           *)
(***************************************************************************)
EXTENDS BanFrontend, KernelAgent

vars == <<sharedVars, frontVars, agentVars>>

Init == SharedInit /\ FrontInit /\ AgentInit

AnyKernelState ==
    [reachable : BOOLEAN, listed : SUBSET IPs, orphans : SUBSET IPs, health : BOOLEAN]

FrontTakes(w) == FrontStep(w, AnyKernelState) /\ UNCHANGED agentVars

Tick == SharedTick /\ FrontTick /\ AgentTick

Next ==
    \/ \E w \in Workers : FrontTakes(w)
    \/ AgentStep /\ UNCHANGED frontVars
    \/ Tick

Spec == Init /\ [][Next]_vars

\* A worker finishes what it is doing, the agent's goroutines run and time passes.  Nothing
\* makes a visitor send requests, an operator unban or a stopped agent start again.
Fairness ==
    /\ \A w \in Workers : WF_vars(JobStep(w) /\ UNCHANGED agentVars)
    /\ WF_vars(ConsumeStep /\ UNCHANGED frontVars)
    /\ WF_vars(ReconcileStep /\ UNCHANGED frontVars)
    /\ WF_vars(Tick)

FairSpec == Spec /\ Fairness

-----------------------------------------------------------------------------
(* Properties. *)

\* Every component's state stays within its type.
TypeOK == AgentTypeOK /\ FrontTypeOK

\* An address that stays unbanned is let go by the kernel for good, whatever was queued,
\* trimmed, applied late or fetched before the ban was lifted, and even if a request counted
\* just before the ban ran out asks for its drop just after (kernelban.lua: "neither outlives
\* the other").
UnbannedIsReleased == \A ip \in IPs : <>[](ban[ip] = 0) => <>[](kernel[ip] = 0)

-----------------------------------------------------------------------------
(* What they rest on. *)

\* A worker that is about to ask for a drop has a ban with time left in its hand, so what it
\* pushes is an event the agent knows.
FrontOK ==
    /\ FrontTypeOK
    /\ \A w \in Workers : job[w].at = "push" => job[w].ttl > 0

\* The inductive invariant of both sides.
PipelineInv == ProtectedInv /\ FrontOK
=============================================================================
