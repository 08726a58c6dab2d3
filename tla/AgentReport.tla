---------------------------- MODULE AgentReport ----------------------------
(***************************************************************************)
(* publish.go: the Redis keys in which moswaf-kbans tells the rest of the  *)
(* system what it has done to each address, laid over the steps of         *)
(* KernelAgent that write them.  What it says of itself, the health key,   *)
(* and the list of orphans are in ReportedBan.                             *)
(***************************************************************************)
EXTENDS KernelAgent

VARIABLES
    applied,   \* the fields of the hash moswaf:kernel_applied
    refused    \* the fields of the hash moswaf:kernel_refused

published == <<applied, refused>>

NoteApplied(ip) ==
    applied' = applied \cup {ip} /\ refused' = refused \ {ip}

NoteRefused(ip) ==
    refused' = refused \cup {ip} /\ applied' = applied \ {ip}

Forget(ip) ==
    applied' = applied \ {ip} /\ refused' = refused \ {ip}

ForgetAll ==
    applied' = {} /\ refused' = {}

\* The set that was read back replaces the hash; the refusals are left as they are.
PublishState(final) == applied' = final /\ UNCHANGED refused

\* A pipeline that fails may have been executed before the connection was lost.
Writes(write) == write \/ (faults' # faults /\ UNCHANGED published)

ConsumeReporting ==
    \/ ConsumeSilently /\ UNCHANGED published
    \/ cpc = "noteApplied" /\ DropNote /\ Writes(NoteApplied(ev.ip))
    \/ cpc = "noteRefused" /\ DropNote /\ Writes(NoteRefused(ev.ip))
    \/ ReleaseForget /\ Writes(Forget(ev.ip))
    \/ ReleaseAllForget /\ Writes(ForgetAll)

ReconcileReporting ==
    \/ (ReconcileSilently \/ ReconcileReport) /\ UNCHANGED published
    \/ ReconcilePublish /\ Writes(PublishState(have))

AgentReporting ==
    \/ ConsumeReporting \/ ReconcileReporting
    \/ (Crash \/ Restart) /\ UNCHANGED published

\* Every key expires four reconcile intervals after it was last written (expiry()).  These
\* are written by the cycles that succeed and by single events, so how long each has left
\* depends on what failed: here each may go at any time.
RedisExpires ==
    \/ applied # {} /\ applied' = {} /\ UNCHANGED refused
    \/ refused # {} /\ refused' = {} /\ UNCHANGED applied

ReportInit == applied = {} /\ refused = {}

ReportTypeOK == applied \in SUBSET IPs /\ refused \in SUBSET IPs

-----------------------------------------------------------------------------
(* The agent and its reports in the arbitrary environment of KernelAgent. *)

ReportNext ==
    \/ AgentReporting
    \/ Environment /\ UNCHANGED <<agentVars, published>>
    \/ RedisExpires /\ UNCHANGED allAgentVars
    \/ SharedTick /\ AgentTick /\ UNCHANGED published

reportVars == <<allAgentVars, published>>

ReportingInit == AgentAloneInit /\ ReportInit
ReportSpec == ReportingInit /\ [][ReportNext]_reportVars

\* "An address cannot be both refused and applied" (publish.go noteApplied), across the two
\* goroutines that write these keys, failed writes, expiry and restarts; and what is
\* published as refused is on the never-drop list.
RefusedOrApplied == applied \cap refused = {} /\ refused \subseteq NeverDrop

\* The inductive invariant behind it: an address about to be noted as applied is not
\* protected, one about to be noted as refused is, and what a cycle has read back holds no
\* protected address.
Noted ==
    /\ cpc = "noteApplied" => ev.op = "drop" /\ ev.ip \notin NeverDrop
    /\ cpc = "noteRefused" => ev.op = "drop" /\ ev.ip \in NeverDrop
    /\ rpc = "publish" => have \cap NeverDrop = {}

ReportInv ==
    /\ ProtectedInv /\ ReportTypeOK /\ Noted
    /\ applied \cap NeverDrop = {} /\ refused \subseteq NeverDrop
=============================================================================
