---------------------------- MODULE KernelAgent ----------------------------
(***************************************************************************)
(* moswaf-kbans, the host agent that turns bans into nftables drops.       *)
(*                                                                         *)
(* Two goroutines share the kernel sets, the tombstones and Redis:         *)
(*   - consumeLoop pops one event at a time off the ban feed (cpc);        *)
(*   - reconcileLoop reads the whole ban list and makes the kernel agree   *)
(*     with it (rpc).                                                      *)
(* Every nft command, every Redis pipeline and every tombstone operation   *)
(* is a step of its own, because the other goroutine, the data plane and   *)
(* the clock can run between any two of them.  What the Redis pipelines    *)
(* write is the business of AgentReport.                                   *)
(***************************************************************************)
EXTENDS BanShared

CONSTANTS
    V6,          \* the addresses kept in the set ban6; the others are in ban4
    MaxFaults    \* how many nft, Redis, HTTP and process failures a behaviour has

ASSUME AgentAssumption ==
    /\ V6 \subseteq IPs
    /\ MaxFaults \in Nat

VARIABLES
    kernel,   \* ticks left of the element in inet moswaf ban4/ban6, 0: not dropped
    tomb,     \* tombstones.upto: ticks left of the note, NoNote: none
    cpc,      \* where consumeLoop is; "down" when the process is not running
    ev,       \* the event consumeLoop holds, NoEvent between events
    was,      \* what release_all listed before its flush
    rpc,      \* where reconcile is
    want,     \* the fetched ban list, then the map desired() makes of it; 0: not in it
    have,     \* the kernel set as reconcile listed it
    todo,     \* addresses the running add or remove loop has yet to visit
    faults    \* failures so far

agentVars == <<kernel, tomb, cpc, ev, was, rpc, want, have, todo, faults>>

NoNote == -1
NoEvent == [op |-> "none"]
Nobody == [ip \in IPs |-> 0]

\* holdFor(): two reconcile intervals.
HoldFor == 2 * Resync

InKernel == {ip \in IPs : kernel[ip] > 0}
Wanted == {ip \in IPs : want[ip] > 0}

\* A call fails: its effect may or may not have taken place, and the log says so.
Fault == faults < MaxFaults /\ faults' = faults + 1
NoFault == faults' = faults

\* A write to Redis of what was done: one that fails is logged and nothing more, so it ends
\* the same way here.  What is written is in AgentReport.
RedisWrite == NoFault \/ Fault

\* nft add element: a new element gets the timeout; one that is already there has its
\* timeout refreshed by the kernels that support it and keeps its old one elsewhere.
NftAdd(ip, ttl) ==
    \E t \in {ttl} \cup ({kernel[ip]} \ {0}) : kernel' = [kernel EXCEPT ![ip] = t]

\* nft delete element: deleting what is not there counts as success.
NftRemove(ip) == kernel' = [kernel EXCEPT ![ip] = 0]

NftFlush(ips) == kernel' = [ip \in IPs |-> IF ip \in ips THEN 0 ELSE kernel[ip]]

consumerLeaves == <<was, rpc, want, have, todo, ban>>
reconcileLeaves == <<cpc, ev, was, ban, feed>>

-----------------------------------------------------------------------------
(* consumeLoop: one event, one kernel change. *)

NextEvent == cpc' = "pop" /\ ev' = NoEvent

\* BLPOP: the event leaves the list before anything has been done about it.
Consume ==
    /\ cpc = "pop" /\ feed # <<>>
    /\ ev' = Head(feed) /\ feed' = Tail(feed)
    /\ cpc' = "apply"
    /\ NoFault /\ UNCHANGED <<kernel, tomb, consumerLeaves>>

\* json.Unmarshal failed: logged, and the event is gone.
IgnoreUnreadable ==
    /\ cpc = "apply" /\ ev.op = "drop" /\ ~Decodes(ev.ttl)
    /\ NextEvent
    /\ NoFault /\ UNCHANGED <<kernel, tomb, feed, consumerLeaves>>

\* drop(): the never-drop list comes first, then the tombstone is cleared, then nft is called.
Drop ==
    /\ cpc = "apply" /\ ev.op = "drop" /\ Decodes(ev.ttl) /\ ev.ttl > 0
    /\ \/ /\ ev.ip \in NeverDrop
          /\ cpc' = "noteRefused" /\ UNCHANGED tomb
       \/ /\ ev.ip \notin NeverDrop
          /\ tomb' = [tomb EXCEPT ![ev.ip] = NoNote]
          /\ cpc' = "add"
    /\ NoFault /\ UNCHANGED <<kernel, ev, feed, consumerLeaves>>

DropAdd ==
    /\ cpc = "add"
    /\ \/ /\ NftAdd(ev.ip, ev.ttl) /\ NoFault
          /\ cpc' = "noteApplied" /\ UNCHANGED ev
       \/ /\ NftAdd(ev.ip, ev.ttl) \/ UNCHANGED kernel
          /\ Fault /\ NextEvent
    /\ UNCHANGED <<tomb, feed, consumerLeaves>>

DropNote ==
    /\ cpc \in {"noteApplied", "noteRefused"} /\ RedisWrite
    /\ NextEvent
    /\ UNCHANGED <<kernel, tomb, feed, consumerLeaves>>

\* release: nft.remove, then the tombstone, then forget; a failed remove ends it there.
Release ==
    /\ cpc = "apply" /\ ev.op = "release"
    /\ \/ /\ NftRemove(ev.ip) /\ NoFault
          /\ cpc' = "mark" /\ UNCHANGED ev
       \/ /\ NftRemove(ev.ip) \/ UNCHANGED kernel
          /\ Fault /\ NextEvent
    /\ UNCHANGED <<tomb, feed, consumerLeaves>>

ReleaseMark ==
    /\ cpc = "mark"
    /\ tomb' = [tomb EXCEPT ![ev.ip] = HoldFor]
    /\ cpc' = "forget"
    /\ NoFault /\ UNCHANGED <<kernel, ev, feed, consumerLeaves>>

ReleaseForget ==
    /\ cpc = "forget" /\ RedisWrite
    /\ NextEvent
    /\ UNCHANGED <<kernel, tomb, feed, consumerLeaves>>

\* release_all lists the sets before it flushes them; a failed list only means no notes.
ReleaseAllList ==
    /\ cpc = "apply" /\ ev.op = "release_all"
    /\ \/ was' = InKernel /\ NoFault
       \/ was' = {} /\ Fault
    /\ cpc' = "flush"
    /\ UNCHANGED <<kernel, tomb, ev, feed, rpc, want, have, todo, ban>>

\* flush empties ban4, then ban6, and stops at the first that fails.
ReleaseAllFlush ==
    /\ cpc = "flush"
    /\ \/ /\ NftFlush(IPs) /\ NoFault
          /\ cpc' = "markAll" /\ UNCHANGED <<ev, was>>
       \/ /\ \E done \in {{}, IPs \ V6, IPs} : NftFlush(done)
          /\ Fault /\ NextEvent /\ was' = {}
    /\ UNCHANGED <<tomb, feed, rpc, want, have, todo, ban>>

ReleaseAllMark ==
    /\ cpc = "markAll"
    /\ tomb' = [ip \in IPs |-> IF ip \in was THEN HoldFor ELSE tomb[ip]]
    /\ was' = {}
    /\ cpc' = "forgetAll"
    /\ NoFault /\ UNCHANGED <<kernel, ev, feed, rpc, want, have, todo, ban>>

ReleaseAllForget ==
    /\ cpc = "forgetAll" /\ RedisWrite
    /\ NextEvent
    /\ UNCHANGED <<kernel, tomb, feed, consumerLeaves>>

ConsumeSilently ==
    \/ Consume \/ IgnoreUnreadable \/ Drop \/ DropAdd
    \/ Release \/ ReleaseMark
    \/ ReleaseAllList \/ ReleaseAllFlush \/ ReleaseAllMark

ConsumeStep == ConsumeSilently \/ DropNote \/ ReleaseForget \/ ReleaseAllForget

-----------------------------------------------------------------------------
(* reconcileLoop: the backstop, which reads the whole ban list. *)

\* held(addr, now) compares with the now that prune used at the top of the cycle, so
\* within a cycle a note is held exactly when it is still in the map.
Held(ip) == tomb[ip] # NoNote

\* Mutant: the notes are never pruned.
ReconcileStartUnpruned ==
    /\ cpc # "down" /\ rpc = "idle"
    /\ rpc' = "fetch"
    /\ NoFault /\ UNCHANGED <<kernel, tomb, want, have, todo, reconcileLeaves>>

\* prune() drops the notes whose time has come.
ReconcileStart ==
    /\ cpc # "down" /\ rpc = "idle"
    /\ tomb' = [ip \in IPs |-> IF tomb[ip] = 0 THEN NoNote ELSE tomb[ip]]
    /\ rpc' = "fetch"
    /\ NoFault /\ UNCHANGED <<kernel, want, have, todo, reconcileLeaves>>

\* The cycle is given up and -1 reported.
GiveUp ==
    /\ rpc' = "report"
    /\ want' = Nobody /\ have' = {} /\ todo' = {}

\* fetchBans: one row whose TTL does not decode loses the whole list, like a failed request.
FetchBans ==
    /\ rpc = "fetch"
    /\ \/ /\ \A ip \in IPs : Decodes(ban[ip])
          /\ want' = ban /\ rpc' = "desired"
          /\ NoFault /\ UNCHANGED <<have, todo>>
       \/ /\ \E ip \in IPs : ~Decodes(ban[ip])
          /\ GiveUp /\ NoFault
       \/ GiveUp /\ Fault
    /\ UNCHANGED <<kernel, tomb, reconcileLeaves>>

\* Mutant: the reconcile does not ask the never-drop list.
DesiredUnprotected(bans) ==
    [ip \in IPs |-> IF bans[ip] > 0 /\ ~Held(ip) THEN bans[ip] ELSE 0]

\* Mutant: what the kernel already drops counts as banned.
DesiredKeepsKernel(bans) ==
    [ip \in IPs |-> IF (bans[ip] > 0 \/ kernel[ip] > 0) /\ ip \notin NeverDrop /\ ~Held(ip)
                    THEN BanTTL ELSE 0]

\* Three reasons why an address on the list gets no kernel rule.
Desired(bans) ==
    [ip \in IPs |-> IF bans[ip] > 0 /\ ip \notin NeverDrop /\ ~Held(ip)
                    THEN bans[ip] ELSE 0]

ComputeDesired ==
    /\ rpc = "desired"
    /\ want' = Desired(want)
    /\ rpc' = "list"
    /\ NoFault /\ UNCHANGED <<kernel, tomb, have, todo, reconcileLeaves>>

ListKernel ==
    /\ rpc = "list"
    /\ \/ /\ have' = InKernel /\ todo' = Wanted
          /\ rpc' = "add"
          /\ NoFault /\ UNCHANGED want
       \/ GiveUp /\ Fault
    /\ UNCHANGED <<kernel, tomb, reconcileLeaves>>

\* Every wanted address is added, present or not; a failure is logged and the loop goes on.
ReconcileAdd(ip) ==
    /\ rpc = "add" /\ ip \in todo
    /\ \/ NftAdd(ip, want[ip]) /\ NoFault
       \/ Fault /\ (NftAdd(ip, want[ip]) \/ UNCHANGED kernel)
    /\ todo' = todo \ {ip}
    /\ UNCHANGED <<tomb, rpc, want, have, reconcileLeaves>>

\* Mutant: nothing is removed.
AddsDoneOnly ==
    /\ rpc = "add" /\ todo = {}
    /\ rpc' = "remove"
    /\ NoFault /\ UNCHANGED <<kernel, tomb, want, have, todo, reconcileLeaves>>

AddsDone ==
    /\ rpc = "add" /\ todo = {}
    /\ rpc' = "remove" /\ todo' = have \ Wanted
    /\ NoFault /\ UNCHANGED <<kernel, tomb, want, have, reconcileLeaves>>

ReconcileRemove(ip) ==
    /\ rpc = "remove" /\ ip \in todo
    /\ \/ NftRemove(ip) /\ NoFault
       \/ Fault /\ (NftRemove(ip) \/ UNCHANGED kernel)
    /\ todo' = todo \ {ip}
    /\ UNCHANGED <<tomb, rpc, want, have, reconcileLeaves>>

\* The set is read back, and what it holds is what gets published.
ReadBack ==
    /\ rpc = "remove" /\ todo = {}
    /\ \/ /\ have' = InKernel /\ rpc' = "publish"
          /\ NoFault /\ UNCHANGED <<want, todo>>
       \/ GiveUp /\ Fault
    /\ UNCHANGED <<kernel, tomb, reconcileLeaves>>

ReconcilePublish ==
    /\ rpc = "publish"
    /\ RedisWrite
    /\ rpc' = "report"
    /\ want' = Nobody /\ have' = {}
    /\ UNCHANGED <<kernel, tomb, todo, reconcileLeaves>>

ReconcileReport ==
    /\ rpc = "report"
    /\ RedisWrite
    /\ rpc' = "idle"
    /\ UNCHANGED <<kernel, tomb, want, have, todo, reconcileLeaves>>

ReconcileSilently ==
    \/ ReconcileStart \/ FetchBans \/ ComputeDesired \/ ListKernel
    \/ \E ip \in IPs : ReconcileAdd(ip) \/ ReconcileRemove(ip)
    \/ AddsDone \/ ReadBack

ReconcileStep == ReconcileSilently \/ ReconcilePublish \/ ReconcileReport

-----------------------------------------------------------------------------
(* The process. *)

\* The process ends, by a signal or a crash, wherever its goroutines are: the tombstones
\* and an event already popped go with it, the kernel elements and the Redis keys stay.
Crash ==
    /\ cpc # "down" /\ Fault
    /\ cpc' = "down" /\ ev' = NoEvent /\ was' = {}
    /\ rpc' = "idle" /\ want' = Nobody /\ have' = {} /\ todo' = {}
    /\ tomb' = [ip \in IPs |-> NoNote]
    /\ UNCHANGED <<kernel, sharedVars>>

\* main(): ensureTable leaves existing sets as they are, and both loops start.
Restart ==
    /\ cpc = "down" /\ cpc' = "pop"
    /\ UNCHANGED <<kernel, tomb, ev, was, rpc, want, have, todo, faults, sharedVars>>

AgentStep == ConsumeStep \/ ReconcileStep \/ Crash \/ Restart

\* Mutant: elements are added without a timeout.
AgentTickForever ==
    /\ tomb' = [ip \in IPs |-> IF tomb[ip] > 0 THEN tomb[ip] - 1 ELSE tomb[ip]]
    /\ UNCHANGED <<kernel, cpc, ev, was, rpc, want, have, todo, faults>>

\* The kernel expires elements itself, and the notes age.
AgentTick ==
    /\ kernel' = AllLess(kernel)
    /\ tomb' = [ip \in IPs |-> IF tomb[ip] > 0 THEN tomb[ip] - 1 ELSE tomb[ip]]
    /\ UNCHANGED <<cpc, ev, was, rpc, want, have, todo, faults>>

AgentInit ==
    /\ kernel = Nobody
    /\ tomb = [ip \in IPs |-> NoNote]
    /\ cpc = "pop" /\ ev = NoEvent /\ was = {}
    /\ rpc = "idle" /\ want = Nobody /\ have = {} /\ todo = {}
    /\ faults = 0

AgentTypeOK ==
    /\ SharedTypeOK
    /\ kernel \in [IPs -> 0..BanTTL]
    /\ tomb \in [IPs -> {NoNote} \cup 0..HoldFor]
    /\ cpc \in {"down", "pop", "apply", "add", "noteApplied", "noteRefused", "mark", "forget",
                "flush", "markAll", "forgetAll"}
    /\ ev \in Events \cup {NoEvent}
    /\ was \in SUBSET IPs
    /\ rpc \in {"idle", "fetch", "desired", "list", "add", "remove", "publish", "report"}
    /\ want \in [IPs -> 0..BanTTL]
    /\ have \in SUBSET IPs
    /\ todo \in SUBSET IPs
    /\ faults \in 0..MaxFaults

\* What the two goroutines have committed themselves to between two steps: the event behind
\* an nft add or a note, and the addresses a cycle goes by once desired() has run.
Committed ==
    /\ cpc = "add" => ev.op = "drop" /\ ev.ip \notin NeverDrop
    /\ cpc \in {"mark", "forget"} => ev.op = "release"
    /\ rpc \in {"list", "add", "remove", "publish"} => \A ip \in NeverDrop : want[ip] = 0
    /\ rpc = "add" => todo \subseteq Wanted

-----------------------------------------------------------------------------
(* The agent in an environment that bans, lifts and pushes as it pleases: nothing the   *)
(* data plane, or anything else that can write to the queue, does is ruled out.         *)

Environment ==
    \/ \E ip \in IPs : ban' = [ban EXCEPT ![ip] = BanTTL] /\ UNCHANGED feed
    \/ \E ips \in SUBSET IPs : ban' = [ip \in IPs |-> IF ip \in ips THEN 0 ELSE ban[ip]]
                               /\ UNCHANGED feed
    \/ \E e \in Events : Push(e) /\ UNCHANGED ban

AgentNext ==
    \/ AgentStep
    \/ Environment /\ UNCHANGED agentVars
    \/ SharedTick /\ AgentTick

allAgentVars == <<sharedVars, agentVars>>

AgentAloneInit == SharedInit /\ AgentInit
AgentSpec == AgentAloneInit /\ [][AgentNext]_allAgentVars

\* The Go scheduler runs both goroutines, the ticker of reconcileLoop never stops, and
\* time passes.  Nothing makes a stopped agent start again: systemd gives up after five
\* failures (StartLimitBurst).
AgentFairness ==
    /\ WF_allAgentVars(ConsumeStep)
    /\ WF_allAgentVars(ReconcileStep)
    /\ WF_allAgentVars(SharedTick /\ AgentTick)

AgentFairSpec == AgentSpec /\ AgentFairness

-----------------------------------------------------------------------------
(* Properties. *)

\* The address an operator administers the machine from is never dropped in the kernel,
\* whatever the feed and the ban list say (allowlist.go: "the part that must not be wrong").
ProtectedNeverDropped == \A ip \in NeverDrop : kernel[ip] = 0

\* The inductive invariant behind it: a goroutine that is about to add has already asked the
\* never-drop list, and nothing the other one does can change the answer.
ProtectedInv == AgentTypeOK /\ Committed /\ ProtectedNeverDropped

\* No drop event for the address is waiting or being applied.
NoDropComing(ip) ==
    /\ ~ (ev.op = "drop" /\ ev.ip = ip)
    /\ \A i \in DOMAIN feed : ~ (feed[i].op = "drop" /\ feed[i].ip = ip)

\* No release of the address is waiting or being applied.
NoReleaseComing(ip) ==
    /\ ~ (ev.op = "release" /\ ev.ip = ip) /\ ev.op # "release_all"
    /\ \A i \in DOMAIN feed : ~ (feed[i].op = "release" /\ feed[i].ip = ip)
                             /\ feed[i].op # "release_all"

\* An address whose ban is over, and for which no drop is on its way, leaves the kernel for
\* good, even if the events that said so were lost (reconcileLoop: "anything the kernel
\* holds that is no longer banned is removed").
LiftedLeavesKernel ==
    \A ip \in IPs : <>[](ban[ip] = 0 /\ NoDropComing(ip)) => <>[](kernel[ip] = 0)

\* An address that stays banned while the agent runs is dropped again and again, even if its
\* drop event was lost, unreadable or never pushed, and even if a note left by an earlier
\* release is in the way (reconcileLoop: "anything the feed lost is repaired").
BannedReachesKernel ==
    \A ip \in IPs \ NeverDrop :
        <>[](ban[ip] > 0 /\ cpc # "down" /\ NoReleaseComing(ip)) => []<>(kernel[ip] > 0)

\* The same, provided only that the agent goes on getting ban lists it can read: what a lost
\* event, a failed nft command or an old note kept out is put in by a cycle that can.
ReadBanReachesKernel ==
    \A ip \in IPs \ NeverDrop :
        (<>[](ban[ip] > 0 /\ cpc # "down" /\ NoReleaseComing(ip)) /\ []<>(rpc = "desired"))
            => []<>(kernel[ip] > 0)

\* An agent that stopped leaves nothing behind: every element drains by its own timeout
\* (nftables.go add: "what makes a dead agent survivable").
DeadAgentDrains == <>[](cpc = "down") => <>[](InKernel = {})
=============================================================================
