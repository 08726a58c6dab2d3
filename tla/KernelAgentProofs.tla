------------------------- MODULE KernelAgentProofs -------------------------
(***************************************************************************)
(* Proofs about moswaf-kbans, for every set of addresses, every never-drop *)
(* list and every timing: what it may drop in the kernel, what it          *)
(* publishes, and what a reconcile cycle achieves before it publishes.     *)
(***************************************************************************)
EXTENDS ReconcileHistory, SequenceTheorems, TLAPS

\* A push keeps the feed a sequence of events no longer than FeedMax (request_drop and the
\* release calls: RPUSH, then LTRIM).
LEMMA PushType ==
    ASSUME SharedTypeOK, NEW e \in Events, Push(e)
    PROVE  feed' \in Seq(Events) /\ Len(feed') <= FeedMax
<1> DEFINE longer == Append(feed, e)
           excess == Len(longer) - FeedMax
<1>1. longer \in Seq(Events) /\ Len(longer) = Len(feed) + 1
  BY AppendProperties DEF SharedTypeOK
<1>2. /\ FeedMax \in Nat \ {0} /\ Len(feed) \in Nat /\ Len(feed) <= FeedMax
      /\ excess <= 1 /\ excess \in Int
  BY <1>1, SharedAssumption, LenProperties DEF SharedTypeOK
<1>3. CASE excess > 0
  <2>1. excess = 1 /\ Len(longer) = FeedMax + 1
    BY <1>1, <1>2, <1>3
  <2>2. feed' = SubSeq(longer, 2, Len(longer))
    BY <1>3, <2>1 DEF Push
  <2>3. SubSeq(longer, 2, Len(longer)) \in Seq(Events)
        /\ Len(SubSeq(longer, 2, Len(longer))) = Len(longer) - 1
    BY <1>1, <1>2, <2>1, SubSeqProperties
  <2> QED BY <2>1, <2>2, <2>3, <1>2
<1>4. CASE ~(excess > 0)
  BY <1>1, <1>2, <1>4 DEF Push
<1> QED BY <1>3, <1>4

\* Popping the head of the feed leaves a shorter feed (consumeLoop: BLPOP).
LEMMA PopType ==
    ASSUME SharedTypeOK, feed # <<>>
    PROVE  Head(feed) \in Events /\ Tail(feed) \in Seq(Events) /\ Len(Tail(feed)) <= FeedMax
BY SharedAssumption, HeadTailProperties, LenProperties DEF SharedTypeOK

-----------------------------------------------------------------------------
(* One lemma per goroutine: its steps keep the inductive invariant. *)

\* nft add keeps the sets well typed, and protected addresses out of them, when the address
\* it is called for is not protected.
LEMMA NftAddKeeps ==
    ASSUME ProtectedInv, NEW ip \in IPs \ NeverDrop, NEW ttl \in 0..BanTTL,
           NftAdd(ip, ttl) \/ UNCHANGED kernel
    PROVE  kernel' \in [IPs -> 0..BanTTL] /\ ProtectedNeverDropped'
<1>1. CASE UNCHANGED kernel
  BY <1>1 DEF ProtectedInv, AgentTypeOK, ProtectedNeverDropped
<1>2. CASE NftAdd(ip, ttl)
  <2>1. PICK t \in 0..BanTTL : kernel' = [kernel EXCEPT ![ip] = t]
    BY <1>2 DEF NftAdd, ProtectedInv, AgentTypeOK
  <2> QED BY <2>1 DEF ProtectedInv, AgentTypeOK, ProtectedNeverDropped
<1> QED BY <1>1, <1>2

\* nft delete and nft flush keep both too.
LEMMA NftRemoveKeeps ==
    ASSUME ProtectedInv, NEW ip \in IPs, NftRemove(ip) \/ UNCHANGED kernel
    PROVE  kernel' \in [IPs -> 0..BanTTL] /\ ProtectedNeverDropped'
BY SharedAssumption DEF NftRemove, ProtectedInv, AgentTypeOK, ProtectedNeverDropped

LEMMA NftFlushKeeps ==
    ASSUME ProtectedInv, NEW ips \in SUBSET IPs, NftFlush(ips)
    PROVE  kernel' \in [IPs -> 0..BanTTL] /\ ProtectedNeverDropped'
BY SharedAssumption DEF NftFlush, ProtectedInv, AgentTypeOK, ProtectedNeverDropped

\* The tombstones stay well typed when one note is set or cleared.
LEMMA NoteKeeps ==
    ASSUME NEW Notes, tomb \in [IPs -> Notes], NEW ip, NEW n \in Notes,
           tomb' = [tomb EXCEPT ![ip] = n]
    PROVE  tomb' \in [IPs -> Notes]
OBVIOUS

\* The hold is a number of ticks.
LEMMA HoldType == HoldFor \in 0..HoldFor
BY SharedAssumption DEF HoldFor

\* The failure counter stays within its bound.
LEMMA FaultsType ==
    ASSUME faults \in 0..MaxFaults, NoFault \/ Fault
    PROVE  faults' \in 0..MaxFaults
BY AgentAssumption DEF NoFault, Fault

\* consumeLoop: whatever event it is handed, the invariant survives each of its steps.
LEMMA ConsumeKeeps ==
    ASSUME ProtectedInv, ConsumeStep
    PROVE  ProtectedInv'
<1> USE DEF ProtectedInv, AgentTypeOK, SharedTypeOK, Committed, Wanted, consumerLeaves,
            NextEvent, ProtectedNeverDropped
<1>0. SharedTypeOK /\ faults \in 0..MaxFaults
  OBVIOUS
<1>1. CASE Consume
  BY <1>0, <1>1, PopType DEF Consume, NoFault
<1>2. CASE IgnoreUnreadable
  BY <1>2 DEF IgnoreUnreadable, NoFault
<1>3. CASE Drop
  <2>1. tomb' \in [IPs -> {NoNote} \cup 0..HoldFor]
    BY <1>3, NoteKeeps DEF Drop
  <2> QED BY <1>3, <2>1 DEF Drop, NoFault
<1>4. CASE DropAdd
  <2>1. ev.ip \in IPs \ NeverDrop /\ ev.ttl \in 0..BanTTL
    BY <1>4 DEF DropAdd, Events, NoEvent, ReleaseAllEvent
  <2>2. kernel' \in [IPs -> 0..BanTTL] /\ ProtectedNeverDropped'
    BY <1>4, <2>1, NftAddKeeps DEF DropAdd
  <2>3. faults' \in 0..MaxFaults
    BY <1>4, FaultsType DEF DropAdd
  <2>4. /\ cpc' \in {"noteApplied", "pop"} /\ ev' \in {ev, NoEvent}
        /\ UNCHANGED <<tomb, feed, was, rpc, want, have, todo, ban>>
    BY <1>4 DEF DropAdd
  <2> QED BY <2>2, <2>3, <2>4
<1>5. CASE DropNote
  BY <1>5, FaultsType DEF DropNote, RedisWrite
<1>6. CASE Release
  <2>1. ev.ip \in IPs
    BY <1>6 DEF Release, Events, NoEvent, ReleaseAllEvent
  <2>2. kernel' \in [IPs -> 0..BanTTL] /\ ProtectedNeverDropped'
    BY <1>6, <2>1, NftRemoveKeeps DEF Release
  <2>3. faults' \in 0..MaxFaults
    BY <1>6, FaultsType DEF Release
  <2>4. /\ \/ cpc' = "mark" /\ ev' = ev
           \/ cpc' = "pop" /\ ev' = NoEvent
        /\ ev.op = "release"
        /\ UNCHANGED <<tomb, feed, was, rpc, want, have, todo, ban>>
    BY <1>6 DEF Release
  <2> QED BY <2>2, <2>3, <2>4
<1>7. CASE ReleaseMark
  <2>1. tomb' \in [IPs -> {NoNote} \cup 0..HoldFor]
    BY <1>7, NoteKeeps, HoldType DEF ReleaseMark
  <2> QED BY <1>7, <2>1 DEF ReleaseMark, NoFault
<1>8. CASE ReleaseForget
  BY <1>8, FaultsType DEF ReleaseForget, RedisWrite
<1>9. CASE ReleaseAllList
  BY <1>9, FaultsType DEF ReleaseAllList, InKernel
<1>10. CASE ReleaseAllFlush
  <2>1. kernel' \in [IPs -> 0..BanTTL] /\ ProtectedNeverDropped'
    BY <1>10, NftFlushKeeps DEF ReleaseAllFlush
  <2>2. faults' \in 0..MaxFaults
    BY <1>10, FaultsType DEF ReleaseAllFlush
  <2>3. /\ cpc' \in {"markAll", "pop"} /\ ev' \in {ev, NoEvent} /\ was' \in {was, {}}
        /\ UNCHANGED <<tomb, feed, rpc, want, have, todo, ban>>
    BY <1>10 DEF ReleaseAllFlush
  <2> QED BY <2>1, <2>2, <2>3
<1>11. CASE ReleaseAllMark
  <2>1. tomb' \in [IPs -> {NoNote} \cup 0..HoldFor]
    BY <1>11, SharedAssumption DEF ReleaseAllMark, HoldFor
  <2> QED BY <1>11, <2>1 DEF ReleaseAllMark, NoFault
<1>12. CASE ReleaseAllForget
  BY <1>12, FaultsType DEF ReleaseAllForget, RedisWrite
<1> QED BY <1>1, <1>2, <1>3, <1>4, <1>5, <1>6, <1>7, <1>8, <1>9, <1>10, <1>11, <1>12
        DEF ConsumeStep, ConsumeSilently

\* reconcileLoop: whatever the ban list says, the invariant survives each of its steps.
LEMMA ReconcileKeeps ==
    ASSUME ProtectedInv, ReconcileStep
    PROVE  ProtectedInv'
<1> USE DEF ProtectedInv, AgentTypeOK, SharedTypeOK, Committed, Wanted, reconcileLeaves,
            ProtectedNeverDropped
<1>0. /\ Nobody \in [IPs -> 0..BanTTL]
      /\ \A ip \in NeverDrop : Nobody[ip] = 0
  BY SharedAssumption DEF Nobody
<1>1. CASE ReconcileStart
  <2>1. tomb' \in [IPs -> {NoNote} \cup 0..HoldFor]
    BY <1>1 DEF ReconcileStart
  <2> QED BY <1>1, <2>1 DEF ReconcileStart, NoFault
<1>2. CASE FetchBans
  BY <1>0, <1>2, FaultsType DEF FetchBans, GiveUp, NoFault
<1>3. CASE ComputeDesired
  <2>1. want' \in [IPs -> 0..BanTTL] /\ \A ip \in NeverDrop : want'[ip] = 0
    BY <1>3, SharedAssumption DEF ComputeDesired, Desired
  <2> QED BY <1>3, <2>1 DEF ComputeDesired, NoFault
<1>4. CASE ListKernel
  BY <1>0, <1>4, FaultsType DEF ListKernel, GiveUp, InKernel
<1>5. ASSUME NEW ip \in IPs, ReconcileAdd(ip)
      PROVE  ProtectedInv'
  <2>1. ip \in IPs \ NeverDrop /\ want[ip] \in 0..BanTTL
    BY <1>5, SharedAssumption DEF ReconcileAdd
  <2>2. kernel' \in [IPs -> 0..BanTTL] /\ ProtectedNeverDropped'
    BY <1>5, <2>1, NftAddKeeps DEF ReconcileAdd
  <2>3. faults' \in 0..MaxFaults
    BY <1>5, FaultsType DEF ReconcileAdd
  <2>4. /\ todo' = todo \ {ip}
        /\ UNCHANGED <<tomb, rpc, want, have, cpc, ev, was, ban, feed>>
    BY <1>5 DEF ReconcileAdd
  <2> QED BY <2>2, <2>3, <2>4
<1>6. ASSUME NEW ip \in IPs, ReconcileRemove(ip)
      PROVE  ProtectedInv'
  <2>1. kernel' \in [IPs -> 0..BanTTL] /\ ProtectedNeverDropped'
    BY <1>6, NftRemoveKeeps DEF ReconcileRemove
  <2>2. faults' \in 0..MaxFaults
    BY <1>6, FaultsType DEF ReconcileRemove
  <2>3. /\ rpc = "remove" /\ todo' = todo \ {ip}
        /\ UNCHANGED <<tomb, rpc, want, have, cpc, ev, was, ban, feed>>
    BY <1>6 DEF ReconcileRemove
  <2> QED BY <2>1, <2>2, <2>3
<1>7. CASE AddsDone
  BY <1>7 DEF AddsDone, NoFault
<1>8. CASE ReadBack
  BY <1>0, <1>8, FaultsType DEF ReadBack, GiveUp, InKernel
<1>9. CASE ReconcilePublish
  BY <1>0, <1>9, FaultsType DEF ReconcilePublish, RedisWrite
<1>10. CASE ReconcileReport
  BY <1>10, FaultsType DEF ReconcileReport, RedisWrite
<1> QED BY <1>1, <1>2, <1>3, <1>4, <1>5, <1>6, <1>7, <1>8, <1>9, <1>10
        DEF ReconcileStep, ReconcileSilently

\* A crash and a restart.
LEMMA ProcessKeeps ==
    ASSUME ProtectedInv, Crash \/ Restart
    PROVE  ProtectedInv'
<1> USE DEF ProtectedInv, AgentTypeOK, SharedTypeOK, Committed, Wanted, sharedVars,
            ProtectedNeverDropped
<1>1. CASE Crash
  <2>1. /\ want' \in [IPs -> 0..BanTTL]
        /\ tomb' \in [IPs -> {NoNote} \cup 0..HoldFor]
    BY <1>1, SharedAssumption DEF Crash, Nobody
  <2> QED BY <1>1, <2>1, FaultsType DEF Crash
<1>2. CASE Restart
  BY <1>2 DEF Restart
<1> QED BY <1>1, <1>2

\* Whatever the environment bans, lifts or pushes.
LEMMA EnvironmentKeeps ==
    ASSUME ProtectedInv, Environment, UNCHANGED agentVars
    PROVE  ProtectedInv'
<1> USE DEF ProtectedInv, AgentTypeOK, Committed, Wanted, ProtectedNeverDropped, agentVars
<1>1. SharedTypeOK'
  <2>1. CASE \E e \in Events : Push(e) /\ UNCHANGED ban
    BY <2>1, PushType DEF SharedTypeOK
  <2>2. ASSUME NEW ip \in IPs, ban' = [ban EXCEPT ![ip] = BanTTL], UNCHANGED feed
        PROVE  SharedTypeOK'
    BY <2>2, SharedAssumption DEF SharedTypeOK
  <2>3. ASSUME NEW ips \in SUBSET IPs, UNCHANGED feed,
               ban' = [ip \in IPs |-> IF ip \in ips THEN 0 ELSE ban[ip]]
        PROVE  SharedTypeOK'
    BY <2>3, SharedAssumption DEF SharedTypeOK
  <2> QED BY <2>1, <2>2, <2>3 DEF Environment
<1> QED BY <1>1

\* A tick of the clock.
LEMMA TickKeeps ==
    ASSUME ProtectedInv, SharedTick, AgentTick
    PROVE  ProtectedInv'
<1>1. /\ ban' \in [IPs -> 0..BanTTL] /\ UNCHANGED feed
      /\ kernel' \in [IPs -> 0..BanTTL]
      /\ tomb' \in [IPs -> {NoNote} \cup 0..HoldFor]
  BY SharedAssumption
     DEF ProtectedInv, AgentTypeOK, SharedTypeOK, SharedTick, AgentTick, AllLess, NoNote, HoldFor
<1>2. ProtectedNeverDropped'
  BY SharedAssumption DEF ProtectedInv, ProtectedNeverDropped, AgentTick, AllLess
<1> QED BY <1>1, <1>2 DEF ProtectedInv, AgentTypeOK, SharedTypeOK, Committed, Wanted, AgentTick

\* Every step of the agent, of its environment and of the clock keeps the invariant.
LEMMA ProtectedStep ==
    ASSUME ProtectedInv, [AgentNext]_allAgentVars
    PROVE  ProtectedInv'
<1>1. CASE ConsumeStep
  BY <1>1, ConsumeKeeps
<1>2. CASE ReconcileStep
  BY <1>2, ReconcileKeeps
<1>3. CASE Crash \/ Restart
  BY <1>3, ProcessKeeps
<1>4. CASE Environment /\ UNCHANGED agentVars
  BY <1>4, EnvironmentKeeps
<1>5. CASE SharedTick /\ AgentTick
  BY <1>5, TickKeeps
<1>6. CASE UNCHANGED allAgentVars
  BY <1>6 DEF allAgentVars, sharedVars, agentVars, ProtectedInv, AgentTypeOK, SharedTypeOK,
              Committed, Wanted, ProtectedNeverDropped
<1> QED BY <1>1, <1>2, <1>3, <1>4, <1>5, <1>6 DEF AgentNext, AgentStep

\* The invariant holds when the agent starts on an empty machine.
LEMMA ProtectedInitially ==
    ASSUME AgentAloneInit
    PROVE  ProtectedInv
<1>1. Nobody \in [IPs -> 0..BanTTL]
  BY SharedAssumption DEF Nobody
<1>2. SharedTypeOK
  BY SharedAssumption, EmptySeq DEF AgentAloneInit, SharedInit, SharedTypeOK
<1>3. AgentTypeOK
  BY <1>1, <1>2, AgentAssumption DEF AgentAloneInit, AgentInit, AgentTypeOK
<1> QED BY <1>1, <1>3, SharedAssumption
        DEF ProtectedInv, AgentAloneInit, AgentInit, Committed, ProtectedNeverDropped, Nobody

-----------------------------------------------------------------------------
(* The theorems. *)

\* ProtectedInv is an inductive invariant of the agent in an arbitrary environment: every
\* interleaving of consumeLoop and reconcileLoop, every failed command, crash and restart,
\* every feed and every ban list keeps it.
THEOREM ProtectedInvariance == AgentSpec => []ProtectedInv
<1>1. AgentAloneInit => ProtectedInv
  BY ProtectedInitially
<1>2. ProtectedInv /\ [AgentNext]_allAgentVars => ProtectedInv'
  BY ProtectedStep
<1> QED BY <1>1, <1>2, PTL DEF AgentSpec

\* The agent's state keeps its types (main.go, tombstone.go, nftables.go).
THEOREM AgentTypeCorrect == AgentSpec => []AgentTypeOK
BY ProtectedInvariance, PTL DEF ProtectedInv

\* No address on the never-drop list is ever in the kernel sets (allowlist.go: "the part
\* that must not be wrong").
THEOREM ProtectedSafe == AgentSpec => []ProtectedNeverDropped
BY ProtectedInvariance, PTL DEF ProtectedInv

-----------------------------------------------------------------------------
(* What the agent publishes. *)

\* What the goroutines are about to publish stays right whichever of them moves, and
\* whatever the environment does.
LEMMA NotedStep ==
    ASSUME ProtectedInv, Noted, [AgentNext]_allAgentVars
    PROVE  Noted'
<1> USE DEF Noted
<1>1. CASE ConsumeStep
  <2> USE DEF NextEvent, consumerLeaves
  <2>1. CASE DropAdd
    BY <2>1 DEF DropAdd, ProtectedInv, Committed
  <2>2. CASE Drop
    BY <2>2 DEF Drop
  <2>3. CASE DropNote \/ Consume \/ IgnoreUnreadable
    BY <2>3 DEF DropNote, Consume, IgnoreUnreadable
  <2>4. CASE Release \/ ReleaseMark \/ ReleaseForget
    BY <2>4 DEF Release, ReleaseMark, ReleaseForget
  <2>5. CASE ReleaseAllList \/ ReleaseAllFlush
    BY <2>5 DEF ReleaseAllList, ReleaseAllFlush
  <2>6. CASE ReleaseAllMark \/ ReleaseAllForget
    BY <2>6 DEF ReleaseAllMark, ReleaseAllForget
  <2> QED BY <1>1, <2>1, <2>2, <2>3, <2>4, <2>5, <2>6 DEF ConsumeStep, ConsumeSilently
<1>2. CASE ReconcileStep
  <2> USE DEF reconcileLeaves
  <2>1. CASE ReadBack
    BY <2>1, SharedAssumption DEF ReadBack, GiveUp, InKernel, ProtectedInv, ProtectedNeverDropped
  <2>2. CASE ReconcileStart \/ FetchBans \/ ComputeDesired \/ ListKernel
    BY <2>2 DEF ReconcileStart, FetchBans, ComputeDesired, ListKernel, GiveUp
  <2>3. CASE AddsDone \/ ReconcilePublish \/ ReconcileReport
    BY <2>3 DEF AddsDone, ReconcilePublish, ReconcileReport
  <2>4. ASSUME NEW ip \in IPs, ReconcileAdd(ip) \/ ReconcileRemove(ip)
        PROVE  Noted'
    BY <2>4 DEF ReconcileAdd, ReconcileRemove
  <2> QED BY <1>2, <2>1, <2>2, <2>3, <2>4 DEF ReconcileStep, ReconcileSilently
<1>3. CASE Crash \/ Restart
  BY <1>3 DEF Crash, Restart
<1>4. CASE UNCHANGED <<cpc, ev, rpc, have>>
  BY <1>4
<1> QED BY <1>1, <1>2, <1>3, <1>4
        DEF AgentNext, AgentStep, AgentTick, agentVars, allAgentVars

\* Each write of publish.go, and each expiry, keeps the protected addresses out of applied
\* and the others out of refused.
LEMMA PublishedStep ==
    ASSUME ReportInv, [ReportNext]_reportVars
    PROVE  /\ ReportTypeOK'
           /\ applied' \cap NeverDrop = {} /\ refused' \subseteq NeverDrop
<1> USE SharedAssumption DEF ReportInv, ReportTypeOK, Noted
<1>1. CASE UNCHANGED published
  BY <1>1 DEF published
<1>2. CASE RedisExpires
  BY <1>2 DEF RedisExpires
<1>3. CASE /\ cpc = "noteApplied" /\ Writes(NoteApplied(ev.ip))
  <2>1. ev.ip \in IPs
    BY <1>3 DEF ProtectedInv, AgentTypeOK, Events, NoEvent, ReleaseAllEvent
  <2> QED BY <1>3, <2>1 DEF Writes, NoteApplied, published
<1>4. CASE /\ cpc = "noteRefused" /\ Writes(NoteRefused(ev.ip))
  BY <1>4 DEF Writes, NoteRefused, published
<1>5. CASE Writes(Forget(ev.ip))
  BY <1>5 DEF Writes, Forget, published
<1>6. CASE Writes(ForgetAll)
  BY <1>6 DEF Writes, ForgetAll, published
<1>7. CASE rpc = "publish" /\ Writes(PublishState(have))
  BY <1>7 DEF Writes, PublishState, published, ProtectedInv, AgentTypeOK
<1> QED BY <1>1, <1>2, <1>3, <1>4, <1>5, <1>6, <1>7
        DEF ReportNext, AgentReporting, ConsumeReporting, ReconcileReporting,
            ReconcilePublish, reportVars

\* Publishing changes nothing the agent does: a step of the reporting agent is a step of
\* the agent.
LEMMA ReportingIsAgentStep ==
    ASSUME [ReportNext]_reportVars
    PROVE  [AgentNext]_allAgentVars
BY DEF ReportNext, reportVars, AgentReporting, ConsumeReporting, ReconcileReporting,
       AgentNext, AgentStep, ConsumeStep, ReconcileStep

\* The reporting agent implements the agent: what is proved of the one holds of the other.
THEOREM ReportImplementsAgent == ReportSpec => AgentSpec
<1>1. [ReportNext]_reportVars => [AgentNext]_allAgentVars
  BY ReportingIsAgentStep
<1> QED BY <1>1, PTL DEF ReportSpec, ReportingInit, AgentSpec

\* The agent starts on a machine it has published nothing about.
LEMMA ReportInitially ==
    ASSUME ReportingInit
    PROVE  ReportInv
BY ProtectedInitially
   DEF ReportingInit, AgentAloneInit, AgentInit, ReportInit, ReportInv, ReportTypeOK, Noted

\* Every step of the reporting agent keeps the invariant behind what it publishes.
LEMMA ReportInvStep ==
    ASSUME ReportInv, [ReportNext]_reportVars
    PROVE  ReportInv'
<1>1. ProtectedInv' /\ Noted'
  BY ReportingIsAgentStep, ProtectedStep, NotedStep DEF ReportInv
<1> QED BY <1>1, PublishedStep DEF ReportInv

\* No address is published both as applied and as refused, and only protected ones are
\* published as refused (publish.go noteApplied, noteRefused, publishState).
THEOREM ReportConsistent == ReportSpec => []RefusedOrApplied
<1>1. ReportingInit => ReportInv
  BY ReportInitially
<1>2. ReportInv /\ [ReportNext]_reportVars => ReportInv'
  BY ReportInvStep
<1>3. ReportInv => RefusedOrApplied
  BY DEF ReportInv, RefusedOrApplied
<1> QED BY <1>1, <1>2, <1>3, PTL DEF ReportSpec

-----------------------------------------------------------------------------
(* What a reconcile cycle achieves. *)

\* An address that is not disturbed by a step was not disturbed before it, once the cycle
\* has its list; and a step that is not a command of the cycle left it where it was.
LEMMA StillUndisturbed ==
    ASSUME ProtectedInv, kernel' \in [IPs -> 0..BanTTL], Remember,
           rpc \notin {"idle", "desired"}, NEW ip \in IPs \ disturbed'
    PROVE  /\ ip \notin disturbed
           /\ ~OwnStep => (kernel[ip] > 0 <=> kernel'[ip] > 0)
           /\ faults' # faults => ip \notin todo \ todo'
BY DEF Remember, Moved

\* The consumer, the clock, the data plane and Redis: whatever they do to the kernel in the
\* middle of a cycle disturbs the address they do it to.
LEMMA OthersKeepCycle ==
    ASSUME CycleInv, AgentTypeOK', Remember, UNCHANGED <<rpc, want, have, todo>>
    PROVE  \A ip \in IPs \ disturbed' : CycleSoFar(ip)'
<1> SUFFICES ASSUME NEW ip \in IPs \ disturbed', rpc \in {"add", "remove", "publish"}
             PROVE  CycleSoFar(ip)'
  BY DEF CycleSoFar
<1>1. kernel[ip] \in 0..BanTTL /\ kernel'[ip] \in 0..BanTTL
  BY DEF CycleInv, ProtectedInv, AgentTypeOK
<1>2. ip \notin disturbed /\ (kernel[ip] > 0 <=> kernel'[ip] > 0)
  BY StillUndisturbed DEF CycleInv, AgentTypeOK, OwnStep
<1>3. kernel[ip] = 0 <=> kernel'[ip] = 0
  BY <1>1, <1>2, SharedAssumption
<1> QED BY <1>2, <1>3 DEF CycleInv, CycleSoFar

\* The cycle's own steps: the adds put every wanted address in, the removes take every other
\* listed one out, and the set is read back when both are done.
LEMMA CycleKeeps ==
    ASSUME CycleInv, AgentTypeOK', Remember, ReconcileStep
    PROVE  \A ip \in IPs \ disturbed' : CycleSoFar(ip)'
<1> SUFFICES ASSUME NEW ip \in IPs \ disturbed'
             PROVE  CycleSoFar(ip)'
  OBVIOUS
<1>0. /\ kernel \in [IPs -> 0..BanTTL] /\ want \in [IPs -> 0..BanTTL]
      /\ BanTTL \in Nat
  BY SharedAssumption DEF CycleInv, ProtectedInv, AgentTypeOK
<1>1. rpc \notin {"idle", "desired"} => CycleSoFar(ip)
  BY StillUndisturbed DEF CycleInv, AgentTypeOK
<1>2. CASE ReconcileStart \/ FetchBans \/ ComputeDesired
  BY <1>2 DEF ReconcileStart, FetchBans, ComputeDesired, GiveUp, CycleSoFar
<1>3. CASE ListKernel
  BY <1>0, <1>3 DEF ListKernel, GiveUp, InKernel, Wanted, CycleSoFar
<1>4. ASSUME NEW other \in IPs, ReconcileAdd(other)
      PROVE  CycleSoFar(ip)'
  <2>1. /\ rpc = "add" /\ UNCHANGED <<rpc, want, have>>
        /\ todo' = todo \ {other} /\ other \in todo
    BY <1>4 DEF ReconcileAdd
  <2>2. want[other] > 0
    BY <2>1 DEF CycleInv, ProtectedInv, Committed, Wanted
  <2>3. CASE ip = other
    <3>1. faults' = faults
      BY <2>1, <2>3, StillUndisturbed DEF CycleInv, AgentTypeOK
    <3>2. Fault => faults' # faults
      BY DEF Fault, CycleInv, ProtectedInv, AgentTypeOK
    <3>3. NftAdd(ip, want[ip])
      BY <1>4, <2>3, <3>1, <3>2 DEF ReconcileAdd
    <3>4. kernel'[ip] > 0
      BY <1>0, <2>2, <2>3, <3>3 DEF NftAdd
    <3> QED BY <2>1, <2>2, <2>3, <3>4, <1>0 DEF CycleSoFar
  <2>4. CASE ip # other
    <3>1. kernel'[ip] = kernel[ip]
      BY <1>0, <1>4, <2>4 DEF ReconcileAdd, NftAdd
    <3> QED BY <1>1, <2>1, <2>4, <3>1 DEF CycleSoFar
  <2> QED BY <2>3, <2>4
<1>5. ASSUME NEW other \in IPs, ReconcileRemove(other)
      PROVE  CycleSoFar(ip)'
  <2>1. /\ rpc = "remove" /\ UNCHANGED <<rpc, want, have>>
        /\ todo' = todo \ {other} /\ other \in todo
    BY <1>5 DEF ReconcileRemove
  <2>2. CASE ip = other
    <3>1. faults' = faults
      BY <2>1, <2>2, StillUndisturbed DEF CycleInv, AgentTypeOK
    <3>2. Fault => faults' # faults
      BY DEF Fault, CycleInv, ProtectedInv, AgentTypeOK
    <3>3. kernel'[ip] = 0
      BY <1>0, <1>5, <2>2, <3>1, <3>2 DEF ReconcileRemove, NftRemove
    <3>4. ~(want[ip] > 0)
      BY <1>1, <2>1, <2>2 DEF CycleSoFar
    <3> QED BY <2>1, <3>3, <3>4 DEF CycleSoFar
  <2>3. CASE ip # other
    <3>1. kernel'[ip] = kernel[ip]
      BY <1>0, <1>5, <2>3 DEF ReconcileRemove, NftRemove
    <3> QED BY <1>1, <2>1, <2>3, <3>1 DEF CycleSoFar
  <2> QED BY <2>2, <2>3
<1>6. CASE AddsDone
  BY <1>0, <1>1, <1>6 DEF AddsDone, Wanted, CycleSoFar
<1>7. CASE ReadBack
  <2>1. rpc = "remove" /\ todo = {}
    BY <1>7 DEF ReadBack
  <2>2. kernel[ip] > 0 <=> want[ip] > 0
    BY <1>0, <1>1, <2>1 DEF CycleSoFar
  <2> QED BY <1>7, <2>2 DEF ReadBack, GiveUp, InKernel, CycleSoFar
<1>8. CASE ReconcilePublish \/ ReconcileReport
  BY <1>8 DEF ReconcilePublish, ReconcileReport, CycleSoFar
<1> QED BY <1>2, <1>3, <1>4, <1>5, <1>6, <1>7, <1>8 DEF ReconcileStep, ReconcileSilently

\* Every step of the agent, of its environment, of Redis and of the clock.
LEMMA CycleStep ==
    ASSUME CycleInv, [ReportNext /\ Remember]_historyVars
    PROVE  CycleInv'
<1>1. [ReportNext]_reportVars
  BY DEF historyVars
<1>2. ProtectedInv'
  BY <1>1, ReportingIsAgentStep, ProtectedStep DEF CycleInv
<1>3. AgentTypeOK'
  BY <1>2 DEF ProtectedInv
<1>4. CASE UNCHANGED historyVars
  BY <1>2, <1>4 DEF historyVars, reportVars, allAgentVars, agentVars, CycleInv, CycleSoFar
<1>5. CASE ReconcileStep /\ Remember
  BY <1>2, <1>3, <1>5, CycleKeeps DEF CycleInv
<1>6. CASE UNCHANGED <<rpc, want, have, todo>> /\ Remember
  BY <1>2, <1>3, <1>6, OthersKeepCycle DEF CycleInv
<1>7. CASE Crash
  BY <1>2, <1>7 DEF Crash, CycleInv, CycleSoFar
<1>8. ASSUME ReportNext
      PROVE  ReconcileStep \/ UNCHANGED <<rpc, want, have, todo>> \/ Crash
  <2>1. CASE ConsumeReporting
    <3>1. ConsumeStep
      BY <2>1 DEF ConsumeReporting, ConsumeStep
    <3> QED
      BY <3>1
         DEF ConsumeStep, ConsumeSilently, Consume, IgnoreUnreadable, Drop, DropAdd, DropNote,
             Release, ReleaseMark, ReleaseForget, ReleaseAllList, ReleaseAllFlush,
             ReleaseAllMark, ReleaseAllForget, consumerLeaves
  <2>2. CASE ReconcileReporting
    BY <2>2 DEF ReconcileReporting, ReconcileStep
  <2>3. CASE Crash \/ Restart
    BY <2>3 DEF Restart
  <2>4. CASE UNCHANGED agentVars \/ AgentTick
    BY <2>4 DEF agentVars, AgentTick
  <2> QED BY <1>8, <2>1, <2>2, <2>3, <2>4 DEF ReportNext, AgentReporting, allAgentVars
<1> QED BY <1>4, <1>5, <1>6, <1>7, <1>8

\* What is read back and published is the fetched ban list less the addresses that must not
\* be dropped, except for the addresses that something else touched meanwhile (main.go
\* reconcile: adds, removes, read back, publishState).
THEOREM ReconcileIsExact == HistorySpec => []ReconcileExact
<1>1. HistoryInit => CycleInv
  BY ProtectedInitially DEF HistoryInit, ReportingInit, AgentAloneInit, AgentInit, CycleInv, CycleSoFar
<1>2. CycleInv /\ [ReportNext /\ Remember]_historyVars => CycleInv'
  BY CycleStep
<1>3. CycleInv => ReconcileExact
  BY DEF CycleInv, CycleSoFar, ReconcileExact
<1> QED BY <1>1, <1>2, <1>3, PTL DEF HistorySpec
=============================================================================
