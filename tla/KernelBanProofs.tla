-------------------------- MODULE KernelBanProofs --------------------------
(***************************************************************************)
(* Proofs about the kernel-ban pipeline as a whole: that the OpenResty     *)
(* workers are an environment the agent was proved correct in, and that    *)
(* what the agent publishes is an answer /unban was modelled with.         *)
(***************************************************************************)
EXTENDS ReportedBan, KernelAgentProofs

-----------------------------------------------------------------------------
(* The workers' own state. *)

\* A job with an address names one that appears, and a time a ban can have left.
LEMMA JobFields ==
    ASSUME FrontTypeOK, NEW w \in Workers
    PROVE  /\ job[w].at \in {"reset", "count", "push", "pending", "release"}
                => job[w].ip \in IPs /\ job[w].ttl \in 0..BanTTL
           /\ job[w].at = "lift" => job[w].ip \in IPs /\ job[w].queued \in BOOLEAN
BY DEF FrontTypeOK, Jobs, Idle

\* A job that goes on at another place keeps its address and its time.
LEMMA StepType ==
    ASSUME FrontTypeOK, NEW w \in Workers,
           NEW place \in {"reset", "count", "push", "pending", "release"},
           job[w].at \in {"reset", "count", "push", "pending", "release"}
    PROVE  LET next == [job[w] EXCEPT !.at = place]
           IN  next \in Jobs /\ next.at = place /\ next.ttl = job[w].ttl
BY DEF FrontTypeOK, Jobs, Idle

\* Where a job goes next decides whether the workers' jobs stay well typed.
LEMMA GotoKeeps ==
    ASSUME PipelineInv, NEW w \in Workers, NEW next \in Jobs, Goto(w, next),
           next.at = "push" => next.ttl > 0
    PROVE  /\ job' \in [Workers -> Jobs]
           /\ \A v \in Workers : job'[v].at = "push" => job'[v].ttl > 0
BY DEF Goto, PipelineInv, FrontOK, FrontTypeOK

\* The post-ban counter stays within the numbers that are followed (kernelban.lua
\* note_and_maybe_escalate: incr with an initial TTL).
LEMMA IncrType ==
    ASSUME FrontTypeOK, NEW ip \in IPs, NEW ttl \in 0..BanTTL
    PROVE  Incr(ip, ttl) \in [n : HitCounts, ttl : 0..BanTTL]
BY FrontendAssumption DEF FrontTypeOK, Incr, HitCounts

\* Every step of a worker keeps its own state in order, whatever /unban reads (ipset.lua,
\* kernelban.lua, api.lua).
LEMMA FrontKeeps ==
    ASSUME PipelineInv, NEW w \in Workers, NEW states, FrontStep(w, states)
    PROVE  FrontOK'
<1> USE DEF PipelineInv, FrontOK, FrontTypeOK
<1>0. /\ hits \in [IPs -> [n : HitCounts, ttl : 0..BanTTL]]
      /\ pending \in [IPs -> 0..BanTTL]
      /\ NoHits \in [n : HitCounts, ttl : 0..BanTTL]
      /\ ban \in [IPs -> 0..BanTTL]
      /\ BanTTL \in Nat /\ 0 \in 0..BanTTL
  BY SharedAssumption, FrontendAssumption
     DEF NoHits, HitCounts, ProtectedInv, AgentTypeOK, SharedTypeOK
<1>1. Idle \in Jobs /\ Idle.at # "push"
  BY DEF Idle, Jobs
<1>2. ASSUME UNCHANGED <<hits, pending>>, NEW next \in Jobs, Goto(w, next),
             next.at = "push" => next.ttl > 0
      PROVE  FrontOK'
  BY <1>2, <1>0, GotoKeeps
<1>3. CASE \E ip \in IPs : BanIP(w, ip)
  <2>1. PICK ip \in IPs : BanIP(w, ip)
    BY <1>3
  <2>2. [at |-> "reset", ip |-> ip, ttl |-> 0] \in Jobs
    BY <1>0 DEF Jobs
  <2> QED BY <1>2, <2>1, <2>2 DEF BanIP
<1>4. CASE ResetHits(w)
  <2>1. job[w].ip \in IPs
    BY <1>4, JobFields DEF ResetHits
  <2>2. hits' \in [IPs -> [n : HitCounts, ttl : 0..BanTTL]]
    BY <1>0, <1>4, <2>1 DEF ResetHits
  <2> QED BY <1>0, <1>1, <1>4, <2>2, GotoKeeps DEF ResetHits, Finish
<1>5. CASE \E ip \in IPs : IsBanned(w, ip)
  <2>1. PICK ip \in IPs : IsBanned(w, ip)
    BY <1>5
  <2>2. [at |-> "count", ip |-> ip, ttl |-> ban[ip]] \in Jobs
    BY <1>0 DEF Jobs
  <2> QED BY <1>2, <2>1, <2>2 DEF IsBanned
<1>6. CASE NoteBanHit(w)
  <2> DEFINE ip == job[w].ip
             ttl == job[w].ttl
  <2>1. job[w].at = "count" /\ ip \in IPs /\ ttl \in 0..BanTTL
    BY <1>6, JobFields DEF NoteBanHit
  <2>2. hits' \in [IPs -> [n : HitCounts, ttl : 0..BanTTL]]
    <3>1. Incr(ip, ttl) \in [n : HitCounts, ttl : 0..BanTTL]
      BY <2>1, IncrType
    <3>2. hits' \in {hits, [hits EXCEPT ![ip] = Incr(ip, ttl)]}
      BY <1>6 DEF NoteBanHit
    <3> QED BY <1>0, <3>1, <3>2
  <2>3. \/ Finish(w)
        \/ ttl > 0 /\ Step(w, "push")
    BY <1>6 DEF NoteBanHit
  <2>4. CASE Finish(w)
    BY <1>0, <1>1, <1>6, <2>2, <2>4, GotoKeeps DEF NoteBanHit, Finish
  <2>5. CASE ttl > 0 /\ Step(w, "push")
    <3> DEFINE next == [job[w] EXCEPT !.at = "push"]
    <3>1. next \in Jobs /\ next.ttl > 0
      BY <2>1, <2>5, StepType
    <3>2. Goto(w, next)
      BY <2>5 DEF Step
    <3> QED BY <1>0, <1>6, <2>2, <3>1, <3>2, GotoKeeps DEF NoteBanHit
  <2> QED BY <2>3, <2>4, <2>5
<1>7. CASE RequestDrop(w)
  <2>1. CASE Step(w, "pending")
    <3> DEFINE next == [job[w] EXCEPT !.at = "pending"]
    <3>1. next \in Jobs /\ next.at = "pending"
      BY <1>7, StepType DEF RequestDrop
    <3>2. Goto(w, next)
      BY <2>1 DEF Step
    <3> HIDE DEF next
    <3> QED BY <1>2, <1>7, <3>1, <3>2 DEF RequestDrop
  <2>2. CASE Finish(w)
    BY <1>1, <1>2, <1>7, <2>2 DEF RequestDrop, Finish
  <2> QED BY <1>7, <2>1, <2>2 DEF RequestDrop
<1>8. CASE MarkPending(w)
  <2>1. job[w].ip \in IPs /\ job[w].ttl \in 0..BanTTL
    BY <1>8, JobFields DEF MarkPending
  <2>2. pending' \in [IPs -> 0..BanTTL]
    BY <1>0, <1>8, <2>1 DEF MarkPending
  <2> QED BY <1>0, <1>1, <1>8, <2>2, GotoKeeps DEF MarkPending, Finish
<1>9. CASE \E state \in states, ip \in IPs : Unban(w, ip, state)
  <2>1. PICK state \in states, ip \in IPs : Unban(w, ip, state)
    BY <1>9
  <2>2. /\ [at |-> "release", ip |-> ip, ttl |-> 0] \in Jobs
        /\ [at |-> "lift", ip |-> ip, queued |-> FALSE] \in Jobs
    BY <1>0 DEF Jobs
  <2>3. PICK next \in {[at |-> "release", ip |-> ip, ttl |-> 0],
                       [at |-> "lift", ip |-> ip, queued |-> FALSE]} : Goto(w, next)
    BY <2>1 DEF Unban
  <2> QED BY <1>2, <2>1, <2>2, <2>3 DEF Unban
<1>10. CASE RequestRelease(w)
  <2>1. job[w].ip \in IPs
    BY <1>10, JobFields DEF RequestRelease
  <2>2. [at |-> "lift", ip |-> job[w].ip, queued |-> TRUE] \in Jobs
    BY <2>1 DEF Jobs
  <2>3. pending' \in [IPs -> 0..BanTTL] /\ UNCHANGED hits
    BY <1>0, <1>10, <2>1 DEF RequestRelease
  <2>4. \/ Goto(w, [at |-> "lift", ip |-> job[w].ip, queued |-> TRUE])
        \/ Goto(w, Idle)
    BY <1>10 DEF RequestRelease, Finish
  <2> QED BY <1>0, <1>1, <2>2, <2>3, <2>4, GotoKeeps
<1>11. CASE Lift(w)
  <2>1. job[w].ip \in IPs
    BY <1>11, JobFields DEF Lift
  <2>2. /\ pending' \in [IPs -> 0..BanTTL]
        /\ hits' \in [IPs -> [n : HitCounts, ttl : 0..BanTTL]]
    BY <1>0, <1>11, <2>1 DEF Lift
  <2> QED BY <1>1, <1>11, <2>2, GotoKeeps DEF Lift, Finish
<1>12. CASE \E state \in states : UnbanAll(w, state)
  <2>1. PICK state \in states : UnbanAll(w, state)
    BY <1>12
  <2>2. [at |-> "releaseAll"] \in Jobs /\ [at |-> "liftAll", queued |-> FALSE] \in Jobs
    BY DEF Jobs
  <2>3. PICK next \in {[at |-> "releaseAll"], [at |-> "liftAll", queued |-> FALSE]} :
                Goto(w, next)
    BY <2>1 DEF UnbanAll
  <2> QED BY <1>2, <2>1, <2>2, <2>3 DEF UnbanAll
<1>13. CASE RequestReleaseAll(w)
  <2>1. [at |-> "liftAll", queued |-> TRUE] \in Jobs
    BY DEF Jobs
  <2>2. Goto(w, [at |-> "liftAll", queued |-> TRUE]) \/ Goto(w, Idle)
    BY <1>13 DEF RequestReleaseAll, Finish
  <2> QED BY <1>1, <1>2, <1>13, <2>1, <2>2 DEF RequestReleaseAll
<1>14. CASE LiftAll(w)
  BY <1>1, <1>2, <1>14 DEF LiftAll, Finish
<1> QED BY <1>3, <1>4, <1>5, <1>6, <1>7, <1>8, <1>9, <1>10, <1>11, <1>12, <1>13, <1>14
        DEF FrontStep, JobStep

\* A tick of the clock keeps it too.
LEMMA FrontTickKeeps ==
    ASSUME FrontOK, FrontTick
    PROVE  FrontOK'
<1>1. /\ BanTTL \in Nat
      /\ NoHits \in [n : HitCounts, ttl : 0..BanTTL]
  BY SharedAssumption, FrontendAssumption DEF NoHits, HitCounts
<1>2. ASSUME NEW ip \in IPs
      PROVE  hits[ip].ttl > 1 => [hits[ip] EXCEPT !.ttl = @ - 1] \in [n : HitCounts, ttl : 0..BanTTL]
  <2>1. hits[ip] \in [n : HitCounts, ttl : 0..BanTTL]
    BY DEF FrontOK, FrontTypeOK
  <2>2. hits[ip].ttl \in 0..BanTTL
    BY <2>1
  <2>3. hits[ip].ttl > 1 => hits[ip].ttl - 1 \in 0..BanTTL
    BY <1>1, <2>2
  <2> QED BY <2>1, <2>3
<1>3. hits' \in [IPs -> [n : HitCounts, ttl : 0..BanTTL]]
  BY <1>1, <1>2 DEF FrontTick
<1>4. pending' \in [IPs -> 0..BanTTL]
  BY <1>1 DEF FrontOK, FrontTypeOK, FrontTick, AllLess
<1> QED BY <1>3, <1>4 DEF FrontOK, FrontTypeOK, FrontTick

-----------------------------------------------------------------------------
(* The workers as the agent's environment. *)

\* What a worker does to the ban dictionary and to the feed, the agent was proved correct
\* against: it sets one ban, lifts some, pushes an event the agent knows, or does neither.
LEMMA FrontIsEnvironment ==
    ASSUME PipelineInv, NEW w \in Workers, NEW states, FrontStep(w, states)
    PROVE  Environment \/ UNCHANGED sharedVars
<1> USE DEF Environment, sharedVars
<1>1. ban \in [IPs -> 0..BanTTL]
  BY DEF PipelineInv, ProtectedInv, AgentTypeOK, SharedTypeOK
<1>2. CASE \E ip \in IPs : BanIP(w, ip)
  BY <1>2 DEF BanIP
<1>3. CASE RequestDrop(w)
  <2> DEFINE event == DropEvent(job[w].ip, job[w].ttl)
  <2>1. job[w].ip \in IPs /\ job[w].ttl \in 0..BanTTL /\ job[w].ttl > 0
    BY <1>3, JobFields DEF RequestDrop, PipelineInv, FrontOK
  <2>2. event \in Events
    BY <2>1, SharedAssumption DEF Events, DropEvent
  <2>3. (Push(event) \/ UNCHANGED feed) /\ UNCHANGED ban
    BY <1>3 DEF RequestDrop, PushFails
  <2> QED BY <2>2, <2>3
<1>4. CASE RequestRelease(w)
  <2> DEFINE event == ReleaseEvent(job[w].ip)
  <2>1. event \in Events
    BY <1>4, JobFields DEF RequestRelease, PipelineInv, FrontOK, Events, ReleaseEvent
  <2>2. (Push(event) \/ UNCHANGED feed) /\ UNCHANGED ban
    BY <1>4 DEF RequestRelease, PushFails
  <2> QED BY <2>1, <2>2
<1>5. CASE RequestReleaseAll(w)
  <2>1. ReleaseAllEvent \in Events
    BY DEF Events
  <2>2. (Push(ReleaseAllEvent) \/ UNCHANGED feed) /\ UNCHANGED ban
    BY <1>5 DEF RequestReleaseAll, PushFails
  <2> QED BY <2>1, <2>2
<1>6. CASE Lift(w)
  <2>1. job[w].ip \in IPs
    BY <1>6, JobFields DEF Lift, PipelineInv, FrontOK
  <2>2. ban' = [ip \in IPs |-> IF ip \in {job[w].ip} THEN 0 ELSE ban[ip]]
    BY <1>1, <1>6 DEF Lift
  <2> QED BY <1>6, <2>1, <2>2 DEF Lift
<1>7. CASE LiftAll(w)
  <2>1. ban' = [ip \in IPs |-> IF ip \in IPs THEN 0 ELSE ban[ip]]
    BY <1>7 DEF LiftAll
  <2> QED BY <1>7, <2>1 DEF LiftAll
<1>8. CASE ResetHits(w) \/ NoteBanHit(w) \/ MarkPending(w)
  BY <1>8 DEF ResetHits, NoteBanHit, MarkPending
<1>9. CASE \E ip \in IPs : IsBanned(w, ip)
  BY <1>9 DEF IsBanned
<1>10. CASE \E state \in states : UnbanAll(w, state) \/ \E ip \in IPs : Unban(w, ip, state)
  BY <1>10 DEF UnbanAll, Unban
<1> QED BY <1>2, <1>3, <1>4, <1>5, <1>6, <1>7, <1>8, <1>9, <1>10 DEF FrontStep, JobStep

\* A step of the pipeline is a step of the agent and its environment.
LEMMA PipelineIsAgentStep ==
    ASSUME PipelineInv, [Next]_vars
    PROVE  [AgentNext]_allAgentVars
<1>1. CASE \E w \in Workers : FrontTakes(w)
  BY <1>1, FrontIsEnvironment DEF FrontTakes, AgentNext, allAgentVars
<1>2. CASE AgentStep
  BY <1>2 DEF AgentNext
<1>3. CASE Tick
  BY <1>3 DEF Tick, AgentNext
<1>4. CASE UNCHANGED vars
  BY <1>4 DEF vars, allAgentVars
<1> QED BY <1>1, <1>2, <1>3, <1>4 DEF Next

\* Both sides stay in order.
LEMMA PipelineStep ==
    ASSUME PipelineInv, [Next]_vars
    PROVE  PipelineInv'
<1>1. ProtectedInv'
  BY PipelineIsAgentStep, ProtectedStep DEF PipelineInv
<1>2. FrontOK'
  <2>1. CASE \E w \in Workers : FrontTakes(w)
    BY <2>1, FrontKeeps DEF FrontTakes
  <2>2. CASE Tick
    BY <2>2, FrontTickKeeps DEF Tick, PipelineInv
  <2>3. CASE UNCHANGED frontVars
    BY <2>3 DEF frontVars, PipelineInv, FrontOK, FrontTypeOK
  <2> QED BY <2>1, <2>2, <2>3 DEF Next, vars
<1> QED BY <1>1, <1>2 DEF PipelineInv

\* A machine on which nothing is banned and nobody is served.
LEMMA PipelineInitially ==
    ASSUME Init
    PROVE  PipelineInv
<1>1. ProtectedInv
  BY ProtectedInitially DEF Init, AgentAloneInit
<1>2. FrontOK
  BY SharedAssumption, FrontendAssumption
     DEF Init, FrontInit, FrontOK, FrontTypeOK, Jobs, Idle, NoHits, HitCounts
<1> QED BY <1>1, <1>2 DEF PipelineInv

\* The inductive invariant of the pipeline.
THEOREM PipelineInvariance == Spec => []PipelineInv
<1>1. Init => PipelineInv
  BY PipelineInitially
<1>2. PipelineInv /\ [Next]_vars => PipelineInv'
  BY PipelineStep
<1> QED BY <1>1, <1>2, PTL DEF Spec

\* The pipeline's state keeps its types on both sides of the feed (ipset.lua, kernelban.lua,
\* api.lua, the agent).
THEOREM PipelineTypeCorrect == Spec => []TypeOK
<1>1. PipelineInv => TypeOK
  BY DEF PipelineInv, ProtectedInv, FrontOK, TypeOK
<1> QED BY <1>1, PipelineInvariance, PTL

\* The pipeline implements the agent in its arbitrary environment: the workers of OpenResty
\* are one of the environments the agent was proved correct in, so what is proved of
\* AgentSpec holds of the whole (kernelban.lua request_drop, request_release).
THEOREM PipelineImplementsAgent == Spec => AgentSpec
<1>1. Init => AgentAloneInit
  BY DEF Init, AgentAloneInit
<1>2. PipelineInv /\ [Next]_vars => [AgentNext]_allAgentVars
  BY PipelineIsAgentStep
<1> QED BY <1>1, <1>2, PipelineInvariance, PTL DEF Spec, AgentSpec

\* Whatever the visitors and the operator do, no protected address reaches the kernel.
THEOREM PipelineProtects == Spec => []ProtectedNeverDropped
BY PipelineImplementsAgent, ProtectedSafe, PTL

-----------------------------------------------------------------------------
(* The reports. *)

\* Redis answers /unban with one of the answers the pipeline was modelled with, so every
\* step of the reported pipeline is one of the pipeline.
LEMMA ReportedIsPipelineStep ==
    ASSUME ReportedInv, [ReportedNext]_reportedVars
    PROVE  [Next]_vars
<1>1. KernelStates \subseteq AnyKernelState
  BY DEF KernelStates, AnyKernelState, ReportedInv, ReportInv, ReportTypeOK
<1>2. ASSUME NEW w \in Workers, FrontStep(w, KernelStates)
      PROVE  FrontStep(w, AnyKernelState)
  BY <1>1, <1>2 DEF FrontStep
<1>3. AgentReporting => AgentStep
  BY DEF AgentReporting, ConsumeReporting, ReconcileReporting, AgentStep, ConsumeStep,
         ReconcileStep
<1> QED BY <1>2, <1>3 DEF ReportedNext, reportedVars, Next, FrontTakes

\* And every one of its steps is a step of the reporting agent.
LEMMA ReportedIsReportStep ==
    ASSUME ReportedInv, [ReportedNext]_reportedVars
    PROVE  [ReportNext]_reportVars
<1>1. CASE \E w \in Workers : FrontStep(w, KernelStates) /\ UNCHANGED <<agentVars, published, own>>
  BY <1>1, FrontIsEnvironment DEF ReportedInv, ReportNext, reportVars, allAgentVars
<1>2. CASE AgentReporting
  BY <1>2 DEF ReportNext
<1>3. CASE RedisExpires /\ UNCHANGED <<vars, own>>
  BY <1>3 DEF ReportNext, vars, allAgentVars
<1>4. CASE Tick /\ UNCHANGED <<published, orphans>>
  BY <1>4 DEF Tick, ReportNext
<1>5. CASE UNCHANGED <<vars, published>>
  BY <1>5 DEF vars, reportVars, allAgentVars
<1> QED BY <1>1, <1>2, <1>3, <1>4, <1>5 DEF ReportedNext, reportedVars

\* Each write of publish.go, and each expiry, leaves addresses that appear.
LEMMA ReportedStep ==
    ASSUME ReportedInv, [ReportedNext]_reportedVars
    PROVE  ReportedInv'
<1>1. PipelineInv'
  BY ReportedIsPipelineStep, PipelineStep DEF ReportedInv
<1>2. ReportInv'
  BY ReportedIsReportStep, ReportInvStep DEF ReportedInv
<1>3. orphans' \in SUBSET IPs
  BY DEF ReportedInv, PipelineInv, ProtectedInv, AgentTypeOK, ReportedNext, reportedVars,
         ReportOrphans, own
<1> QED BY <1>1, <1>2, <1>3 DEF ReportedInv

\* Both sides and the reports stay in order together.
THEOREM ReportedInvariance == ReportedSpec => []ReportedInv
<1>1. Init /\ ReportInit /\ orphans = {} => ReportedInv
  BY PipelineInitially, ReportInitially DEF Init, AgentAloneInit, ReportingInit, ReportedInv
<1>2. ReportedInv /\ [ReportedNext]_reportedVars => ReportedInv'
  BY ReportedStep
<1> QED BY <1>1, <1>2, PTL DEF ReportedSpec

\* What the agent publishes is an answer the pipeline allows /unban to get, so what is proved
\* of Spec holds when /unban goes by the reports (api.lua kernel_state).
THEOREM ReportedImplementsPipeline == ReportedSpec => Spec
<1>1. ReportedInv /\ [ReportedNext]_reportedVars => [Next]_vars
  BY ReportedIsPipelineStep
<1> QED BY <1>1, ReportedInvariance, PTL DEF ReportedSpec, Spec

\* And the reports are those of the reporting agent: with the workers of OpenResty as its
\* environment no address is published both as applied and as refused.
THEOREM ReportedConsistent == ReportedSpec => []RefusedOrApplied
<1>1. ReportedInv => RefusedOrApplied
  BY DEF ReportedInv, ReportInv, RefusedOrApplied
<1> QED BY <1>1, ReportedInvariance, PTL
=============================================================================
