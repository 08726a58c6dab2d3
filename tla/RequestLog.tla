----------------------------- MODULE RequestLog -----------------------------
(***************************************************************************)
(* What log.lua does for a request, whole: the event of EventPipeline, and *)
(* the counter of the minute, which travels as an absolute number per host *)
(* to a Redis hash and from there, summed, into the row of the minute in   *)
(* stats_minute.  The hosts run one worker each, and one minute is         *)
(* followed: minutes do not meet.                                          *)
(***************************************************************************)
EXTENDS EventPipeline, FiniteSetsExt

CONSTANT MaxRepeats   \* bound: keys SCAN returns a second time

ASSUME RepeatsAssumption == MaxRepeats \in Nat

VARIABLES
    served,    \* served[h]: requests host h has answered in this minute
    count,     \* count[h]: the counter t:<minute> in its shared dictionary
    shipped,   \* shipped[h]: field total of moswaf:stat:<minute>:<h>, 0 when it is not there
    collector, \* the running collectStats pass
    row,       \* column total of the row of stats_minute, 0 when there is none
    repeats    \* keys that SCAN has returned twice so far

statVars == <<served, count, shipped, collector, row, repeats>>
logVars == <<pipeVars, statVars>>

Idle == [at |-> "idle", seen |-> {}, sum |-> 0]
Total(of) == SumFunction(of)

StatInit ==
    /\ served = [h \in Workers |-> 0] /\ count = [h \in Workers |-> 0]
    /\ shipped = [h \in Workers |-> 0]
    /\ collector = Idle /\ row = 0 /\ repeats = 0

\* run() counts every request and keeps the details of those worth looking at.
Request(h) ==
    /\ Total(served) < MaxRequests
    /\ served' = [served EXCEPT ![h] = @ + 1] /\ count' = [count EXCEPT ![h] = @ + 1]
    /\ Record(h) \/ UNCHANGED pipeVars
    /\ UNCHANGED <<shipped, collector, row, repeats>>

\* Mutant: HINCRBY in place of HSET.
FlushStatsAdding(h) ==
    /\ count[h] > 0
    /\ shipped[h] < 2 * MaxRequests
    /\ shipped' = [shipped EXCEPT ![h] = @ + count[h]]
    /\ UNCHANGED <<pipeVars, served, count, collector, row, repeats>>

\* flush_stats() sends the counter as it stands, again and again for three minutes.  A flush
\* that fails has sent it or not.
FlushStats(h) ==
    /\ count[h] > 0 /\ shipped[h] # count[h]
    /\ shipped' = [shipped EXCEPT ![h] = count[h]]
    /\ UNCHANGED <<pipeVars, served, count, collector, row, repeats>>

\* nginx reloads, and the shared dictionary stays; or it restarts, and the counter starts from
\* nothing, as it does when it expires.
NginxExits(h) ==
    /\ WorkerExits(h)
    /\ count' = [count EXCEPT ![h] = 0] \/ UNCHANGED count
    /\ UNCHANGED <<served, shipped, collector, row, repeats>>

\* The hash expires after two hours.
StatExpires(h) ==
    /\ shipped[h] > 0 /\ shipped' = [shipped EXCEPT ![h] = 0]
    /\ UNCHANGED <<pipeVars, served, count, collector, row, repeats>>

-----------------------------------------------------------------------------
(* consumer.go: collectStats *)

StartScan ==
    /\ collector = Idle /\ collector' = [collector EXCEPT !.at = "scan"]
    /\ UNCHANGED <<pipeVars, served, count, shipped, row, repeats>>

\* absorbStat adds a key that the scan returned to the minute's sum.  SCAN may return one
\* more than once.
AbsorbStat(h) ==
    /\ collector.at = "scan" /\ shipped[h] > 0
    /\ collector' = [collector EXCEPT !.seen = @ \cup {h}, !.sum = @ + shipped[h]]
    /\ IF h \in collector.seen THEN repeats < MaxRepeats /\ repeats' = repeats + 1
       ELSE UNCHANGED repeats
    /\ UNCHANGED <<pipeVars, served, count, shipped, row>>

\* Mutant: the row is overwritten.
UpsertStatLatest ==
    /\ collector.at = "scan" /\ collector.sum > 0
    /\ row' = collector.sum
    /\ collector' = Idle
    /\ UNCHANGED <<pipeVars, served, count, shipped, repeats>>

\* The scan is over, or a call of it failed; what was summed is written, with GREATEST.
UpsertStat ==
    /\ collector.at = "scan" /\ collector.sum > 0
    /\ row' = IF collector.sum > row THEN collector.sum ELSE row
    /\ collector' = Idle
    /\ UNCHANGED <<pipeVars, served, count, shipped, repeats>>

\* The pass ends with nothing written: no key was found, the database failed, moswafd stopped.
PassEnds ==
    /\ collector # Idle /\ collector' = Idle
    /\ UNCHANGED <<pipeVars, served, count, shipped, row, repeats>>

PurgeOldStats ==
    /\ row > 0 /\ row' = 0
    /\ UNCHANGED <<pipeVars, served, count, shipped, collector, repeats>>

ShipEvents ==
    /\ \/ \E w \in Workers : FlushStep(w)
       \/ DrainStep \/ DaemonStops \/ PurgeOldEvents
    /\ UNCHANGED statVars

RequestNext ==
    \/ \E h \in Workers :
          \/ Request(h) \/ FlushStats(h) \/ NginxExits(h) \/ StatExpires(h) \/ AbsorbStat(h)
    \/ StartScan \/ UpsertStat \/ PassEnds \/ PurgeOldStats
    \/ ShipEvents

RequestInit == PipeInit /\ StatInit

\* The timers of a worker are set again after each flush, and consumeEvents never stops.
RequestSpec ==
    /\ RequestInit /\ [][RequestNext]_logVars
    /\ \A w \in Workers : WF_logVars(FlushStep(w) /\ UNCHANGED statVars)
    /\ WF_logVars(DrainStep /\ UNCHANGED statVars)

-----------------------------------------------------------------------------
(* Properties. *)

LogTypeOK ==
    /\ PipeTypeOK
    /\ served \in [Workers -> 0..MaxRequests] /\ count \in [Workers -> 0..MaxRequests]
    /\ shipped \in [Workers -> 0..MaxRequests]
    /\ collector \in [at : {"idle", "scan"}, seen : SUBSET Workers, sum : Nat]
    /\ row \in Nat /\ repeats \in 0..MaxRepeats

\* The graph never shows more requests than were served, however often a counter is shipped,
\* whenever a host restarts and whatever part of a scan fails, as long as SCAN returns no key
\* twice (collectStats: "a minute's real total is the sum of the hosts that served it").
NeverOverstated == repeats = 0 => row <= Total(served)

\* A minute's figure does not fall when a host restarts or a scan ends early.
NeverFalls == [][row' >= row \/ PurgeOldStats]_logVars

-----------------------------------------------------------------------------
(* What they rest on. *)

\* What the flush of each worker has put into the list at most.
MayHavePushed == [w \in Workers |-> BufMax - Len(inflight[w])]

\* Neither a buffer nor the flush of one is longer than its limit.
WithinBuffer == \A w \in Workers : Len(buf[w]) <= BufMax /\ Len(inflight[w]) <= BufMax

\* The inductive invariant behind Bounded: what the list holds beyond its ceiling was put there
\* by flushes that have yet to trim it, or have failed.
CeilingInv ==
    /\ WithinBuffer
    /\ Len(queue) <= QueueMax + BufMax * faults + SumFunctionOnSet(MayHavePushed, flushing)

\* The inductive invariant behind NeverOverstated: no host's counter, and no copy of it, is
\* ahead of the host, and what a pass has summed was served by the hosts it has seen.
FigureInv ==
    /\ \A h \in Workers : count[h] <= served[h] /\ shipped[h] <= served[h]
    /\ repeats = 0 => collector.sum <= SumFunctionOnSet(served, collector.seen)
    /\ NeverOverstated
=============================================================================
