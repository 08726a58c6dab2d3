--------------------------- MODULE EventPipeline ---------------------------
(***************************************************************************)
(* The way of a security event from a worker to the database: the worker's *)
(* buffer (log.lua), the Redis list moswaf:events, the batch the control   *)
(* plane has popped (consumer.go) and the events table (events.go).  No    *)
(* step is repeated after a failure, so what fails is lost.                *)
(***************************************************************************)
EXTENDS Integers, Sequences, FiniteSets

CONSTANTS
    Workers,      \* nginx workers, each with a buffer of its own
    BufMax,       \* BUF_MAX: events a worker buffers between two flushes
    QueueMax,     \* QUEUE_MAX: events the Redis list is trimmed to
    BatchSize,    \* batchSize: events popped at once
    MaxRequests,  \* bound: requests that are logged
    MaxFaults     \* bound: failed calls, crashes and restarts

ASSUME PipelineAssumption ==
    /\ IsFiniteSet(Workers)
    /\ BufMax \in Nat /\ QueueMax \in Nat /\ BatchSize \in Nat \ {0}
    /\ MaxRequests \in Nat /\ MaxFaults \in Nat

VARIABLES
    made,      \* made[w]: requests of w that were worth an event
    buf,       \* buf[w]: events recorded since the last flush, oldest first
    inflight,  \* inflight[w]: what the running flush still has to push
    flushing,  \* the workers in the middle of flush_events
    queue,     \* the Redis list, oldest (right end) first
    batch,     \* what drain has popped and not yet inserted
    table,     \* the rows of the table events
    serial,    \* the last id given to a row
    faults     \* failures so far

pipeVars == <<made, buf, inflight, flushing, queue, batch, table, serial, faults>>

\* The n-th event of worker w.  Which one it is, is all the pipeline can get wrong.
Events == [w : Workers, n : 1..MaxRequests]
Rows == [id : Nat \ {0}, ev : Events]

Elems(s) == {s[i] : i \in DOMAIN s}
Fault == faults < MaxFaults /\ faults' = faults + 1

PipeInit ==
    /\ made = [w \in Workers |-> 0]
    /\ buf = [w \in Workers |-> <<>>] /\ inflight = [w \in Workers |-> <<>>]
    /\ flushing = {}
    /\ queue = <<>> /\ batch = <<>>
    /\ table = {} /\ serial = 0
    /\ faults = 0

-----------------------------------------------------------------------------
(* log.lua *)

\* Mutant: the limit is off by one.
RecordOneMore(w) ==
    LET e == [w |-> w, n |-> made[w] + 1] IN
    /\ made[w] < MaxRequests
    /\ made' = [made EXCEPT ![w] = @ + 1]
    /\ buf' = IF Len(buf[w]) > BufMax THEN buf ELSE [buf EXCEPT ![w] = Append(@, e)]
    /\ UNCHANGED <<inflight, flushing, queue, batch, table, serial, faults>>

\* run(): a request worth looking at goes into the buffer, or nowhere if that is full.
Record(w) ==
    LET e == [w |-> w, n |-> made[w] + 1] IN
    /\ made[w] < MaxRequests
    /\ made' = [made EXCEPT ![w] = @ + 1]
    /\ buf' = IF Len(buf[w]) >= BufMax THEN buf ELSE [buf EXCEPT ![w] = Append(@, e)]
    /\ UNCHANGED <<inflight, flushing, queue, batch, table, serial, faults>>

\* flush_events() empties the buffer before it has a connection: requests that end while it
\* waits go into the next batch.
TakeBuffer(w) ==
    /\ w \notin flushing /\ buf[w] # <<>>
    /\ flushing' = flushing \cup {w}
    /\ inflight' = [inflight EXCEPT ![w] = buf[w]] /\ buf' = [buf EXCEPT ![w] = <<>>]
    /\ UNCHANGED <<made, queue, batch, table, serial, faults>>

\* Mutant: the list is pushed to at the end it is popped from.
PushNextWrongEnd(w) ==
    /\ w \in flushing /\ inflight[w] # <<>>
    /\ queue' = <<Head(inflight[w])>> \o queue
    /\ inflight' = [inflight EXCEPT ![w] = Tail(@)]
    /\ UNCHANGED <<made, buf, flushing, batch, table, serial, faults>>

\* The commands of a pipeline are executed one by one, others in between.
PushNext(w) ==
    /\ w \in flushing /\ inflight[w] # <<>>
    /\ queue' = Append(queue, Head(inflight[w]))
    /\ inflight' = [inflight EXCEPT ![w] = Tail(@)]
    /\ UNCHANGED <<made, buf, flushing, batch, table, serial, faults>>

\* LTRIM keeps the newest QUEUE_MAX.
TrimQueue(w) ==
    /\ w \in flushing /\ inflight[w] = <<>>
    /\ queue' = IF Len(queue) > QueueMax
                THEN SubSeq(queue, Len(queue) - QueueMax + 1, Len(queue)) ELSE queue
    /\ flushing' = flushing \ {w}
    /\ UNCHANGED <<made, buf, inflight, batch, table, serial, faults>>

\* No connection, or one that is lost in the middle: what has not been executed is dropped.
FlushFails(w) ==
    /\ w \in flushing /\ Fault
    /\ flushing' = flushing \ {w}
    /\ inflight' = [inflight EXCEPT ![w] = <<>>]
    /\ UNCHANGED <<made, buf, queue, batch, table, serial>>

\* The worker exits (nginx reloads or dies): its timers run no more, its buffer goes with it.
WorkerExits(w) ==
    /\ Fault
    /\ flushing' = flushing \ {w}
    /\ inflight' = [inflight EXCEPT ![w] = <<>>] /\ buf' = [buf EXCEPT ![w] = <<>>]
    /\ UNCHANGED <<made, queue, batch, table, serial>>

-----------------------------------------------------------------------------
(* consumer.go, events.go *)

\* Mutant: only whole batches are popped.
PopWhole ==
    /\ batch = <<>> /\ Len(queue) >= BatchSize
    /\ queue' = SubSeq(queue, BatchSize + 1, Len(queue)) /\ batch' = SubSeq(queue, 1, BatchSize)
    /\ UNCHANGED <<made, buf, inflight, flushing, table, serial, faults>>

\* RPOP with a count: up to batchSize of the oldest leave the list.  They may leave it for
\* nobody, when the connection is lost after the command was executed.
Pop ==
    /\ batch = <<>> /\ queue # <<>>
    /\ LET n == IF Len(queue) < BatchSize THEN Len(queue) ELSE BatchSize IN
       /\ queue' = SubSeq(queue, n + 1, Len(queue))
       /\ \/ batch' = SubSeq(queue, 1, n) /\ UNCHANGED faults
          \/ Fault /\ UNCHANGED batch
    /\ UNCHANGED <<made, buf, inflight, flushing, table, serial>>

Inserted == table \cup {[id |-> serial + i, ev |-> batch[i]] : i \in DOMAIN batch}

\* Mutant: a batch whose insert failed is put back into the list.
InsertEventsAgain ==
    /\ batch # <<>>
    /\ \/ table' = Inserted /\ serial' = serial + Len(batch) /\ UNCHANGED <<faults, queue>>
       \/ /\ Fault /\ queue' = batch \o queue
          /\ \/ table' = Inserted /\ serial' = serial + Len(batch)
             \/ UNCHANGED <<table, serial>>
    /\ batch' = <<>>
    /\ UNCHANGED <<made, buf, inflight, flushing>>

\* COPY inserts all of the batch or none of it.  After an error, even one that came after the
\* rows were committed, drain goes on with the next batch.
InsertEvents ==
    /\ batch # <<>>
    /\ \/ table' = Inserted /\ serial' = serial + Len(batch) /\ UNCHANGED faults
       \/ /\ Fault
          /\ \/ table' = Inserted /\ serial' = serial + Len(batch)
             \/ UNCHANGED <<table, serial>>
    /\ batch' = <<>>
    /\ UNCHANGED <<made, buf, inflight, flushing, queue>>

\* moswafd stops between the two.
DaemonStops ==
    /\ batch # <<>> /\ Fault
    /\ batch' = <<>>
    /\ UNCHANGED <<made, buf, inflight, flushing, queue, table, serial>>

\* The janitor deletes what is older than the retention: of every worker the oldest few.
PurgeOldEvents ==
    /\ \E until \in [Workers -> 0..MaxRequests] :
          table' = {r \in table : r.ev.n > until[r.ev.w]}
    /\ UNCHANGED <<made, buf, inflight, flushing, queue, batch, serial, faults>>

FlushStep(w) == TakeBuffer(w) \/ PushNext(w) \/ TrimQueue(w) \/ FlushFails(w)
DrainStep == Pop \/ InsertEvents

PipeNext ==
    \/ \E w \in Workers : Record(w) \/ FlushStep(w) \/ WorkerExits(w)
    \/ DrainStep \/ DaemonStops \/ PurgeOldEvents

PipeSpec == PipeInit /\ [][PipeNext]_pipeVars

-----------------------------------------------------------------------------
(* Properties. *)

PipeTypeOK ==
    /\ made \in [Workers -> 0..MaxRequests]
    /\ buf \in [Workers -> Seq(Events)] /\ inflight \in [Workers -> Seq(Events)]
    /\ flushing \in SUBSET Workers
    /\ queue \in Seq(Events) /\ batch \in Seq(Events)
    /\ table \in SUBSET Rows /\ serial \in Nat
    /\ faults \in 0..MaxFaults

InPipe(e) ==
    \/ \E w \in Workers : e \in Elems(buf[w]) \cup Elems(inflight[w])
    \/ e \in Elems(queue) \cup Elems(batch)

Stored(e) == {r \in table : r.ev = e}

\* The refinement mapping: where an event is.  A second row would be no fate at all.
FateOf(e) ==
    IF \E r1, r2 \in Stored(e) : r1 # r2 THEN "twice"
    ELSE IF InPipe(e) THEN "pending"
    ELSE IF Stored(e) # {} THEN "logged"
    ELSE IF e.n > made[e.w] THEN "new" ELSE "gone"

Log == INSTANCE EventLog WITH fate <- [e \in Events |-> FateOf(e)]

\* Every event is written to the table at most once, and one that was lost or pruned does not
\* come back, whatever fails between the buffer, the list, the batch and the table.
ImplementsEventLog == Log!LogSpec

\* The rows of one worker get their ids in the order of its requests, which is what the event
\* list goes by within one second (ListEvents: "ORDER BY ts DESC, id DESC").
StoredInOrder ==
    \A r1, r2 \in table : r1.ev.w = r2.ev.w /\ r1.ev.n < r2.ev.n => r1.id < r2.id

\* The ceilings hold while flushes of several workers interleave: a buffer never exceeds its
\* own, and the list exceeds its own only by what is pushed and not yet trimmed, by the
\* flushes that are running and by those that failed (log.lua: "keeps the queue from growing
\* without bound if the control plane dies").
Bounded ==
    /\ \A w \in Workers : Len(buf[w]) <= BufMax
    /\ Len(queue) <= QueueMax + BufMax * (Cardinality(flushing) + faults)

\* Nothing gets stuck on the way: a recorded event is stored or lost in the end.
EventsSettle == \A e \in Events : InPipe(e) ~> ~InPipe(e)
=============================================================================
