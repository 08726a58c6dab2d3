-------------------------- MODULE RequestLogProofs --------------------------
(***************************************************************************)
(* Proofs about the way of events into the database, for any number of     *)
(* workers, requests and failures and any sizes of buffer, list and batch. *)
(* Along the way - table, batch, list, flush, buffer - the events of one   *)
(* worker are always in the order of its requests.  That one fact says at  *)
(* once that rows are in order and that no event is in two places, so that *)
(* none is stored twice and none that has left the way comes back.         *)
(***************************************************************************)
EXTENDS RequestLog, SequenceTheorems, FiniteSetTheorems, WellFoundedInduction, TLAPS

\* The events of one worker are in order within a sequence, and between two places.
Ordered(s) == \A i, j \in DOMAIN s : i < j /\ s[i].w = s[j].w => s[i].n < s[j].n
Before(A, B) == \A a \in A, b \in B : a.w = b.w => a.n < b.n

-----------------------------------------------------------------------------
(* Sequences *)

LEMMA ElemsIn == ASSUME NEW S, NEW s \in Seq(S) PROVE Elems(s) \subseteq S
BY DEF Elems

LEMMA EmptyFacts == Elems(<<>>) = {} /\ Ordered(<<>>)
BY DEF Elems, Ordered

LEMMA AppendFacts ==
    ASSUME NEW S, NEW s \in Seq(S), NEW e \in S, Ordered(s), Before(Elems(s), {e})
    PROVE  /\ Append(s, e) \in Seq(S)
           /\ Elems(Append(s, e)) = Elems(s) \cup {e}
           /\ Ordered(Append(s, e))
<1>1. /\ Append(s, e) \in Seq(S) /\ Len(Append(s, e)) = Len(s) + 1 /\ Len(s) \in Nat
      /\ \A i \in 1..Len(s) : Append(s, e)[i] = s[i]
      /\ Append(s, e)[Len(s) + 1] = e
      /\ DOMAIN s = 1..Len(s) /\ DOMAIN Append(s, e) = 1..(Len(s) + 1)
  OBVIOUS
<1>2. Elems(Append(s, e)) = Elems(s) \cup {e}
  BY <1>1 DEF Elems
<1>3. Ordered(Append(s, e))
  <2> SUFFICES ASSUME NEW i \in 1..(Len(s) + 1), NEW j \in 1..(Len(s) + 1), i < j,
                      Append(s, e)[i].w = Append(s, e)[j].w
               PROVE  Append(s, e)[i].n < Append(s, e)[j].n
    BY <1>1 DEF Ordered
  <2>1. i \in 1..Len(s) /\ Append(s, e)[i] = s[i] /\ s[i] \in Elems(s)
    BY <1>1 DEF Elems
  <2>2. CASE j = Len(s) + 1
    BY <1>1, <2>1, <2>2 DEF Before
  <2>3. CASE j \in 1..Len(s)
    BY <1>1, <2>1, <2>3 DEF Ordered
  <2> QED BY <1>1, <2>2, <2>3
<1> QED BY <1>1, <1>2, <1>3

LEMMA TailFacts ==
    ASSUME NEW S, NEW s \in Seq(S), s # <<>>, Ordered(s)
    PROVE  /\ Tail(s) \in Seq(S) /\ Head(s) \in S /\ Head(s) \in Elems(s)
           /\ Elems(Tail(s)) \subseteq Elems(s)
           /\ Ordered(Tail(s)) /\ Before({Head(s)}, Elems(Tail(s)))
<1>1. /\ Len(s) \in Nat \ {0} /\ Tail(s) \in Seq(S) /\ Len(Tail(s)) = Len(s) - 1
      /\ \A i \in 1..(Len(s) - 1) : Tail(s)[i] = s[i + 1]
      /\ Head(s) = s[1] /\ DOMAIN s = 1..Len(s) /\ DOMAIN Tail(s) = 1..(Len(s) - 1)
  OBVIOUS
<1>2. Head(s) \in S /\ Head(s) \in Elems(s) /\ Elems(Tail(s)) \subseteq Elems(s)
  BY <1>1 DEF Elems
<1>3. Ordered(Tail(s))
  BY <1>1 DEF Ordered
<1>4. Before({Head(s)}, Elems(Tail(s)))
  BY <1>1 DEF Ordered, Before, Elems
<1> QED BY <1>1, <1>2, <1>3, <1>4

LEMMA SubSeqFacts ==
    ASSUME NEW S, NEW s \in Seq(S), NEW m \in 1..(Len(s) + 1), NEW n \in 0..Len(s), Ordered(s)
    PROVE  /\ SubSeq(s, m, n) \in Seq(S)
           /\ \A e \in Elems(SubSeq(s, m, n)) : \E i \in m..n : e = s[i]
           /\ Elems(SubSeq(s, m, n)) \subseteq Elems(s)
           /\ Ordered(SubSeq(s, m, n))
<1> DEFINE t == SubSeq(s, m, n)
<1>1. /\ Len(s) \in Nat /\ DOMAIN s = 1..Len(s)
      /\ m \in Int /\ n \in Int /\ 1 <= m /\ n <= Len(s)
  OBVIOUS
<1>2. /\ t \in Seq(S)
      /\ Len(t) = IF m <= n THEN n - m + 1 ELSE 0
      /\ \A i \in 1..(n - m + 1) : t[i] = s[m + i - 1]
  BY <1>1, SubSeqProperties
<1>3. DOMAIN t = 1..(n - m + 1)
  BY <1>1, <1>2
<1>4. \A e \in Elems(t) : \E i \in m..n : e = s[i]
  BY <1>1, <1>2, <1>3 DEF Elems
<1>5. Elems(t) \subseteq Elems(s)
  BY <1>1, <1>4 DEF Elems
<1>6. Ordered(t)
  <2> SUFFICES ASSUME NEW i \in DOMAIN t, NEW j \in DOMAIN t, i < j, t[i].w = t[j].w
               PROVE  t[i].n < t[j].n
    BY DEF Ordered
  <2>1. t[i] = s[m + i - 1] /\ t[j] = s[m + j - 1] /\ m + i - 1 \in DOMAIN s /\ m + j - 1 \in DOMAIN s
    BY <1>1, <1>2, <1>3
  <2>2. m + i - 1 < m + j - 1
    BY <1>1, <1>3
  <2> QED BY <2>1, <2>2 DEF Ordered
<1> QED BY <1>2, <1>4, <1>5, <1>6

-----------------------------------------------------------------------------
(* The invariant *)

InTable == {r.ev : r \in table}

\* What has left its worker.
Old == InTable \cup Elems(batch) \cup Elems(queue)

\* What is still with it.
With(w) == Elems(inflight[w]) \cup Elems(buf[w])

PlacesOrdered ==
    /\ Ordered(queue) /\ Ordered(batch)
    /\ \A w \in Workers : Ordered(inflight[w]) /\ Ordered(buf[w])

WayOrdered ==
    /\ Before(InTable, Elems(batch)) /\ Before(InTable, Elems(queue))
    /\ Before(Elems(batch), Elems(queue))
    /\ \A w \in Workers : Before(Old, With(w)) /\ Before(Elems(inflight[w]), Elems(buf[w]))

OwnEvents == \A w \in Workers : \A e \in With(w) : e.w = w

AllMade ==
    /\ \A e \in Old : e.n <= made[e.w]
    /\ \A w \in Workers : \A e \in With(w) : e.n <= made[e.w]

OneRowEach ==
    /\ \A r1, r2 \in table : r1.ev = r2.ev => r1 = r2
    /\ \A r \in table : r.id <= serial

\* The inductive invariant.
PipeInv ==
    /\ PipeTypeOK
    /\ PlacesOrdered /\ WayOrdered /\ OwnEvents /\ AllMade
    /\ OneRowEach /\ StoredInOrder

\* An event that is on the way was there or has just been made, one that is stored was on the
\* way or stored.
OnlyForward ==
    \A e \in Events :
        /\ InPipe(e)' => InPipe(e) \/ e.n > made[e.w]
        /\ e \in InTable' => InPipe(e) \/ e \in InTable
        /\ made[e.w] <= made'[e.w]

LEMMA FaultType ==
    ASSUME faults \in 0..MaxFaults, Fault \/ UNCHANGED faults PROVE faults' \in 0..MaxFaults
BY PipelineAssumption DEF Fault

\* Everything on the way is an event.
LEMMA PlaceTypes ==
    ASSUME PipeTypeOK
    PROVE  /\ Old \subseteq Events /\ InTable \subseteq Events
           /\ Elems(batch) \subseteq Events /\ Elems(queue) \subseteq Events
           /\ \A w \in Workers : With(w) \subseteq Events
<1>1. InTable \subseteq Events
  BY DEF InTable, PipeTypeOK, Rows
<1>2. Elems(batch) \subseteq Events /\ Elems(queue) \subseteq Events
  BY ElemsIn DEF PipeTypeOK
<1>3. \A w \in Workers : With(w) \subseteq Events
  BY ElemsIn DEF PipeTypeOK, With
<1> QED BY <1>1, <1>2, <1>3 DEF Old

\* The numbers of events can be compared.
LEMMA EventNumbers ==
    ASSUME NEW e \in Events PROVE e.n \in Nat /\ e.w \in Workers
BY PipelineAssumption DEF Events

LEMMA InitInv == ASSUME PipeInit PROVE PipeInv
<1>1. PipeTypeOK
  BY PipelineAssumption DEF PipeInit, PipeTypeOK
<1>2. /\ InTable = {} /\ Elems(batch) = {} /\ Elems(queue) = {}
      /\ \A w \in Workers : inflight[w] = <<>> /\ buf[w] = <<>>
  BY EmptyFacts DEF PipeInit, InTable
<1>3. Old = {} /\ \A w \in Workers : With(w) = {} /\ Elems(inflight[w]) = {}
  BY <1>2, EmptyFacts DEF Old, With
<1>4. PlacesOrdered
  BY <1>2, EmptyFacts DEF PipeInit, PlacesOrdered
<1>5. WayOrdered /\ OwnEvents /\ AllMade
  BY <1>2, <1>3 DEF WayOrdered, OwnEvents, AllMade, Before
<1>6. OneRowEach /\ StoredInOrder
  BY DEF PipeInit, OneRowEach, StoredInOrder
<1> QED BY <1>1, <1>4, <1>5, <1>6 DEF PipeInv

\* A step that only loses things keeps the invariant.
LEMMA LosingKeeps ==
    ASSUME PipeInv, PipeTypeOK', PlacesOrdered', UNCHANGED <<made, serial>>,
           table' \subseteq table,
           Elems(batch)' \subseteq Elems(batch), Elems(queue)' \subseteq Elems(queue),
           \A w \in Workers : Elems(inflight[w])' \subseteq Elems(inflight[w]),
           \A w \in Workers : Elems(buf[w])' \subseteq Elems(buf[w])
    PROVE  PipeInv' /\ OnlyForward
<1>1. InTable' \subseteq InTable
  BY DEF InTable
<1>2. Old' \subseteq Old /\ \A w \in Workers : With(w)' \subseteq With(w)
  BY <1>1 DEF Old, With
<1>3. WayOrdered'
  BY <1>1, <1>2 DEF PipeInv, WayOrdered, Before
<1>4. OwnEvents' /\ AllMade'
  BY <1>2 DEF PipeInv, OwnEvents, AllMade
<1>5. OneRowEach' /\ StoredInOrder'
  BY DEF PipeInv, OneRowEach, StoredInOrder
<1>6. OnlyForward
  <2> SUFFICES ASSUME NEW e \in Events
               PROVE  /\ InPipe(e)' => InPipe(e)
                      /\ e \in InTable' => e \in InTable
                      /\ made[e.w] <= made'[e.w]
    BY DEF OnlyForward
  <2>1. InPipe(e)' => InPipe(e)
    BY DEF InPipe
  <2>2. made[e.w] <= made'[e.w]
    BY EventNumbers, PipelineAssumption DEF PipeInv, PipeTypeOK
  <2> QED BY <1>1, <2>1, <2>2
<1> QED BY <1>3, <1>4, <1>5, <1>6 DEF PipeInv

-----------------------------------------------------------------------------
(* One lemma per step *)

\* A new event comes after everything its worker has made.
LEMMA RecordKeeps == ASSUME PipeInv, NEW w \in Workers, Record(w) PROVE PipeInv' /\ OnlyForward
<1> DEFINE e == [w |-> w, n |-> made[w] + 1]
<1>1. /\ made[w] \in 0..MaxRequests /\ made[w] < MaxRequests
      /\ made' = [made EXCEPT ![w] = made[w] + 1]
      /\ buf' = buf \/ buf' = [buf EXCEPT ![w] = Append(buf[w], e)]
      /\ UNCHANGED <<inflight, flushing, queue, batch, table, serial, faults>>
  BY DEF Record, PipeInv, PipeTypeOK
<1>2. e \in Events /\ made' \in [Workers -> 0..MaxRequests]
  BY <1>1, PipelineAssumption DEF Events, PipeInv, PipeTypeOK
<1>3. \A v \in Workers : made[v] \in Nat /\ made'[v] \in Nat /\ made[v] <= made'[v]
  BY <1>1, PipelineAssumption DEF PipeInv, PipeTypeOK
<1>4. \A x \in Old \cup With(w) : x.n \in Nat /\ (x.w = w => x.n < e.n)
  <2> SUFFICES ASSUME NEW x \in Old \cup With(w) PROVE x.n \in Nat /\ (x.w = w => x.n < e.n)
    OBVIOUS
  <2>1. x \in Events
    BY PlaceTypes DEF PipeInv
  <2>2. x.n \in Nat /\ x.n <= made[x.w]
    BY <2>1, EventNumbers DEF PipeInv, AllMade
  <2> QED BY <1>3, <2>2
<1>5. Before(Old, {e}) /\ Before(Elems(inflight[w]), {e}) /\ Before(Elems(buf[w]), {e})
  BY <1>4 DEF Before, With
<1>6. /\ Append(buf[w], e) \in Seq(Events) /\ Elems(Append(buf[w], e)) = Elems(buf[w]) \cup {e}
      /\ Ordered(Append(buf[w], e))
  <2>1. buf[w] \in Seq(Events) /\ Ordered(buf[w])
    BY DEF PipeInv, PipeTypeOK, PlacesOrdered
  <2> HIDE DEF e
  <2> QED BY <1>2, <1>5, <2>1, AppendFacts
<1>7. PipeTypeOK'
  BY <1>1, <1>2, <1>6 DEF PipeInv, PipeTypeOK
<1>8. /\ \A v \in Workers \ {w} : buf'[v] = buf[v]
      /\ buf'[w] = buf[w] \/ buf'[w] = Append(buf[w], e)
      /\ Elems(buf'[w]) \subseteq Elems(buf[w]) \cup {e}
  BY <1>1, <1>6 DEF PipeInv, PipeTypeOK
<1>9. PlacesOrdered'
  BY <1>1, <1>6, <1>8 DEF PipeInv, PlacesOrdered
<1>10. Old' = Old /\ InTable' = InTable /\ (\A v \in Workers \ {w} : With(v)' = With(v))
       /\ With(w)' \subseteq With(w) \cup {e}
  BY <1>1, <1>8 DEF Old, InTable, With
<1>11. WayOrdered'
  <2>1. \A v \in Workers : Before(Old, With(v)')
    BY <1>5, <1>10 DEF PipeInv, WayOrdered, Before
  <2>2. \A v \in Workers : Before(Elems(inflight[v]), Elems(buf'[v]))
    BY <1>5, <1>8 DEF PipeInv, WayOrdered, Before
  <2> QED BY <1>1, <1>10, <2>1, <2>2 DEF PipeInv, WayOrdered
<1>12. OwnEvents'
  BY <1>10 DEF PipeInv, OwnEvents
<1>13. AllMade'
  <2>1. e.n <= made'[w]
    BY <1>1, <1>3 DEF PipeInv, PipeTypeOK
  <2>2. \A x \in Events : x.n <= made[x.w] => x.n <= made'[x.w]
    BY <1>3, EventNumbers
  <2>3. \A x \in Old : x.n <= made'[x.w]
    BY <2>2, PlaceTypes DEF PipeInv, AllMade
  <2>4. \A v \in Workers : \A x \in With(v) : x.n <= made'[x.w]
    BY <2>2, PlaceTypes DEF PipeInv, AllMade
  <2>5. \A v \in Workers : \A x \in With(v)' : x.n <= made'[x.w]
    BY <1>10, <2>1, <2>4
  <2> QED BY <1>10, <2>3, <2>5 DEF AllMade
<1>14. OneRowEach' /\ StoredInOrder'
  BY <1>1 DEF PipeInv, OneRowEach, StoredInOrder
<1>15. OnlyForward
  <2>1. e.n > made[e.w]
    BY <1>3
  <2>2. \A x \in Events : InPipe(x)' => InPipe(x) \/ x = e
    BY <1>1, <1>8 DEF InPipe
  <2>3. \A x \in Events : made[x.w] <= made'[x.w]
    BY <1>3, EventNumbers
  <2> QED BY <1>10, <2>1, <2>2, <2>3 DEF OnlyForward
<1> QED BY <1>7, <1>9, <1>11, <1>12, <1>13, <1>14, <1>15 DEF PipeInv

\* A flush takes the whole buffer; what it had not pushed before is gone.
LEMMA TakeBufferKeeps == ASSUME PipeInv, NEW w \in Workers, TakeBuffer(w) PROVE PipeInv' /\ OnlyForward
<1>1. /\ inflight' = [inflight EXCEPT ![w] = buf[w]] /\ buf' = [buf EXCEPT ![w] = <<>>]
      /\ flushing' = flushing \cup {w}
      /\ UNCHANGED <<made, queue, batch, table, serial, faults>>
  BY DEF TakeBuffer
<1>2. /\ inflight'[w] = buf[w] /\ buf'[w] = <<>>
      /\ \A v \in Workers \ {w} : inflight'[v] = inflight[v] /\ buf'[v] = buf[v]
  BY <1>1 DEF PipeInv, PipeTypeOK
<1>3. PipeTypeOK'
  BY <1>1 DEF PipeInv, PipeTypeOK
<1>4. PlacesOrdered'
  BY <1>1, <1>2, EmptyFacts DEF PipeInv, PlacesOrdered
<1>5. Old' = Old /\ InTable' = InTable
  BY <1>1 DEF Old, InTable
<1>6. \A v \in Workers : With(v)' \subseteq With(v)
  BY <1>2, EmptyFacts DEF With
<1>7. \A v \in Workers : Before(Elems(inflight'[v]), Elems(buf'[v]))
  BY <1>2, EmptyFacts DEF PipeInv, WayOrdered, Before
<1>8. WayOrdered'
  BY <1>1, <1>5, <1>6, <1>7 DEF PipeInv, WayOrdered, Before
<1>9. OwnEvents' /\ AllMade'
  BY <1>1, <1>5, <1>6 DEF PipeInv, OwnEvents, AllMade
<1>10. OneRowEach' /\ StoredInOrder'
  BY <1>1 DEF PipeInv, OneRowEach, StoredInOrder
<1>11. OnlyForward
  <2>1. \A x \in Events : InPipe(x)' => InPipe(x)
    BY <1>1, <1>2, EmptyFacts DEF InPipe
  <2>2. \A x \in Events : made[x.w] <= made'[x.w]
    BY <1>1, EventNumbers, PipelineAssumption DEF PipeInv, PipeTypeOK
  <2> QED BY <1>5, <2>1, <2>2 DEF OnlyForward
<1> QED BY <1>3, <1>4, <1>8, <1>9, <1>10, <1>11 DEF PipeInv

\* The oldest event of a flush goes to the end of the list.
LEMMA PushNextKeeps == ASSUME PipeInv, NEW w \in Workers, PushNext(w) PROVE PipeInv' /\ OnlyForward
<1> DEFINE e == Head(inflight[w])
<1>1. /\ inflight[w] # <<>> /\ inflight[w] \in Seq(Events)
      /\ queue' = Append(queue, e) /\ inflight' = [inflight EXCEPT ![w] = Tail(inflight[w])]
      /\ UNCHANGED <<made, buf, flushing, batch, table, serial, faults>>
  BY DEF PushNext, PipeInv, PipeTypeOK
<1>2. /\ Tail(inflight[w]) \in Seq(Events) /\ e \in Events /\ e \in Elems(inflight[w])
      /\ Elems(Tail(inflight[w])) \subseteq Elems(inflight[w])
      /\ Ordered(Tail(inflight[w])) /\ Before({e}, Elems(Tail(inflight[w])))
  BY <1>1, TailFacts DEF PipeInv, PlacesOrdered
<1>3. Before(Old, {e}) /\ e \in With(w) /\ e.w = w /\ e.n <= made[w]
  BY <1>2 DEF PipeInv, WayOrdered, Before, With, OwnEvents, AllMade
<1>4. /\ queue' \in Seq(Events) /\ Elems(queue') = Elems(queue) \cup {e} /\ Ordered(queue')
  <2>1. Before(Elems(queue), {e})
    BY <1>3 DEF Before, Old
  <2>2. queue \in Seq(Events) /\ Ordered(queue)
    BY DEF PipeInv, PipeTypeOK, PlacesOrdered
  <2>3. e \in Events /\ queue' = Append(queue, e)
    BY <1>1, <1>2
  <2> HIDE DEF e
  <2> QED BY <2>1, <2>2, <2>3, AppendFacts
<1>5. /\ inflight'[w] = Tail(inflight[w])
      /\ \A v \in Workers \ {w} : inflight'[v] = inflight[v]
  BY <1>1 DEF PipeInv, PipeTypeOK
<1>6. PipeTypeOK'
  BY <1>1, <1>2, <1>4 DEF PipeInv, PipeTypeOK
<1>7. PlacesOrdered'
  BY <1>1, <1>2, <1>4, <1>5 DEF PipeInv, PlacesOrdered
<1>8. Old' = Old \cup {e} /\ InTable' = InTable /\ (\A v \in Workers : With(v)' \subseteq With(v))
  BY <1>1, <1>2, <1>4, <1>5 DEF Old, InTable, With
<1>9. OwnEvents' /\ AllMade'
  BY <1>1, <1>3, <1>8 DEF PipeInv, OwnEvents, AllMade
<1>10. \A v \in Workers : Before({e}, With(v)')
  <2>1. Before({e}, Elems(buf[w]))
    BY <1>2 DEF PipeInv, WayOrdered, Before
  <2>2. Before({e}, With(w)')
    BY <1>1, <1>2, <1>5, <2>1 DEF With, Before
  <2>3. \A v \in Workers \ {w} : Before({e}, With(v)')
    BY <1>3, <1>8 DEF PipeInv, OwnEvents, Before
  <2> QED BY <2>2, <2>3
<1>11. WayOrdered'
  <2>1. Before(InTable, Elems(queue')) /\ Before(Elems(batch), Elems(queue'))
    BY <1>3, <1>4 DEF PipeInv, WayOrdered, Before, Old
  <2>2. \A v \in Workers : Before(Old', With(v)')
    BY <1>8, <1>10 DEF PipeInv, WayOrdered, Before
  <2>3. \A v \in Workers : Before(Elems(inflight'[v]), Elems(buf[v]))
    BY <1>2, <1>5 DEF PipeInv, WayOrdered, Before
  <2> QED BY <1>1, <1>8, <2>1, <2>2, <2>3 DEF PipeInv, WayOrdered
<1>12. OneRowEach' /\ StoredInOrder'
  BY <1>1 DEF PipeInv, OneRowEach, StoredInOrder
<1>13. OnlyForward
  <2>1. \A x \in Events : InPipe(x)' => InPipe(x)
    BY <1>1, <1>2, <1>4, <1>5 DEF InPipe
  <2>2. \A x \in Events : made[x.w] <= made'[x.w]
    BY <1>1, EventNumbers, PipelineAssumption DEF PipeInv, PipeTypeOK
  <2> QED BY <1>8, <2>1, <2>2 DEF OnlyForward
<1> QED BY <1>6, <1>7, <1>9, <1>11, <1>12, <1>13 DEF PipeInv

\* LTRIM drops the oldest of the list.
LEMMA TrimKeeps == ASSUME PipeInv, NEW w \in Workers, TrimQueue(w) PROVE PipeInv' /\ OnlyForward
<1>1. /\ flushing' = flushing \ {w} /\ UNCHANGED <<made, buf, inflight, batch, table, serial, faults>>
      /\ queue' = IF Len(queue) > QueueMax
                  THEN SubSeq(queue, Len(queue) - QueueMax + 1, Len(queue)) ELSE queue
      /\ queue \in Seq(Events) /\ Ordered(queue)
  BY DEF TrimQueue, PipeInv, PipeTypeOK, PlacesOrdered
<1>2. queue' \in Seq(Events) /\ Ordered(queue') /\ Elems(queue') \subseteq Elems(queue)
  <2>1. CASE Len(queue) > QueueMax
    <3>1. /\ Len(queue) - QueueMax + 1 \in 1..(Len(queue) + 1)
          /\ Len(queue) \in 0..Len(queue)
      BY <1>1, <2>1, PipelineAssumption
    <3> QED BY <1>1, <2>1, <3>1, SubSeqFacts
  <2>2. CASE ~(Len(queue) > QueueMax)
    BY <1>1, <2>2
  <2> QED BY <2>1, <2>2
<1>3. PipeTypeOK'
  BY <1>1, <1>2 DEF PipeInv, PipeTypeOK
<1>4. PlacesOrdered'
  BY <1>1, <1>2 DEF PipeInv, PlacesOrdered
<1> QED BY <1>1, <1>2, <1>3, <1>4, LosingKeeps

\* A flush that fails, and a worker that exits, lose what they hold.
LEMMA WorkerLosesKeeps ==
    ASSUME PipeInv, NEW w \in Workers, FlushFails(w) \/ WorkerExits(w)
    PROVE  PipeInv' /\ OnlyForward
<1>1. /\ flushing' = flushing \ {w} /\ UNCHANGED <<made, queue, batch, table, serial>>
      /\ faults' \in 0..MaxFaults
      /\ inflight' = [inflight EXCEPT ![w] = <<>>]
      /\ buf' = buf \/ buf' = [buf EXCEPT ![w] = <<>>]
  BY FaultType DEF FlushFails, WorkerExits, PipeInv, PipeTypeOK
<1>2. \A v \in Workers :
          /\ inflight'[v] = inflight[v] \/ inflight'[v] = <<>>
          /\ buf'[v] = buf[v] \/ buf'[v] = <<>>
  BY <1>1 DEF PipeInv, PipeTypeOK
<1>3. PipeTypeOK'
  <2>1. <<>> \in Seq(Events)
    OBVIOUS
  <2>2. inflight' \in [Workers -> Seq(Events)]
    BY <1>1, <2>1 DEF PipeInv, PipeTypeOK
  <2>3. buf' \in [Workers -> Seq(Events)]
    BY <1>1, <2>1 DEF PipeInv, PipeTypeOK
  <2> QED BY <1>1, <2>2, <2>3 DEF PipeInv, PipeTypeOK
<1>4. PlacesOrdered'
  BY <1>1, <1>2, EmptyFacts DEF PipeInv, PlacesOrdered
<1>5. \A v \in Workers : /\ Elems(inflight'[v]) \subseteq Elems(inflight[v])
                         /\ Elems(buf'[v]) \subseteq Elems(buf[v])
  BY <1>2, EmptyFacts
<1> QED BY <1>1, <1>3, <1>4, <1>5, LosingKeeps

\* What is popped comes before what stays.
LEMMA PopKeeps == ASSUME PipeInv, Pop PROVE PipeInv' /\ OnlyForward
<1> DEFINE n == IF Len(queue) < BatchSize THEN Len(queue) ELSE BatchSize
<1>1. /\ batch = <<>> /\ UNCHANGED <<made, buf, inflight, flushing, table, serial>>
      /\ queue' = SubSeq(queue, n + 1, Len(queue))
      /\ queue \in Seq(Events) /\ Ordered(queue) /\ Len(queue) \in Nat
      /\ \/ batch' = SubSeq(queue, 1, n) /\ UNCHANGED faults
         \/ Fault /\ UNCHANGED batch
  BY DEF Pop, PipeInv, PipeTypeOK, PlacesOrdered
<1>2. n \in 0..Len(queue) /\ n + 1 \in 1..(Len(queue) + 1) /\ Len(queue) \in 0..Len(queue)
      /\ 1 \in 1..(Len(queue) + 1)
  BY <1>1, PipelineAssumption
<1> HIDE DEF n
<1>3. /\ queue' \in Seq(Events) /\ Ordered(queue') /\ Elems(queue') \subseteq Elems(queue)
      /\ \A e \in Elems(queue') : \E i \in (n + 1)..Len(queue) : e = queue[i]
  BY <1>1, <1>2, SubSeqFacts
<1>4. CASE Fault /\ UNCHANGED batch
  <2>1. faults' \in 0..MaxFaults
    BY <1>4, FaultType DEF PipeInv, PipeTypeOK
  <2>2. PipeTypeOK'
    BY <1>1, <1>3, <1>4, <2>1 DEF PipeInv, PipeTypeOK
  <2>3. PlacesOrdered'
    BY <1>1, <1>3, <1>4 DEF PipeInv, PlacesOrdered
  <2> QED BY <1>1, <1>3, <1>4, <2>2, <2>3, LosingKeeps
<1>5. CASE batch' = SubSeq(queue, 1, n) /\ UNCHANGED faults
  <2>1. /\ batch' \in Seq(Events) /\ Ordered(batch') /\ Elems(batch') \subseteq Elems(queue)
        /\ \A e \in Elems(batch') : \E i \in 1..n : e = queue[i]
    BY <1>1, <1>2, <1>5, SubSeqFacts
  <2>2. Before(Elems(batch'), Elems(queue'))
    <3> SUFFICES ASSUME NEW a \in Elems(batch'), NEW b \in Elems(queue'), a.w = b.w
                 PROVE  a.n < b.n
      BY DEF Before
    <3>1. PICK i \in 1..n : a = queue[i]
      BY <2>1
    <3>2. PICK j \in (n + 1)..Len(queue) : b = queue[j]
      BY <1>3
    <3>3. i \in DOMAIN queue /\ j \in DOMAIN queue /\ i < j
      BY <1>1, <1>2
    <3> QED BY <1>1, <3>1, <3>2, <3>3 DEF Ordered
  <2>3. PipeTypeOK'
    BY <1>1, <1>3, <1>5, <2>1 DEF PipeInv, PipeTypeOK
  <2>4. PlacesOrdered'
    BY <1>1, <1>3, <2>1 DEF PipeInv, PlacesOrdered
  <2>5. Old' \subseteq Old /\ InTable' = InTable /\ (\A v \in Workers : With(v)' = With(v))
    BY <1>1, <1>3, <2>1 DEF Old, InTable, With
  <2>6. WayOrdered'
    BY <1>1, <1>3, <2>1, <2>2, <2>5 DEF PipeInv, WayOrdered, Before
  <2>7. OwnEvents' /\ AllMade'
    BY <1>1, <2>5 DEF PipeInv, OwnEvents, AllMade
  <2>8. OneRowEach' /\ StoredInOrder'
    BY <1>1 DEF PipeInv, OneRowEach, StoredInOrder
  <2>9. OnlyForward
    <3>1. \A x \in Events : InPipe(x)' => InPipe(x)
      BY <1>1, <1>3, <2>1 DEF InPipe
    <3>2. \A x \in Events : made[x.w] <= made'[x.w]
      BY <1>1, EventNumbers, PipelineAssumption DEF PipeInv, PipeTypeOK
    <3> QED BY <2>5, <3>1, <3>2 DEF OnlyForward
  <2> QED BY <2>3, <2>4, <2>6, <2>7, <2>8, <2>9 DEF PipeInv
<1> QED BY <1>1, <1>4, <1>5

\* A batch that is dropped, by a failed insert or because moswafd stops.
LEMMA DroppedKeeps ==
    ASSUME PipeInv, Fault, batch' = <<>>,
           UNCHANGED <<made, buf, inflight, flushing, queue, table, serial>>
    PROVE  PipeInv' /\ OnlyForward
<1>1. faults' \in 0..MaxFaults
  BY FaultType DEF PipeInv, PipeTypeOK
<1>2. PipeTypeOK'
  BY <1>1 DEF PipeInv, PipeTypeOK
<1>3. PlacesOrdered'
  BY EmptyFacts DEF PipeInv, PlacesOrdered
<1>4. Elems(batch') \subseteq Elems(batch)
  BY EmptyFacts
<1> QED BY <1>2, <1>3, <1>4, LosingKeeps

\* The rows of a batch come after all rows there are, and in the order of the batch.
LEMMA InsertedKeeps ==
    ASSUME PipeInv, batch' = <<>>, table' = Inserted, serial' = serial + Len(batch),
           Fault \/ UNCHANGED faults, UNCHANGED <<made, buf, inflight, flushing, queue>>
    PROVE  PipeInv' /\ OnlyForward
<1>1. /\ batch \in Seq(Events) /\ Ordered(batch) /\ Len(batch) \in Nat /\ serial \in Nat
      /\ DOMAIN batch = 1..Len(batch) /\ table \subseteq Rows /\ faults \in 0..MaxFaults
  BY DEF PipeInv, PipeTypeOK, PlacesOrdered
<1>2. \A r \in table' :
          r \in table \/ \E i \in 1..Len(batch) : r = [id |-> serial + i, ev |-> batch[i]]
  BY <1>1 DEF Inserted
<1>3. \A r \in table : r.id \in Nat /\ r.id <= serial /\ r.ev \in Events /\ r.ev \in InTable
  BY <1>1 DEF PipeInv, OneRowEach, InTable, Rows
<1>4. \A i \in 1..Len(batch) : batch[i] \in Events /\ batch[i] \in Elems(batch)
  BY <1>1 DEF Elems
<1>5. InTable' = InTable \cup Elems(batch)
  <2>1. \A x \in InTable' : x \in InTable \cup Elems(batch)
    <3> SUFFICES ASSUME NEW r \in table' PROVE r.ev \in InTable \cup Elems(batch)
      BY DEF InTable
    <3> QED BY <1>2, <1>3, <1>4
  <2>2. \A x \in InTable : x \in InTable'
    BY DEF InTable, Inserted
  <2>3. \A i \in 1..Len(batch) : batch[i] \in InTable'
    <3> SUFFICES ASSUME NEW i \in 1..Len(batch) PROVE batch[i] \in InTable'
      OBVIOUS
    <3>1. [id |-> serial + i, ev |-> batch[i]] \in table'
      BY <1>1 DEF Inserted
    <3>2. [id |-> serial + i, ev |-> batch[i]].ev = batch[i]
      OBVIOUS
    <3> QED BY <3>1, <3>2 DEF InTable
  <2>4. \A x \in Elems(batch) : x \in InTable'
    BY <1>1, <2>3 DEF Elems
  <2> QED BY <2>1, <2>2, <2>4
<1>6. PipeTypeOK'
  <2>1. faults' \in 0..MaxFaults
    BY <1>1, FaultType
  <2>2. table' \subseteq Rows
    BY <1>1, <1>2, <1>4 DEF Rows
  <2> QED BY <1>1, <2>1, <2>2 DEF PipeInv, PipeTypeOK
<1>7. PlacesOrdered'
  BY EmptyFacts DEF PipeInv, PlacesOrdered
<1>8. Elems(batch') = {} /\ Old' = Old /\ \A v \in Workers : With(v)' = With(v)
  BY <1>5, EmptyFacts DEF Old, With
<1>9. WayOrdered'
  BY <1>5, <1>8 DEF PipeInv, WayOrdered, Before
<1>10. OwnEvents' /\ AllMade'
  BY <1>8 DEF PipeInv, OwnEvents, AllMade
<1>11. ASSUME NEW r \in table, NEW i \in 1..Len(batch), r.ev.w = batch[i].w
       PROVE  r.ev.n < batch[i].n
  BY <1>3, <1>4, <1>11 DEF PipeInv, WayOrdered, Before
<1>12. ASSUME NEW i \in 1..Len(batch), NEW j \in 1..Len(batch), batch[i].w = batch[j].w
       PROVE  /\ batch[i].n < batch[j].n => i < j
              /\ batch[i] = batch[j] => i = j
  <2>1. batch[i].n \in Nat /\ batch[j].n \in Nat
    BY <1>4, EventNumbers
  <2>2. i < j => batch[i].n < batch[j].n
    BY <1>1, <1>12 DEF Ordered
  <2>3. j < i => batch[j].n < batch[i].n
    BY <1>1, <1>12 DEF Ordered
  <2> QED BY <2>1, <2>2, <2>3
<1>13. \A r \in table' : r.id <= serial'
  BY <1>1, <1>2, <1>3
<1>14. ASSUME NEW r1 \in table', NEW r2 \in table', r1.ev = r2.ev PROVE r1 = r2
  <2>1. CASE r1 \in table /\ r2 \in table
    BY <1>14, <2>1 DEF PipeInv, OneRowEach
  <2>2. ASSUME NEW r \in table, NEW i \in 1..Len(batch), r.ev = batch[i] PROVE FALSE
    <3>1. batch[i].n < batch[i].n
      BY <1>11, <2>2
    <3> QED BY <1>4, <3>1, EventNumbers
  <2>3. CASE r1 \notin table /\ r2 \notin table
    <3>1. PICK i \in 1..Len(batch) : r1 = [id |-> serial + i, ev |-> batch[i]]
      BY <1>2, <2>3
    <3>2. PICK j \in 1..Len(batch) : r2 = [id |-> serial + j, ev |-> batch[j]]
      BY <1>2, <2>3
    <3>3. batch[i] = batch[j]
      BY <1>14, <3>1, <3>2
    <3> QED BY <1>12, <3>1, <3>2, <3>3
  <2>4. CASE r1 \in table /\ r2 \notin table
    <3>1. PICK i \in 1..Len(batch) : r2 = [id |-> serial + i, ev |-> batch[i]]
      BY <1>2, <2>4
    <3> QED BY <1>14, <2>2, <2>4, <3>1
  <2>5. CASE r1 \notin table /\ r2 \in table
    <3>1. PICK i \in 1..Len(batch) : r1 = [id |-> serial + i, ev |-> batch[i]]
      BY <1>2, <2>5
    <3> QED BY <1>14, <2>2, <2>5, <3>1
  <2> QED BY <2>1, <2>3, <2>4, <2>5
<1>15. ASSUME NEW r1 \in table', NEW r2 \in table', r1.ev.w = r2.ev.w, r1.ev.n < r2.ev.n
       PROVE  r1.id < r2.id
  <2>1. CASE r1 \in table /\ r2 \in table
    BY <1>15, <2>1 DEF PipeInv, StoredInOrder
  <2>2. CASE r1 \notin table /\ r2 \notin table
    <3>1. PICK i \in 1..Len(batch) : r1 = [id |-> serial + i, ev |-> batch[i]]
      BY <1>2, <2>2
    <3>2. PICK j \in 1..Len(batch) : r2 = [id |-> serial + j, ev |-> batch[j]]
      BY <1>2, <2>2
    <3>3. batch[i].w = batch[j].w /\ batch[i].n < batch[j].n
      BY <1>15, <3>1, <3>2
    <3>4. i < j
      BY <1>12, <3>3
    <3> QED BY <1>1, <3>1, <3>2, <3>4
  <2>3. CASE r1 \in table /\ r2 \notin table
    <3>1. PICK i \in 1..Len(batch) : r2 = [id |-> serial + i, ev |-> batch[i]]
      BY <1>2, <2>3
    <3> QED BY <1>1, <1>3, <2>3, <3>1
  <2>4. CASE r1 \notin table /\ r2 \in table
    <3>1. PICK i \in 1..Len(batch) : r1 = [id |-> serial + i, ev |-> batch[i]]
      BY <1>2, <2>4
    <3>2. r2.ev.n < batch[i].n /\ batch[i].n < r2.ev.n
      BY <1>11, <1>15, <2>4, <3>1
    <3>3. r2.ev.n \in Nat /\ batch[i].n \in Nat
      BY <1>3, <1>4, <2>4, EventNumbers
    <3> QED BY <3>2, <3>3
  <2> QED BY <2>1, <2>2, <2>3, <2>4
<1>16. OneRowEach'
  BY <1>13, <1>14 DEF OneRowEach
<1>17. StoredInOrder'
  BY <1>15 DEF StoredInOrder
<1>18. OnlyForward
  <2>1. \A x \in Events : InPipe(x)' => InPipe(x)
    BY <1>8 DEF InPipe
  <2>2. \A x \in Events : x \in InTable' => InPipe(x) \/ x \in InTable
    BY <1>5 DEF InPipe
  <2>3. \A x \in Events : made[x.w] <= made'[x.w]
    BY EventNumbers, PipelineAssumption DEF PipeInv, PipeTypeOK
  <2> QED BY <2>1, <2>2, <2>3 DEF OnlyForward
<1> QED BY <1>6, <1>7, <1>9, <1>10, <1>16, <1>17, <1>18 DEF PipeInv

\* The janitor only deletes.
LEMMA PurgeKeeps == ASSUME PipeInv, PurgeOldEvents PROVE PipeInv' /\ OnlyForward
<1>1. table' \subseteq table /\ UNCHANGED <<made, buf, inflight, flushing, queue, batch, serial, faults>>
  BY DEF PurgeOldEvents
<1>2. PipeTypeOK'
  BY <1>1 DEF PipeInv, PipeTypeOK
<1>3. PlacesOrdered'
  BY <1>1 DEF PipeInv, PlacesOrdered
<1> QED BY <1>1, <1>2, <1>3, LosingKeeps

LEMMA StutterKeeps == ASSUME PipeInv, UNCHANGED pipeVars PROVE PipeInv' /\ OnlyForward
<1>1. PipeTypeOK'
  BY DEF PipeInv, PipeTypeOK, pipeVars
<1>2. PlacesOrdered'
  BY DEF PipeInv, PlacesOrdered, pipeVars
<1> QED BY <1>1, <1>2, LosingKeeps DEF pipeVars

LEMMA PipeStep == ASSUME PipeInv, [PipeNext]_pipeVars PROVE PipeInv' /\ OnlyForward
<1>1. ASSUME NEW w \in Workers, Record(w) PROVE PipeInv' /\ OnlyForward
  BY <1>1, RecordKeeps
<1>2. ASSUME NEW w \in Workers, FlushStep(w) PROVE PipeInv' /\ OnlyForward
  BY <1>2, TakeBufferKeeps, PushNextKeeps, TrimKeeps, WorkerLosesKeeps DEF FlushStep
<1>3. ASSUME NEW w \in Workers, WorkerExits(w) PROVE PipeInv' /\ OnlyForward
  BY <1>3, WorkerLosesKeeps
<1>4. ASSUME InsertEvents PROVE PipeInv' /\ OnlyForward
  <2>1. /\ batch' = <<>> /\ UNCHANGED <<made, buf, inflight, flushing, queue>>
        /\ \/ table' = Inserted /\ serial' = serial + Len(batch) /\ (Fault \/ UNCHANGED faults)
           \/ Fault /\ UNCHANGED <<table, serial>>
    BY <1>4 DEF InsertEvents
  <2> QED BY <2>1, InsertedKeeps, DroppedKeeps
<1>5. ASSUME DrainStep PROVE PipeInv' /\ OnlyForward
  BY <1>4, <1>5, PopKeeps DEF DrainStep
<1>6. ASSUME DaemonStops PROVE PipeInv' /\ OnlyForward
  BY <1>6, DroppedKeeps DEF DaemonStops
<1>7. ASSUME PurgeOldEvents PROVE PipeInv' /\ OnlyForward
  BY <1>7, PurgeKeeps
<1>8. ASSUME UNCHANGED pipeVars PROVE PipeInv' /\ OnlyForward
  BY <1>8, StutterKeeps
<1> QED BY <1>1, <1>2, <1>3, <1>5, <1>6, <1>7, <1>8 DEF PipeNext

\* The counters leave the pipeline alone.
LEMMA RequestIsPipeStep == ASSUME [RequestNext]_logVars PROVE [PipeNext]_pipeVars
<1>1. ASSUME NEW h \in Workers,
             Request(h) \/ FlushStats(h) \/ NginxExits(h) \/ StatExpires(h) \/ AbsorbStat(h)
      PROVE  [PipeNext]_pipeVars
  BY <1>1 DEF Request, FlushStats, NginxExits, StatExpires, AbsorbStat, PipeNext
<1>2. ASSUME StartScan \/ UpsertStat \/ PassEnds \/ PurgeOldStats PROVE [PipeNext]_pipeVars
  BY <1>2 DEF StartScan, UpsertStat, PassEnds, PurgeOldStats
<1>3. ASSUME ShipEvents PROVE [PipeNext]_pipeVars
  BY <1>3 DEF ShipEvents, PipeNext
<1> QED BY <1>1, <1>2, <1>3 DEF RequestNext, logVars

-----------------------------------------------------------------------------
(* The refinement *)

\* With the invariant an event has one fate, and which one can be told from three facts.
FatesTold ==
    \A e \in Events :
        /\ InPipe(e) => FateOf(e) = "pending" /\ e \notin InTable /\ e.n <= made[e.w]
        /\ ~InPipe(e) /\ e \in InTable => FateOf(e) = "logged" /\ e.n <= made[e.w]
        /\ ~InPipe(e) /\ e \notin InTable =>
             FateOf(e) = IF e.n > made[e.w] THEN "new" ELSE "gone"

LEMMA OneFate == PipeInv => FatesTold
<1> SUFFICES ASSUME PipeInv, NEW e \in Events
             PROVE  /\ InPipe(e) => FateOf(e) = "pending" /\ e \notin InTable /\ e.n <= made[e.w]
                    /\ ~InPipe(e) /\ e \in InTable => FateOf(e) = "logged" /\ e.n <= made[e.w]
                    /\ ~InPipe(e) /\ e \notin InTable =>
                         FateOf(e) = IF e.n > made[e.w] THEN "new" ELSE "gone"
  BY DEF FatesTold
<1>1. ~ \E r1, r2 \in Stored(e) : r1 # r2
  BY DEF Stored, PipeInv, OneRowEach
<1>2. Stored(e) # {} <=> e \in InTable
  BY DEF Stored, InTable
<1>3. InPipe(e) <=> e \in Elems(queue) \cup Elems(batch) \/ \E w \in Workers : e \in With(w)
  BY DEF InPipe, With
<1>4. InPipe(e) \/ e \in InTable => e.n <= made[e.w]
  BY <1>3 DEF PipeInv, AllMade, Old
<1>5. ASSUME InPipe(e), e \in InTable PROVE FALSE
  <2>1. e.n < e.n
    BY <1>3, <1>5 DEF PipeInv, WayOrdered, Before, Old
  <2> QED BY <2>1, EventNumbers
<1> QED BY <1>1, <1>2, <1>4, <1>5 DEF FateOf

LEMMA InitRefines == PipeInit => Log!LogInit
<1> SUFFICES ASSUME PipeInit PROVE Log!LogInit
  OBVIOUS
<1>1. FatesTold
  BY InitInv, OneFate
<1>2. ASSUME NEW e \in Events PROVE FateOf(e) = "new"
  <2>1. ~InPipe(e)
    BY EmptyFacts DEF PipeInit, InPipe
  <2>2. e \notin InTable
    BY DEF PipeInit, InTable
  <2>3. e.n > made[e.w]
    BY PipelineAssumption DEF PipeInit, Events
  <2> QED BY <1>1, <2>1, <2>2, <2>3 DEF FatesTold
<1> QED BY <1>2 DEF Log!LogInit

\* Forward is the way of the abstract specification.
LEMMA StepRefines == PipeInv /\ PipeInv' /\ FatesTold /\ FatesTold' /\ OnlyForward => Log!LogNext
<1> SUFFICES ASSUME PipeInv, PipeInv', FatesTold, FatesTold', OnlyForward, NEW e \in Events
             PROVE  /\ FateOf(e)' \in Log!Fates
                    /\ FateOf(e)' # FateOf(e) => <<FateOf(e), FateOf(e)'>> \in Log!Moves
  BY DEF Log!LogNext
<1>1. /\ InPipe(e) => FateOf(e) = "pending" /\ e \notin InTable /\ e.n <= made[e.w]
      /\ ~InPipe(e) /\ e \in InTable => FateOf(e) = "logged" /\ e.n <= made[e.w]
      /\ ~InPipe(e) /\ e \notin InTable =>
           FateOf(e) = IF e.n > made[e.w] THEN "new" ELSE "gone"
  BY DEF FatesTold
<1>2. /\ InPipe(e)' => FateOf(e)' = "pending"
      /\ ~InPipe(e)' /\ e \in InTable' => FateOf(e)' = "logged"
      /\ ~InPipe(e)' /\ e \notin InTable' =>
           FateOf(e)' = IF e.n > made'[e.w] THEN "new" ELSE "gone"
  BY DEF FatesTold
<1>3. /\ InPipe(e)' => InPipe(e) \/ e.n > made[e.w]
      /\ e \in InTable' => InPipe(e) \/ e \in InTable
      /\ made[e.w] <= made'[e.w]
  BY DEF OnlyForward
<1>4. /\ e.n <= made[e.w] <=> ~(e.n > made[e.w])
      /\ e.n > made'[e.w] => e.n > made[e.w]
  <2>1. e.n \in Nat /\ made[e.w] \in Nat /\ made'[e.w] \in Nat
    BY EventNumbers, PipelineAssumption DEF PipeInv, PipeTypeOK
  <2> QED BY <1>3, <2>1
<1> QED BY <1>1, <1>2, <1>3, <1>4 DEF Log!Fates, Log!Moves

-----------------------------------------------------------------------------
(* The theorems *)

\* The pipeline keeps the invariant.
LEMMA PipeInvariant == RequestSpec => []PipeInv
<1>1. RequestInit => PipeInv
  BY InitInv DEF RequestInit
<1>2. PipeInv /\ [RequestNext]_logVars => PipeInv'
  BY PipeStep, RequestIsPipeStep
<1> QED BY <1>1, <1>2, PTL DEF RequestSpec

\* Every event is written to the table at most once, and one that was lost or pruned does not
\* come back: the buffers, the list and the batches, with their failures, implement EventLog.
THEOREM PipelineImplementsEventLog == RequestSpec => ImplementsEventLog
<1>1. RequestInit => Log!LogInit
  BY InitRefines DEF RequestInit
<1>2. PipeInv /\ [RequestNext]_logVars => OnlyForward
  BY PipeStep, RequestIsPipeStep
<1>3. PipeInv => FatesTold
  BY OneFate
<1>4. PipeInv /\ PipeInv' /\ FatesTold /\ FatesTold' /\ OnlyForward => Log!LogNext
  BY StepRefines
<1> QED BY <1>1, <1>2, <1>3, <1>4, PipeInvariant, PTL
        DEF RequestSpec, ImplementsEventLog, Log!LogSpec

\* The rows of a worker have their ids in the order of its requests, whatever was lost between.
THEOREM RowsInOrder == RequestSpec => []StoredInOrder
<1>1. PipeInv => StoredInOrder
  BY DEF PipeInv
<1> QED BY <1>1, PipeInvariant, PTL

\* The numbers that make up a minute's figure, however often they are shipped and summed.
Numbers ==
    /\ count \in [Workers -> Nat] /\ shipped \in [Workers -> Nat]
    /\ collector \in [at : {"idle", "scan"}, seen : SUBSET Workers, sum : Nat]
    /\ row \in Nat

LEMMA NumbersInit == StatInit => Numbers
BY DEF StatInit, Numbers, Idle

LEMMA NumbersStep == Numbers /\ [RequestNext]_logVars => Numbers'
<1> SUFFICES ASSUME Numbers, [RequestNext]_logVars PROVE Numbers'
  OBVIOUS
<1>1. ASSUME NEW h \in Workers, Request(h) PROVE Numbers'
  BY <1>1 DEF Request, Numbers
<1>2. ASSUME NEW h \in Workers, FlushStats(h) PROVE Numbers'
  BY <1>2 DEF FlushStats, Numbers
<1>3. ASSUME NEW h \in Workers, NginxExits(h) PROVE Numbers'
  BY <1>3 DEF NginxExits, Numbers
<1>4. ASSUME NEW h \in Workers, StatExpires(h) PROVE Numbers'
  BY <1>4 DEF StatExpires, Numbers
<1>5. ASSUME NEW h \in Workers, AbsorbStat(h) PROVE Numbers'
  <2>1. /\ collector' = [collector EXCEPT !.seen = collector.seen \cup {h},
                                          !.sum = collector.sum + shipped[h]]
        /\ UNCHANGED <<count, shipped, row>>
    BY <1>5 DEF AbsorbStat
  <2>2. collector.sum + shipped[h] \in Nat /\ collector.seen \cup {h} \in SUBSET Workers
    BY DEF Numbers
  <2>3. collector' \in [at : {"idle", "scan"}, seen : SUBSET Workers, sum : Nat]
    BY <2>1, <2>2 DEF Numbers
  <2> QED BY <2>1, <2>3 DEF Numbers
<1>6. ASSUME StartScan PROVE Numbers'
  BY <1>6 DEF StartScan, Numbers
<1>7. ASSUME UpsertStat PROVE Numbers'
  BY <1>7 DEF UpsertStat, Numbers, Idle
<1>8. ASSUME PassEnds PROVE Numbers'
  BY <1>8 DEF PassEnds, Numbers, Idle
<1>9. ASSUME PurgeOldStats PROVE Numbers'
  BY <1>9 DEF PurgeOldStats, Numbers
<1>10. ASSUME ShipEvents PROVE Numbers'
  BY <1>10 DEF ShipEvents, statVars, Numbers
<1>11. ASSUME UNCHANGED logVars PROVE Numbers'
  BY <1>11 DEF logVars, statVars, Numbers
<1> QED BY <1>1, <1>2, <1>3, <1>4, <1>5, <1>6, <1>7, <1>8, <1>9, <1>10, <1>11 DEF RequestNext

\* A minute's figure does not fall, whichever part of a scan fails and whichever host restarts,
\* except when the row is deleted.
THEOREM FigureNeverFalls == RequestSpec => NeverFalls
<1>1. RequestInit => Numbers
  BY NumbersInit DEF RequestInit
<1>2. Numbers /\ [RequestNext]_logVars => Numbers'
  BY NumbersStep
<1>3. Numbers /\ [RequestNext]_logVars => [row' >= row \/ PurgeOldStats]_logVars
  <2> SUFFICES ASSUME Numbers, RequestNext, ~PurgeOldStats PROVE row' >= row
    OBVIOUS
  <2>1. row \in Nat /\ collector.sum \in Nat
    BY DEF Numbers
  <2>2. CASE UpsertStat
    BY <2>1, <2>2 DEF UpsertStat
  <2>3. CASE row' = row
    BY <2>1, <2>3
  <2>4. UpsertStat \/ row' = row
    BY DEF RequestNext, Request, FlushStats, NginxExits, StatExpires, AbsorbStat, StartScan,
           PassEnds, ShipEvents, statVars
  <2> QED BY <2>2, <2>3, <2>4
<1> QED BY <1>1, <1>2, <1>3, PTL DEF RequestSpec, NeverFalls

-----------------------------------------------------------------------------
(* Sums.  The sum of a function over a finite set is the number of unit squares under its  *)
(* graph, which is how the properties of sums are proved here without an induction each.  *)

Squares(f, S, cap) == {p \in S \X (1..cap) : p[2] <= f[p[1]]}

\* The squares of one element are as many as its value.
LEMMA ColumnSize ==
    ASSUME NEW x, NEW n \in Nat
    PROVE  IsFiniteSet({x} \X (1..n)) /\ Cardinality({x} \X (1..n)) = n
<1>1. IsFiniteSet({x}) /\ Cardinality({x}) = 1
  BY FS_Singleton
<1>2. IsFiniteSet(1..n) /\ Cardinality(1..n) = n
  BY FS_Interval
<1>3. /\ IsFiniteSet({x} \X (1..n))
      /\ Cardinality({x} \X (1..n)) = Cardinality({x}) * Cardinality(1..n)
  BY <1>1, <1>2, FS_Product
<1> QED BY <1>1, <1>2, <1>3

LEMMA SquaresFinite ==
    ASSUME NEW S, IsFiniteSet(S), NEW cap \in Nat, NEW f
    PROVE  /\ IsFiniteSet(Squares(f, S, cap)) /\ Cardinality(Squares(f, S, cap)) \in Nat
           /\ Cardinality(Squares(f, S, cap)) <= cap * Cardinality(S)
<1>1. IsFiniteSet(1..cap) /\ Cardinality(1..cap) = cap
  BY FS_Interval
<1>2. Cardinality(S) \in Nat /\ IsFiniteSet(S \X (1..cap))
      /\ Cardinality(S \X (1..cap)) = Cardinality(S) * cap
  BY <1>1, FS_Product, FS_CardinalityType
<1>3. Squares(f, S, cap) \in SUBSET (S \X (1..cap))
  BY DEF Squares
<1>4. /\ IsFiniteSet(Squares(f, S, cap))
      /\ Cardinality(Squares(f, S, cap)) <= Cardinality(S) * cap
  BY <1>2, <1>3, FS_Subset
<1> QED BY <1>2, <1>4, FS_CardinalityType

\* One more element adds its value.
LEMMA SquaresAdd ==
    ASSUME NEW S, IsFiniteSet(S), NEW cap \in Nat, NEW f, NEW x, x \notin S, f[x] \in 0..cap
    PROVE  Cardinality(Squares(f, S \cup {x}, cap)) = Cardinality(Squares(f, S, cap)) + f[x]
<1> DEFINE column == {x} \X (1..f[x])
           old == Squares(f, S, cap)
<1>1. Squares(f, S \cup {x}, cap) = old \cup column
  BY DEF Squares
<1>2. old \cap column = {}
  BY DEF Squares
<1>3. IsFiniteSet(column) /\ Cardinality(column) = f[x] /\ f[x] \in Nat
  <2>1. f[x] \in Nat
    OBVIOUS
  <2> QED BY <2>1, ColumnSize
<1>4. IsFiniteSet(old) /\ Cardinality(old) \in Nat
  BY SquaresFinite
<1>5. Cardinality(old \cup column)
        = Cardinality(old) + Cardinality(column) - Cardinality(old \cap column)
  BY <1>3, <1>4, FS_Union
<1>6. Cardinality(old \cap column) = 0
  BY <1>2, <1>3, <1>4, FS_EmptySet, FS_Intersection
<1>7. Cardinality(old \cup column) = Cardinality(old) + f[x]
  <2> HIDE DEF column, old
  <2> QED BY <1>3, <1>4, <1>5, <1>6
<1> QED BY <1>1, <1>7

\* What the recursion behind SumFunctionOnSet says of the function it goes by.
Unfolds(g, f, S) ==
    g = [s \in SUBSET S |->
            IF s = {} THEN 0 ELSE f[CHOOSE x \in s : TRUE] + g[s \ {CHOOSE x \in s : TRUE}]]

LEMMA SumUnfolds ==
    ASSUME NEW f, NEW S, NEW n, \E g : Unfolds(g, f, S), \A g : Unfolds(g, f, S) => g[S] = n
    PROVE  SumFunctionOnSet(f, S) = n
BY DEF SumFunctionOnSet, FoldFunctionOnSet, MapThenFoldSet, Unfolds

\* A sum is a number of squares: the numbers of squares obey the recursion, and a smallest set
\* on which something else that does disagrees would have a smaller one.
LEMMA SumIsCount ==
    ASSUME NEW S, IsFiniteSet(S), NEW cap \in Nat, NEW f, \A x \in S : f[x] \in 0..cap
    PROVE  SumFunctionOnSet(f, S) = Cardinality(Squares(f, S, cap))
<1> DEFINE squares(s) == Cardinality(Squares(f, s, cap))
           some(s) == CHOOSE x \in s : TRUE
<1>1. squares({}) = 0
  <2>1. Squares(f, {}, cap) = {}
    BY DEF Squares
  <2> QED BY <2>1, FS_EmptySet
<1>2. ASSUME NEW s \in SUBSET S, s # {}
      PROVE  some(s) \in s /\ squares(s) = f[some(s)] + squares(s \ {some(s)})
  <2>1. some(s) \in s
    BY <1>2
  <2>2. IsFiniteSet(s)
    BY FS_Subset
  <2>3. IsFiniteSet(s \ {some(s)})
    BY <2>2, FS_RemoveElement
  <2>4. f[some(s)] \in 0..cap /\ some(s) \notin s \ {some(s)}
    BY <2>1
  <2> HIDE DEF some
  <2>5. squares((s \ {some(s)}) \cup {some(s)}) = squares(s \ {some(s)}) + f[some(s)]
    BY <2>3, <2>4, SquaresAdd
  <2>6. (s \ {some(s)}) \cup {some(s)} = s
    BY <2>1
  <2>7. squares(s \ {some(s)}) \in Nat
    BY <2>3, SquaresFinite
  <2>8. squares(s) = squares(s \ {some(s)}) + f[some(s)]
    BY <2>5, <2>6
  <2>9. f[some(s)] + squares(s \ {some(s)}) = squares(s \ {some(s)}) + f[some(s)]
    <3> HIDE DEF squares
    <3> QED BY <2>4, <2>7
  <2> QED BY <2>1, <2>8, <2>9
<1> HIDE DEF squares
<1>3. \E g : Unfolds(g, f, S)
  <2> DEFINE g == [s \in SUBSET S |-> squares(s)]
  <2>1. \A s \in SUBSET S : s \ {some(s)} \in SUBSET S
    OBVIOUS
  <2>2. \A s \in SUBSET S : g[s] = IF s = {} THEN 0 ELSE f[some(s)] + g[s \ {some(s)}]
    BY <1>1, <1>2, <2>1
  <2>3. Unfolds(g, f, S)
    BY <2>2 DEF Unfolds
  <2> QED BY <2>3
<1>4. ASSUME NEW g, Unfolds(g, f, S) PROVE g[S] = squares(S)
  <2> DEFINE wrong == {s \in SUBSET S : g[s] # squares(s)}
  <2>1. \A s \in SUBSET S : g[s] = IF s = {} THEN 0 ELSE f[some(s)] + g[s \ {some(s)}]
    BY <1>4 DEF Unfolds
  <2>2. ASSUME wrong # {} PROVE FALSE
    <3>1. wrong \subseteq FiniteSubsetsOf(S)
      BY FS_Subset DEF FiniteSubsetsOf
    <3>2. PICK s \in wrong : \A r \in wrong : ~(<<r, s>> \in StrictSubsetOrdering(S))
      <4>1. IsWellFoundedOn(StrictSubsetOrdering(S), FiniteSubsetsOf(S))
        BY FS_StrictSubsetOrderingWellFounded
      <4> HIDE DEF wrong
      <4> QED BY <2>2, <3>1, <4>1, WFMin
    <3>3. s # {}
      BY <1>1, <2>1
    <3>4. s \ {some(s)} \in SUBSET S /\ <<s \ {some(s)}, s>> \in StrictSubsetOrdering(S)
      BY <1>2, <3>3 DEF StrictSubsetOrdering
    <3>5. g[s \ {some(s)}] = squares(s \ {some(s)})
      BY <3>2, <3>4
    <3> QED BY <1>2, <2>1, <3>3, <3>5
  <2> QED BY <2>2
<1>5. SumFunctionOnSet(f, S) = squares(S)
  BY <1>3, <1>4, SumUnfolds
<1> QED BY <1>5 DEF squares

\* A sum of bounded numbers is a number, and no more than as many times the bound.
LEMMA SumBound ==
    ASSUME NEW S, IsFiniteSet(S), NEW cap \in Nat, NEW f, \A x \in S : f[x] \in 0..cap
    PROVE  /\ SumFunctionOnSet(f, S) \in Nat
           /\ SumFunctionOnSet(f, S) <= cap * Cardinality(S)
BY SumIsCount, SquaresFinite

\* One more element adds its value.
LEMMA SumAdd ==
    ASSUME NEW S, IsFiniteSet(S), NEW cap \in Nat, NEW f, NEW x, x \notin S,
           \A y \in S : f[y] \in 0..cap, f[x] \in 0..cap
    PROVE  SumFunctionOnSet(f, S \cup {x}) = SumFunctionOnSet(f, S) + f[x]
<1>1. IsFiniteSet(S \cup {x})
  BY FS_AddElement
<1>2. SumFunctionOnSet(f, S \cup {x}) = Cardinality(Squares(f, S \cup {x}, cap))
  <2>1. \A y \in S \cup {x} : f[y] \in 0..cap
    OBVIOUS
  <2> QED BY <1>1, <2>1, SumIsCount
<1>3. SumFunctionOnSet(f, S) = Cardinality(Squares(f, S, cap))
  BY SumIsCount
<1>4. Cardinality(Squares(f, S \cup {x}, cap)) = Cardinality(Squares(f, S, cap)) + f[x]
  BY SquaresAdd
<1> QED BY <1>2, <1>3, <1>4

\* More elements with larger values have a larger sum.
LEMMA SumMonotone ==
    ASSUME NEW S, NEW T, IsFiniteSet(T), S \subseteq T, NEW cap \in Nat, NEW f, NEW g,
           \A x \in S : f[x] \in 0..cap /\ f[x] <= g[x],
           \A x \in T : g[x] \in 0..cap
    PROVE  SumFunctionOnSet(f, S) <= SumFunctionOnSet(g, T)
<1>1. IsFiniteSet(S)
  BY FS_Subset
<1>2. Squares(f, S, cap) \subseteq Squares(g, T, cap)
  <2> SUFFICES ASSUME NEW x \in S, NEW n \in 1..cap, n <= f[x] PROVE n <= g[x]
    BY DEF Squares
  <2>1. f[x] \in Int /\ g[x] \in Int /\ f[x] <= g[x]
    OBVIOUS
  <2> QED BY <2>1
<1>3. Cardinality(Squares(f, S, cap)) <= Cardinality(Squares(g, T, cap))
  <2>1. IsFiniteSet(Squares(g, T, cap))
    BY SquaresFinite
  <2> QED BY <1>2, <2>1, FS_Subset
<1>4. SumFunctionOnSet(f, S) = Cardinality(Squares(f, S, cap))
  BY <1>1, SumIsCount
<1>5. SumFunctionOnSet(g, T) = Cardinality(Squares(g, T, cap))
  BY SumIsCount
<1> QED BY <1>3, <1>4, <1>5

\* Equal values have equal sums.
LEMMA SumSame ==
    ASSUME NEW S, IsFiniteSet(S), NEW cap \in Nat, NEW f, NEW g,
           \A x \in S : f[x] \in 0..cap /\ g[x] = f[x]
    PROVE  SumFunctionOnSet(g, S) = SumFunctionOnSet(f, S)
<1>1. Squares(g, S, cap) = Squares(f, S, cap)
  BY DEF Squares
<1> QED BY <1>1, SumIsCount

\* Taking one element out takes its value off the sum.
LEMMA SumWithout ==
    ASSUME NEW S, IsFiniteSet(S), NEW cap \in Nat, NEW f, NEW x \in S,
           \A y \in S : f[y] \in 0..cap
    PROVE  SumFunctionOnSet(f, S) = SumFunctionOnSet(f, S \ {x}) + f[x]
<1> DEFINE rest == S \ {x}
<1>1. /\ IsFiniteSet(rest) /\ x \notin rest /\ rest \cup {x} = S
  BY FS_RemoveElement
<1>2. (\A y \in rest : f[y] \in 0..cap) /\ f[x] \in 0..cap
  OBVIOUS
<1>3. SumFunctionOnSet(f, rest \cup {x}) = SumFunctionOnSet(f, rest) + f[x]
  <2> HIDE DEF rest
  <2> QED BY <1>1, <1>2, SumAdd
<1> QED BY <1>1, <1>3

\* A value that is one larger makes the sum one larger.
LEMMA SumOneMore ==
    ASSUME NEW S, IsFiniteSet(S), NEW cap \in Nat, NEW f, NEW g, NEW x \in S,
           \A y \in S : f[y] \in 0..cap /\ g[y] \in 0..cap,
           \A y \in S \ {x} : g[y] = f[y],
           g[x] = f[x] + 1
    PROVE  SumFunctionOnSet(g, S) = SumFunctionOnSet(f, S) + 1
<1>1. IsFiniteSet(S \ {x})
  BY FS_RemoveElement
<1>2. SumFunctionOnSet(g, S \ {x}) = SumFunctionOnSet(f, S \ {x})
  BY <1>1, SumSame
<1>3. /\ SumFunctionOnSet(f, S) = SumFunctionOnSet(f, S \ {x}) + f[x]
      /\ SumFunctionOnSet(g, S) = SumFunctionOnSet(g, S \ {x}) + g[x]
  BY SumWithout
<1>4. SumFunctionOnSet(f, S \ {x}) \in Nat
  BY <1>1, SumBound
<1> QED BY <1>2, <1>3, <1>4

-----------------------------------------------------------------------------
(* The ceilings *)

LEMMA PushedType ==
    ASSUME PipeTypeOK, CeilingInv
    PROVE  \A w \in Workers : MayHavePushed[w] \in 0..BufMax
<1>1. \A w \in Workers : Len(inflight[w]) \in Nat /\ Len(inflight[w]) <= BufMax
  BY LenProperties DEF PipeTypeOK, CeilingInv, WithinBuffer
<1> QED BY <1>1, PipelineAssumption DEF MayHavePushed

LEMMA FlushingFinite ==
    ASSUME PipeTypeOK
    PROVE  IsFiniteSet(flushing) /\ Cardinality(flushing) \in Nat
<1>1. IsFiniteSet(flushing)
  BY PipelineAssumption, FS_Subset DEF PipeTypeOK
<1> QED BY <1>1, FS_CardinalityType

\* A step that adds nothing to the list and takes no flush away keeps the ceiling.
LEMMA QuietKeepsCeiling ==
    ASSUME PipeTypeOK, PipeTypeOK', CeilingInv, WithinBuffer',
           Len(queue') <= Len(queue), faults' = faults \/ faults' = faults + 1,
           flushing \subseteq flushing',
           \A w \in flushing : inflight'[w] = inflight[w]
    PROVE  CeilingInv'
<1>1. /\ \A w \in Workers : Len(inflight'[w]) \in Nat /\ Len(inflight'[w]) <= BufMax
      /\ Len(queue) \in Nat /\ Len(queue') \in Nat
  BY LenProperties DEF PipeTypeOK, WithinBuffer
<1>2. \A w \in Workers : MayHavePushed'[w] \in 0..BufMax
  BY <1>1, PipelineAssumption DEF MayHavePushed
<1>3. \A w \in flushing : /\ MayHavePushed[w] \in 0..BufMax
                          /\ MayHavePushed[w] <= MayHavePushed'[w]
  <2>1. \A w \in flushing : MayHavePushed'[w] = MayHavePushed[w]
    BY DEF MayHavePushed, PipeTypeOK
  <2>2. \A w \in flushing : w \in Workers
    BY DEF PipeTypeOK
  <2> QED BY <2>1, <2>2, PushedType
<1>4. \A w \in flushing' : MayHavePushed'[w] \in 0..BufMax
  BY <1>2 DEF PipeTypeOK
<1>5. IsFiniteSet(flushing') /\ BufMax \in Nat
  BY PipelineAssumption, FS_Subset DEF PipeTypeOK
<1>6. SumFunctionOnSet(MayHavePushed, flushing) <= SumFunctionOnSet(MayHavePushed', flushing')
  BY <1>3, <1>4, <1>5, SumMonotone
<1>7. /\ SumFunctionOnSet(MayHavePushed, flushing) \in Nat
      /\ SumFunctionOnSet(MayHavePushed', flushing') \in Nat
  BY <1>3, <1>4, <1>5, FlushingFinite, SumBound
<1>8. BufMax * faults <= BufMax * faults' /\ BufMax * faults \in Nat /\ BufMax * faults' \in Nat
  <2>1. BufMax \in Nat /\ faults \in Nat
    BY PipelineAssumption DEF PipeTypeOK
  <2>2. BufMax * (faults + 1) = BufMax * faults + BufMax /\ BufMax * faults \in Nat
    BY <2>1
  <2>3. CASE faults' = faults
    BY <2>1, <2>2, <2>3
  <2>4. CASE faults' = faults + 1
    BY <2>1, <2>2, <2>4
  <2> QED BY <2>3, <2>4
<1>9. Len(queue') <= QueueMax + BufMax * faults' + SumFunctionOnSet(MayHavePushed', flushing')
  <2>1. Len(queue) <= QueueMax + BufMax * faults + SumFunctionOnSet(MayHavePushed, flushing)
    BY DEF CeilingInv
  <2> QED BY <1>1, <1>6, <1>7, <1>8, <2>1, PipelineAssumption
<1> QED BY <1>9 DEF CeilingInv, WithinBuffer

\* Each push of a flush is made up for by what the flush has left to push.
LEMMA PushKeepsCeiling ==
    ASSUME PipeTypeOK, PipeTypeOK', CeilingInv, NEW w \in Workers, PushNext(w)
    PROVE  CeilingInv'
<1>1. /\ w \in flushing /\ inflight[w] # <<>> /\ inflight[w] \in Seq(Events)
      /\ inflight' = [inflight EXCEPT ![w] = Tail(inflight[w])]
      /\ queue' = Append(queue, Head(inflight[w])) /\ queue \in Seq(Events)
      /\ UNCHANGED <<buf, flushing, faults>>
  BY DEF PushNext, PipeTypeOK
<1>2. /\ Len(inflight[w]) \in Nat /\ Len(Tail(inflight[w])) = Len(inflight[w]) - 1
      /\ Len(queue') = Len(queue) + 1 /\ Len(queue) \in Nat
  <2>1. Head(inflight[w]) \in Events
    BY <1>1, HeadTailProperties
  <2> QED BY <1>1, <2>1, HeadTailProperties, LenProperties, AppendProperties
<1>3. /\ inflight'[w] = Tail(inflight[w])
      /\ \A v \in Workers \ {w} : inflight'[v] = inflight[v]
  BY <1>1 DEF PipeTypeOK
<1>4. Len(inflight'[w]) = Len(inflight[w]) - 1 /\ Len(inflight[w]) <= BufMax
  BY <1>2, <1>3 DEF CeilingInv, WithinBuffer
<1>5. WithinBuffer'
  BY <1>1, <1>2, <1>3, <1>4, PipelineAssumption DEF CeilingInv, WithinBuffer
<1>6. /\ MayHavePushed'[w] = MayHavePushed[w] + 1
      /\ \A v \in flushing \ {w} : MayHavePushed'[v] = MayHavePushed[v]
  <2>1. \A v \in Workers : /\ MayHavePushed[v] = BufMax - Len(inflight[v])
                           /\ MayHavePushed'[v] = BufMax - Len(inflight'[v])
    BY DEF MayHavePushed
  <2>2. \A v \in flushing : v \in Workers
    BY DEF PipeTypeOK
  <2>3. BufMax - (Len(inflight[w]) - 1) = (BufMax - Len(inflight[w])) + 1
    BY <1>2, PipelineAssumption
  <2> QED BY <1>3, <1>4, <2>1, <2>2, <2>3
<1>7. \A v \in flushing : MayHavePushed[v] \in 0..BufMax /\ MayHavePushed'[v] \in 0..BufMax
  <2>1. \A v \in flushing : v \in Workers
    BY DEF PipeTypeOK
  <2>2. Len(inflight'[w]) \in Nat
    BY LenProperties DEF PipeTypeOK
  <2>3. MayHavePushed'[w] \in 0..BufMax
    BY <1>4, <2>2, <1>2, PipelineAssumption DEF MayHavePushed
  <2> QED BY <1>6, <2>1, <2>3, PushedType
<1>8. IsFiniteSet(flushing) /\ BufMax \in Nat
  BY FlushingFinite, PipelineAssumption
<1>9. /\ SumFunctionOnSet(MayHavePushed', flushing) = SumFunctionOnSet(MayHavePushed, flushing) + 1
      /\ SumFunctionOnSet(MayHavePushed, flushing) \in Nat
  BY <1>1, <1>6, <1>7, <1>8, SumOneMore, SumBound
<1>10. BufMax * faults \in Nat
  BY PipelineAssumption DEF PipeTypeOK
<1>11. Len(queue') <= QueueMax + BufMax * faults + SumFunctionOnSet(MayHavePushed', flushing)
  <2>1. Len(queue) <= QueueMax + BufMax * faults + SumFunctionOnSet(MayHavePushed, flushing)
    BY DEF CeilingInv
  <2> QED BY <1>2, <1>9, <1>10, <2>1, PipelineAssumption
<1> QED BY <1>1, <1>5, <1>11 DEF CeilingInv, WithinBuffer

\* A flush that has trimmed the list leaves it within its ceiling, whoever else is pushing.
LEMMA TrimKeepsCeiling ==
    ASSUME PipeTypeOK, PipeTypeOK', CeilingInv, NEW w \in Workers, TrimQueue(w)
    PROVE  CeilingInv'
<1>1. /\ flushing' = flushing \ {w} /\ queue \in Seq(Events)
      /\ queue' = IF Len(queue) > QueueMax
                  THEN SubSeq(queue, Len(queue) - QueueMax + 1, Len(queue)) ELSE queue
      /\ UNCHANGED <<buf, inflight, faults>>
  BY DEF TrimQueue, PipeTypeOK
<1>2. Len(queue) \in Nat /\ QueueMax \in Nat /\ BufMax \in Nat
  BY <1>1, LenProperties, PipelineAssumption
<1>3. Len(queue') <= QueueMax /\ Len(queue') \in Nat
  <2>1. CASE Len(queue) > QueueMax
    <3> DEFINE from == Len(queue) - QueueMax + 1
    <3>1. from \in 1..(Len(queue) + 1) /\ Len(queue) \in 0..Len(queue)
      BY <1>2, <2>1
    <3>2. Len(SubSeq(queue, from, Len(queue)))
            = IF from <= Len(queue) THEN Len(queue) - from + 1 ELSE 0
      BY <1>1, <3>1, SubSeqProperties
    <3> QED BY <1>1, <1>2, <2>1, <3>2
  <2> QED BY <1>1, <1>2, <2>1
<1>4. MayHavePushed' = MayHavePushed
  BY <1>1 DEF MayHavePushed
<1>5. \A v \in flushing' : MayHavePushed[v] \in 0..BufMax
  BY PushedType DEF PipeTypeOK
<1>6. SumFunctionOnSet(MayHavePushed, flushing') \in Nat
  BY <1>2, <1>5, FS_Subset, PipelineAssumption, SumBound DEF PipeTypeOK
<1>7. BufMax * faults \in Nat
  BY <1>2 DEF PipeTypeOK
<1>8. Len(queue') <= QueueMax + BufMax * faults' + SumFunctionOnSet(MayHavePushed', flushing')
  BY <1>1, <1>2, <1>3, <1>4, <1>6, <1>7
<1> QED BY <1>1, <1>8 DEF CeilingInv, WithinBuffer

\* A flush that fails, or whose worker exits, leaves behind what it has pushed and nobody
\* trims: no more than one buffer for each failure.
LEMMA FailureKeepsCeiling ==
    ASSUME PipeTypeOK, PipeTypeOK', CeilingInv, NEW w \in Workers, FlushFails(w) \/ WorkerExits(w)
    PROVE  CeilingInv'
<1> DEFINE left == flushing \ {w}
<1>1. /\ flushing' = left /\ faults' = faults + 1 /\ UNCHANGED queue
      /\ inflight' = [inflight EXCEPT ![w] = <<>>]
      /\ buf' = buf \/ buf' = [buf EXCEPT ![w] = <<>>]
  BY DEF FlushFails, WorkerExits, Fault
<1>2. /\ \A v \in Workers \ {w} : inflight'[v] = inflight[v]
      /\ inflight'[w] = <<>> /\ Len(<<>>) = 0
      /\ \A v \in Workers : buf'[v] = buf[v] \/ buf'[v] = <<>>
  BY <1>1 DEF PipeTypeOK
<1>3. WithinBuffer'
  BY <1>2, PipelineAssumption DEF CeilingInv, WithinBuffer
<1>4. BufMax \in Nat /\ faults \in Nat /\ QueueMax \in Nat /\ Len(queue) \in Nat
  BY PipelineAssumption, LenProperties DEF PipeTypeOK
<1>5. /\ IsFiniteSet(flushing) /\ IsFiniteSet(left)
      /\ \A v \in flushing : MayHavePushed[v] \in 0..BufMax
  BY FlushingFinite, PushedType, FS_Subset DEF PipeTypeOK
<1>6. \A v \in left : MayHavePushed'[v] = MayHavePushed[v]
  BY <1>2 DEF MayHavePushed, PipeTypeOK
<1>7. SumFunctionOnSet(MayHavePushed', left) = SumFunctionOnSet(MayHavePushed, left)
  BY <1>4, <1>5, <1>6, SumSame
<1>8. /\ SumFunctionOnSet(MayHavePushed, flushing)
            <= SumFunctionOnSet(MayHavePushed, left) + BufMax
      /\ SumFunctionOnSet(MayHavePushed, left) \in Nat
      /\ SumFunctionOnSet(MayHavePushed, flushing) \in Nat
  <2>1. /\ SumFunctionOnSet(MayHavePushed, left) \in Nat
        /\ SumFunctionOnSet(MayHavePushed, flushing) \in Nat
    BY <1>4, <1>5, SumBound
  <2>2. CASE w \in flushing
    <3>1. SumFunctionOnSet(MayHavePushed, flushing)
            = SumFunctionOnSet(MayHavePushed, left) + MayHavePushed[w]
      BY <1>4, <1>5, <2>2, SumWithout
    <3>2. MayHavePushed[w] \in 0..BufMax
      BY <1>5, <2>2
    <3> HIDE DEF left
    <3> QED BY <1>4, <2>1, <3>1, <3>2
  <2>3. CASE w \notin flushing
    <3>1. left = flushing
      BY <2>3
    <3> HIDE DEF left
    <3> QED BY <1>4, <2>1, <3>1
  <2> QED BY <2>2, <2>3
<1>9. BufMax * (faults + 1) = BufMax * faults + BufMax /\ BufMax * faults \in Nat
  BY <1>4
<1>10. Len(queue') <= QueueMax + BufMax * faults' + SumFunctionOnSet(MayHavePushed', flushing')
  <2>1. Len(queue) <= QueueMax + BufMax * faults + SumFunctionOnSet(MayHavePushed, flushing)
    BY DEF CeilingInv
  <2>2. SumFunctionOnSet(MayHavePushed', flushing') = SumFunctionOnSet(MayHavePushed, left)
    BY <1>1, <1>7
  <2>3. BufMax * faults' = BufMax * faults + BufMax /\ Len(queue') = Len(queue)
    BY <1>1, <1>9
  <2> HIDE DEF left
  <2> QED BY <1>4, <1>8, <1>9, <2>1, <2>2, <2>3
<1> QED BY <1>3, <1>10 DEF CeilingInv

\* Every step of the pipeline.
LEMMA CeilingStep ==
    ASSUME PipeTypeOK, PipeTypeOK', CeilingInv, [PipeNext]_pipeVars
    PROVE  CeilingInv'
<1>0. /\ \A w \in Workers : buf[w] \in Seq(Events) /\ inflight[w] \in Seq(Events)
      /\ BufMax \in Nat /\ BatchSize \in Nat \ {0} /\ QueueMax \in Nat
      /\ queue \in Seq(Events) /\ Len(queue) \in Nat
  BY PipelineAssumption, LenProperties DEF PipeTypeOK
<1>1. ASSUME NEW w \in Workers, Record(w) PROVE CeilingInv'
  <2> DEFINE e == [w |-> w, n |-> made[w] + 1]
  <2>1. /\ UNCHANGED <<inflight, flushing, queue, faults>>
        /\ buf' = IF Len(buf[w]) >= BufMax THEN buf ELSE [buf EXCEPT ![w] = Append(buf[w], e)]
    BY <1>1 DEF Record
  <2>2. \A v \in Workers : Len(buf'[v]) <= BufMax
    <3>1. CASE Len(buf[w]) >= BufMax
      BY <2>1, <3>1 DEF CeilingInv, WithinBuffer
    <3>2. CASE ~(Len(buf[w]) >= BufMax)
      <4>1. Len(Append(buf[w], e)) = Len(buf[w]) + 1 /\ Len(buf[w]) \in Nat
        BY <1>0
      <4>2. Len(buf'[w]) <= BufMax
        BY <1>0, <2>1, <3>2, <4>1 DEF PipeTypeOK
      <4>3. \A v \in Workers \ {w} : buf'[v] = buf[v]
        BY <2>1 DEF PipeTypeOK
      <4> QED BY <4>2, <4>3 DEF CeilingInv, WithinBuffer
    <3> QED BY <3>1, <3>2
  <2>3. WithinBuffer'
    BY <2>1, <2>2 DEF CeilingInv, WithinBuffer
  <2> QED BY <1>0, <2>1, <2>3, QuietKeepsCeiling
<1>2. ASSUME NEW w \in Workers, TakeBuffer(w) PROVE CeilingInv'
  <2>1. /\ w \notin flushing /\ flushing' = flushing \cup {w} /\ UNCHANGED <<queue, faults>>
        /\ inflight' = [inflight EXCEPT ![w] = buf[w]] /\ buf' = [buf EXCEPT ![w] = <<>>]
    BY <1>2 DEF TakeBuffer
  <2>2. WithinBuffer'
    BY <1>0, <2>1 DEF CeilingInv, WithinBuffer, PipeTypeOK
  <2>3. \A v \in flushing : inflight'[v] = inflight[v]
    BY <2>1 DEF PipeTypeOK
  <2> QED BY <1>0, <2>1, <2>2, <2>3, QuietKeepsCeiling
<1>3. CASE Pop
  <2>1. /\ UNCHANGED <<buf, inflight, flushing>>
        /\ faults' = faults \/ faults' = faults + 1
        /\ queue # <<>>
        /\ \E n \in {Len(queue), BatchSize} : n <= Len(queue) /\ queue' = SubSeq(queue, n + 1, Len(queue))
    <3> DEFINE n == IF Len(queue) < BatchSize THEN Len(queue) ELSE BatchSize
    <3>1. /\ UNCHANGED <<buf, inflight, flushing>>
          /\ faults' = faults \/ faults' = faults + 1
          /\ queue # <<>>
          /\ queue' = SubSeq(queue, n + 1, Len(queue))
      BY <1>3 DEF Pop, Fault
    <3>2. n \in {Len(queue), BatchSize} /\ n <= Len(queue)
      BY <1>0
    <3> HIDE DEF n
    <3> QED BY <3>1, <3>2
  <2>2. Len(queue') <= Len(queue)
    <3>1. PICK n \in {Len(queue), BatchSize} :
                  n <= Len(queue) /\ queue' = SubSeq(queue, n + 1, Len(queue))
      BY <2>1
    <3>2. n + 1 \in 1..(Len(queue) + 1) /\ Len(queue) \in 0..Len(queue) /\ n \in Nat
      BY <1>0, <3>1
    <3>3. Len(SubSeq(queue, n + 1, Len(queue)))
            = IF n + 1 <= Len(queue) THEN Len(queue) - (n + 1) + 1 ELSE 0
      BY <1>0, <3>2, SubSeqProperties
    <3> QED BY <1>0, <3>1, <3>2, <3>3
  <2>3. WithinBuffer'
    BY <2>1 DEF CeilingInv, WithinBuffer
  <2> QED BY <2>1, <2>2, <2>3, QuietKeepsCeiling
<1>4. CASE /\ UNCHANGED <<buf, inflight, flushing, queue>>
           /\ faults' = faults \/ faults' = faults + 1
  <2>1. WithinBuffer'
    BY <1>4 DEF CeilingInv, WithinBuffer
  <2> QED BY <1>0, <1>4, <2>1, QuietKeepsCeiling
<1>5. CASE InsertEvents \/ DaemonStops \/ PurgeOldEvents \/ UNCHANGED pipeVars
  BY <1>4, <1>5 DEF InsertEvents, DaemonStops, PurgeOldEvents, Fault, pipeVars
<1>6. ASSUME NEW w \in Workers, PushNext(w) \/ TrimQueue(w) \/ FlushFails(w) \/ WorkerExits(w)
      PROVE  CeilingInv'
  BY <1>6, PushKeepsCeiling, TrimKeepsCeiling, FailureKeepsCeiling
<1> QED BY <1>1, <1>2, <1>3, <1>5, <1>6 DEF PipeNext, FlushStep, DrainStep

\* The list exceeds its ceiling only by what running and failed flushes have pushed, however
\* many workers flush at once (log.lua flush_events: RPUSH, then LTRIM).
THEOREM ListBounded == RequestSpec => []Bounded
<1>1. RequestInit => CeilingInv
  <2> SUFFICES ASSUME RequestInit PROVE CeilingInv
    OBVIOUS
  <2>1. PipeTypeOK
    BY InitInv DEF RequestInit, PipeInv
  <2>2. /\ \A w \in Workers : buf[w] = <<>> /\ inflight[w] = <<>>
        /\ flushing = {} /\ queue = <<>> /\ faults = 0 /\ Len(<<>>) = 0
    BY DEF RequestInit, PipeInit
  <2>3. WithinBuffer
    BY <2>2, PipelineAssumption DEF WithinBuffer
  <2>4. BufMax \in Nat /\ QueueMax \in Nat /\ IsFiniteSet({})
    BY PipelineAssumption, FS_EmptySet
  <2>5. SumFunctionOnSet(MayHavePushed, flushing) \in Nat
    BY <2>2, <2>4, SumBound
  <2>6. Len(queue) <= QueueMax + BufMax * faults + SumFunctionOnSet(MayHavePushed, flushing)
    BY <2>2, <2>4, <2>5
  <2> QED BY <2>3, <2>6 DEF CeilingInv
<1>2. PipeInv /\ PipeInv' /\ CeilingInv /\ [RequestNext]_logVars => CeilingInv'
  BY CeilingStep, RequestIsPipeStep DEF PipeInv
<1>3. PipeInv /\ CeilingInv => Bounded
  <2> SUFFICES ASSUME PipeInv, CeilingInv PROVE Bounded
    OBVIOUS
  <2>1. /\ IsFiniteSet(flushing) /\ Cardinality(flushing) \in Nat
        /\ \A w \in flushing : MayHavePushed[w] \in 0..BufMax
    BY FlushingFinite, PushedType DEF PipeInv, PipeTypeOK
  <2>2. /\ BufMax \in Nat /\ QueueMax \in Nat /\ faults \in Nat /\ Len(queue) \in Nat
    BY PipelineAssumption, LenProperties DEF PipeInv, PipeTypeOK
  <2>3. /\ SumFunctionOnSet(MayHavePushed, flushing) <= BufMax * Cardinality(flushing)
        /\ SumFunctionOnSet(MayHavePushed, flushing) \in Nat
    BY <2>1, <2>2, SumBound
  <2>4. /\ BufMax * (Cardinality(flushing) + faults) = BufMax * faults + BufMax * Cardinality(flushing)
        /\ BufMax * faults \in Nat /\ BufMax * Cardinality(flushing) \in Nat
    BY <2>1, <2>2
  <2>5. Len(queue) <= QueueMax + BufMax * (Cardinality(flushing) + faults)
    BY <2>2, <2>3, <2>4 DEF CeilingInv
  <2> QED BY <2>5 DEF Bounded, CeilingInv, WithinBuffer
<1> QED BY <1>1, <1>2, <1>3, PipeInvariant, PTL DEF RequestSpec

-----------------------------------------------------------------------------
(* The figure *)

\* What the hosts have served together is a number no smaller than what each has.
LEMMA TotalServed ==
    ASSUME served \in [Workers -> 0..MaxRequests]
    PROVE  /\ Total(served) = SumFunctionOnSet(served, Workers)
           /\ Total(served) \in Nat
           /\ \A h \in Workers : served[h] <= Total(served)
           /\ \A hosts \in SUBSET Workers :
                /\ SumFunctionOnSet(served, hosts) \in Nat
                /\ SumFunctionOnSet(served, hosts) <= Total(served)
<1>0. IsFiniteSet(Workers) /\ MaxRequests \in Nat /\ \A h \in Workers : served[h] \in 0..MaxRequests
  BY PipelineAssumption
<1>1. Total(served) = SumFunctionOnSet(served, Workers)
  BY DEF Total, SumFunction
<1>2. ASSUME NEW hosts \in SUBSET Workers
      PROVE  /\ SumFunctionOnSet(served, hosts) \in Nat
             /\ SumFunctionOnSet(served, hosts) <= SumFunctionOnSet(served, Workers)
  <2>1. IsFiniteSet(hosts) /\ \A h \in hosts : served[h] \in 0..MaxRequests /\ served[h] <= served[h]
    BY <1>0, FS_Subset
  <2>2. SumFunctionOnSet(served, hosts) \in Nat
    BY <1>0, <2>1, SumBound
  <2>3. SumFunctionOnSet(served, hosts) <= SumFunctionOnSet(served, Workers)
    BY <1>0, <2>1, SumMonotone
  <2> QED BY <2>2, <2>3
<1>3. ASSUME NEW h \in Workers
      PROVE  served[h] <= SumFunctionOnSet(served, Workers)
  <2>1. SumFunctionOnSet(served, Workers) = SumFunctionOnSet(served, Workers \ {h}) + served[h]
    BY <1>0, SumWithout
  <2>2. SumFunctionOnSet(served, Workers \ {h}) \in Nat /\ served[h] \in Nat
    BY <1>0, <1>2
  <2> QED BY <2>1, <2>2
<1> QED BY <1>1, <1>2, <1>3

\* A host answers one more request: every sum of what was served is as large as before.
LEMMA ServedMore ==
    ASSUME served \in [Workers -> 0..MaxRequests], served' \in [Workers -> 0..MaxRequests],
           \A h \in Workers : served[h] <= served'[h], NEW hosts \in SUBSET Workers
    PROVE  SumFunctionOnSet(served, hosts) <= SumFunctionOnSet(served', hosts)
<1>1. IsFiniteSet(hosts) /\ MaxRequests \in Nat
  BY PipelineAssumption, FS_Subset
<1>2. \A h \in hosts : served[h] \in 0..MaxRequests /\ served[h] <= served'[h]
  OBVIOUS
<1>3. \A h \in hosts : served'[h] \in 0..MaxRequests
  OBVIOUS
<1> QED BY <1>1, <1>2, <1>3, SumMonotone

\* The counters' types.
StatTypeOK ==
    /\ served \in [Workers -> 0..MaxRequests] /\ count \in [Workers -> 0..MaxRequests]
    /\ shipped \in [Workers -> 0..MaxRequests]
    /\ collector \in [at : {"idle", "scan"}, seen : SUBSET Workers, sum : Nat]
    /\ row \in Nat /\ repeats \in 0..MaxRepeats

StatInv == StatTypeOK /\ FigureInv

\* A request.
LEMMA RequestKeepsFigure ==
    ASSUME StatInv, NEW h \in Workers, Request(h)
    PROVE  StatInv'
<1> USE DEF StatInv, StatTypeOK
<1>1. /\ served' = [served EXCEPT ![h] = served[h] + 1]
      /\ count' = [count EXCEPT ![h] = count[h] + 1]
      /\ Total(served) < MaxRequests
      /\ UNCHANGED <<shipped, collector, row, repeats>>
  BY DEF Request
<1>2. MaxRequests \in Nat /\ \A g \in Workers : served[g] \in 0..MaxRequests /\ count[g] \in 0..MaxRequests
  BY PipelineAssumption
<1>3. served[h] < MaxRequests /\ count[h] <= served[h]
  BY <1>1, <1>2, TotalServed DEF FigureInv
<1>4. served' \in [Workers -> 0..MaxRequests] /\ count' \in [Workers -> 0..MaxRequests]
  BY <1>1, <1>2, <1>3
<1>5. \A g \in Workers : /\ served'[g] = IF g = h THEN served[g] + 1 ELSE served[g]
                         /\ count'[g] = IF g = h THEN count[g] + 1 ELSE count[g]
  BY <1>1
<1>6. \A g \in Workers : served[g] <= served'[g] /\ count'[g] <= served'[g] /\ shipped[g] <= served'[g]
  BY <1>2, <1>5 DEF FigureInv
<1>7. ASSUME repeats = 0
      PROVE  collector.sum <= SumFunctionOnSet(served', collector.seen) /\ row <= Total(served')
  <2>1. collector.sum <= SumFunctionOnSet(served, collector.seen) /\ row <= Total(served)
    BY <1>7 DEF FigureInv, NeverOverstated
  <2>2. collector.seen \in SUBSET Workers /\ collector.sum \in Nat /\ row \in Nat
    OBVIOUS
  <2>3. /\ SumFunctionOnSet(served, collector.seen) <= SumFunctionOnSet(served', collector.seen)
        /\ SumFunctionOnSet(served, Workers) <= SumFunctionOnSet(served', Workers)
    BY <1>4, <1>6, <2>2, ServedMore
  <2>4. /\ SumFunctionOnSet(served, collector.seen) \in Nat
        /\ Total(served) = SumFunctionOnSet(served, Workers) /\ Total(served) \in Nat
    BY <2>2, TotalServed
  <2>5. /\ SumFunctionOnSet(served', collector.seen) \in Nat
        /\ Total(served') = SumFunctionOnSet(served', Workers) /\ Total(served') \in Nat
    <3>1. IsFiniteSet(Workers) /\ IsFiniteSet(collector.seen)
      BY <2>2, PipelineAssumption, FS_Subset
    <3>2. \A g \in Workers : served'[g] \in 0..MaxRequests
      BY <1>4
    <3>3. Total(served') = SumFunctionOnSet(served', Workers)
      BY <1>4 DEF Total, SumFunction
    <3> QED BY <1>2, <2>2, <3>1, <3>2, <3>3, SumBound
  <2> QED BY <2>1, <2>2, <2>3, <2>4, <2>5
<1> QED BY <1>1, <1>4, <1>6, <1>7 DEF FigureInv, NeverOverstated

\* A key that the scan returns for the first time adds no more than its host has served.
LEMMA AbsorbKeepsFigure ==
    ASSUME StatInv, NEW h \in Workers, AbsorbStat(h)
    PROVE  StatInv'
<1> USE DEF StatInv, StatTypeOK
<1>1. /\ collector' = [collector EXCEPT !.seen = collector.seen \cup {h},
                                        !.sum = collector.sum + shipped[h]]
      /\ IF h \in collector.seen THEN repeats < MaxRepeats /\ repeats' = repeats + 1
         ELSE UNCHANGED repeats
      /\ UNCHANGED <<served, count, shipped, row>>
  BY DEF AbsorbStat
<1>2. /\ collector.sum \in Nat /\ collector.seen \in SUBSET Workers
      /\ shipped[h] \in Nat /\ served[h] \in 0..MaxRequests /\ repeats \in Nat
      /\ MaxRepeats \in Nat /\ MaxRequests \in Nat /\ IsFiniteSet(collector.seen)
      /\ shipped[h] <= served[h]
  BY PipelineAssumption, RepeatsAssumption, FS_Subset DEF FigureInv
<1>3. /\ collector' \in [at : {"idle", "scan"}, seen : SUBSET Workers, sum : Nat]
      /\ collector'.seen = collector.seen \cup {h}
      /\ collector'.sum = collector.sum + shipped[h]
  <2>1. collector.sum + shipped[h] \in Nat /\ collector.seen \cup {h} \in SUBSET Workers
    BY <1>2
  <2>2. collector \in [at : {"idle", "scan"}, seen : SUBSET Workers, sum : Nat]
    OBVIOUS
  <2>3. collector' \in [at : {"idle", "scan"}, seen : SUBSET Workers, sum : Nat]
    BY <1>1, <2>1, <2>2, Zenon
  <2>4. collector'.seen = collector.seen \cup {h}
    BY <1>1, <2>2
  <2>5. collector'.sum = collector.sum + shipped[h]
    BY <1>1, <2>2
  <2> QED BY <2>3, <2>4, <2>5
<1>4. repeats' \in 0..MaxRepeats
  BY <1>1, <1>2
<1>5. ASSUME repeats' = 0
      PROVE  collector'.sum <= SumFunctionOnSet(served, collector'.seen)
  <2>1. h \notin collector.seen /\ repeats = 0
    BY <1>1, <1>2, <1>5
  <2>2. \A g \in collector.seen : served[g] \in 0..MaxRequests
    BY <1>2
  <2>3. SumFunctionOnSet(served, collector.seen \cup {h})
          = SumFunctionOnSet(served, collector.seen) + served[h]
    BY <1>2, <2>1, <2>2, SumAdd
  <2>4. /\ collector.sum <= SumFunctionOnSet(served, collector.seen)
        /\ SumFunctionOnSet(served, collector.seen) \in Nat
    BY <1>2, <2>1, TotalServed DEF FigureInv
  <2> QED BY <1>2, <1>3, <2>3, <2>4
<1>6. repeats' = 0 => repeats = 0
  BY <1>1, <1>2
<1> QED BY <1>1, <1>3, <1>4, <1>5, <1>6 DEF FigureInv, NeverOverstated

\* What is written was summed from hosts that have each been seen once, so all of them
\* together have served as much.
LEMMA UpsertKeepsFigure ==
    ASSUME StatInv, UpsertStat \/ PassEnds \/ StartScan \/ PurgeOldStats
    PROVE  StatInv'
<1> USE DEF StatInv, StatTypeOK
<1>1. /\ UNCHANGED <<served, count, shipped, repeats>>
      /\ \/ collector' = Idle
         \/ collector = Idle /\ collector' = [collector EXCEPT !.at = "scan"]
         \/ UNCHANGED collector
      /\ row' = row \/ row' = 0 \/ row' = collector.sum
  BY DEF UpsertStat, PassEnds, StartScan, PurgeOldStats
<1>2. collector.seen \in SUBSET Workers /\ collector.sum \in Nat /\ {} \in SUBSET Workers
  OBVIOUS
<1>3. /\ collector' \in [at : {"idle", "scan"}, seen : SUBSET Workers, sum : Nat]
      /\ collector'.sum = 0 \/ (collector'.sum = collector.sum /\ collector'.seen = collector.seen)
  BY <1>1 DEF Idle
<1>4. /\ SumFunctionOnSet(served, collector.seen) \in Nat
      /\ SumFunctionOnSet(served, collector'.seen) \in Nat
      /\ SumFunctionOnSet(served, collector.seen) <= Total(served) /\ Total(served) \in Nat
  BY <1>2, <1>3, TotalServed
<1>5. repeats = 0 => /\ collector'.sum <= SumFunctionOnSet(served, collector'.seen)
                     /\ row' <= Total(served)
  BY <1>1, <1>2, <1>3, <1>4 DEF FigureInv, NeverOverstated
<1> QED BY <1>1, <1>2, <1>3, <1>5 DEF FigureInv, NeverOverstated

\* Every step of the counters, of the collector and of the pipeline.
LEMMA FigureStep ==
    ASSUME StatInv, [RequestNext]_logVars
    PROVE  StatInv'
<1> USE DEF StatInv, StatTypeOK
<1>1. ASSUME NEW h \in Workers, FlushStats(h) \/ NginxExits(h) \/ StatExpires(h) PROVE StatInv'
  <2>1. /\ UNCHANGED <<served, collector, row, repeats>>
        /\ \A g \in Workers : count'[g] = count[g] \/ count'[g] = 0
        /\ \A g \in Workers : shipped'[g] = shipped[g] \/ shipped'[g] = 0 \/ shipped'[g] = count[g]
        /\ count' \in [Workers -> 0..MaxRequests] /\ shipped' \in [Workers -> 0..MaxRequests]
    BY <1>1, PipelineAssumption DEF FlushStats, NginxExits, StatExpires
  <2>2. \A g \in Workers : 0 <= served[g]
    BY PipelineAssumption
  <2>3. \A g \in Workers : count'[g] <= served[g] /\ shipped'[g] <= served[g]
    BY <2>1, <2>2 DEF FigureInv
  <2> QED BY <2>1, <2>3 DEF FigureInv, NeverOverstated
<1>2. ASSUME NEW h \in Workers, Request(h) \/ AbsorbStat(h) PROVE StatInv'
  BY <1>2, RequestKeepsFigure, AbsorbKeepsFigure
<1>3. CASE StartScan \/ UpsertStat \/ PassEnds \/ PurgeOldStats
  BY <1>3, UpsertKeepsFigure
<1>4. CASE UNCHANGED statVars
  BY <1>4 DEF statVars, FigureInv, NeverOverstated
<1> QED BY <1>1, <1>2, <1>3, <1>4 DEF RequestNext, ShipEvents, logVars

\* No request has been served and nothing counted.
LEMMA FigureInitially ==
    ASSUME StatInit
    PROVE  StatInv
<1>1. /\ served = [h \in Workers |-> 0] /\ count = [h \in Workers |-> 0]
      /\ shipped = [h \in Workers |-> 0]
      /\ collector = Idle /\ row = 0 /\ repeats = 0
  BY DEF StatInit
<1>2. StatTypeOK
  BY <1>1, PipelineAssumption, RepeatsAssumption DEF StatTypeOK, Idle
<1>3. /\ SumFunctionOnSet(served, collector.seen) \in Nat
      /\ Total(served) \in Nat
  BY <1>2, TotalServed DEF StatTypeOK
<1>4. collector.sum = 0
  BY <1>1 DEF Idle
<1>5. FigureInv
  BY <1>1, <1>3, <1>4 DEF FigureInv, NeverOverstated
<1> QED BY <1>2, <1>5 DEF StatInv

LEMMA FigureInvariant == RequestSpec => []StatInv
<1>1. RequestInit => StatInv
  BY FigureInitially DEF RequestInit
<1>2. StatInv /\ [RequestNext]_logVars => StatInv'
  BY FigureStep
<1> QED BY <1>1, <1>2, PTL DEF RequestSpec

\* The state of the pipeline and of the counters keeps its types (log.lua, consumer.go,
\* events.go).
THEOREM LogTypeCorrect == RequestSpec => []LogTypeOK
<1>1. PipeInv /\ StatInv => LogTypeOK
  BY DEF PipeInv, StatInv, StatTypeOK, LogTypeOK
<1> QED BY <1>1, PipeInvariant, FigureInvariant, PTL

\* The graph never shows more requests than were served, on any number of hosts, however
\* often their counters are shipped and whenever they restart, as long as SCAN returns no key
\* twice (consumer.go collectStats).
THEOREM FigureNotOverstated == RequestSpec => []NeverOverstated
<1>1. StatInv => NeverOverstated
  BY DEF StatInv, FigureInv
<1> QED BY <1>1, FigureInvariant, PTL
=============================================================================
