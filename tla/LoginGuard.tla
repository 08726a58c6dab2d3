----------------------------- MODULE LoginGuard -----------------------------
(***************************************************************************)
(* loginGuard in auth.go: failed sign-ins counted by key, and the locks    *)
(* they lead to.  Every operation holds the guard's mutex from beginning   *)
(* to end, so each is one step; the slow password check between blocked()  *)
(* and fail() or success() is outside it.                                  *)
(***************************************************************************)
EXTENDS Integers, FiniteSets

CONSTANTS
    Keys,        \* what failures are counted by: an address, or a site and an address
    Soft, Hard,  \* failures that earn the short and the long lock: 5 and 10
    SoftLock,    \* ticks of the short lock: 5 minutes
    HardLock,    \* ticks of the long lock: 30 minutes
    Retention,   \* guardRetention: ticks a record outlives its last failure
    MaxRecords   \* guardMaxIPs

ASSUME GuardAssumption ==
    /\ IsFiniteSet(Keys)
    /\ {Soft, Hard, SoftLock, HardLock, Retention, MaxRecords} \subseteq Nat \ {0}
    /\ Soft < Hard /\ SoftLock < HardLock

VARIABLE guard   \* guard[k]: the record of key k, NoRecord if there is none

\* fails is followed up to Hard, since that is as far as the code tells counts apart; lock is
\* the time left until the field `until`, age the time since `last`.
Records == [fails : 0..Hard, lock : 0..HardLock, age : 0..(Retention + 1)]
NoRecord == [fails |-> 0, lock |-> 0, age |-> 0]

Known == {k \in Keys : guard[k] # NoRecord}

Blocked(k) == guard[k].lock > 0

\* The record with the oldest failure; the map's order decides between equals.
EvictOldest(k) == k \in Known /\ \A o \in Known : guard[o].age <= guard[k].age

Counted(r) ==
    LET fails == IF r.fails < Hard THEN r.fails + 1 ELSE Hard
    IN  [fails |-> fails, age |-> 0,
         lock |-> IF fails >= Hard THEN HardLock
                  ELSE IF fails >= Soft THEN SoftLock ELSE r.lock]

\* Mutant: the ceiling is off by one.
FailOneMore(k) ==
    IF k \in Known \/ Cardinality(Known) <= MaxRecords
    THEN guard' = [guard EXCEPT ![k] = Counted(@)]
    ELSE \E victim \in Keys :
            /\ EvictOldest(victim)
            /\ guard' = [guard EXCEPT ![victim] = NoRecord, ![k] = Counted(NoRecord)]

Fail(k) ==
    IF k \in Known \/ Cardinality(Known) < MaxRecords
    THEN guard' = [guard EXCEPT ![k] = Counted(@)]
    ELSE \E victim \in Keys :
            /\ EvictOldest(victim)
            /\ guard' = [guard EXCEPT ![victim] = NoRecord, ![k] = Counted(NoRecord)]

Success(k) == guard' = [guard EXCEPT ![k] = NoRecord]

\* cleanup() runs it every minute.
Reap ==
    /\ \E k \in Known : guard[k].lock = 0 /\ guard[k].age > Retention
    /\ guard' = [k \in Keys |-> IF guard[k].lock = 0 /\ guard[k].age > Retention
                                THEN NoRecord ELSE guard[k]]

\* Mutant: a lock that counts on below zero.
OlderPastZero(r) ==
    [fails |-> r.fails, lock |-> r.lock - 1,
     age |-> IF r.age <= Retention THEN r.age + 1 ELSE r.age]

Older(r) ==
    [fails |-> r.fails, lock |-> IF r.lock > 0 THEN r.lock - 1 ELSE 0,
     age |-> IF r.age <= Retention THEN r.age + 1 ELSE r.age]

GuardTick == guard' = [k \in Keys |-> IF k \in Known THEN Older(guard[k]) ELSE NoRecord]

GuardInit == guard = [k \in Keys |-> NoRecord]

\* The guard holds no more records than its ceiling, however many keys fail, at once or in
\* turn (fail: "Hard ceiling as well as the timed reap").
GuardBounded == Cardinality(Known) <= MaxRecords
=============================================================================
