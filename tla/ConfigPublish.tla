--------------------------- MODULE ConfigPublish ---------------------------
(***************************************************************************)
(* The control plane's side of the configuration: an admin handler saves a *)
(* change to the database and calls Publisher.Publish, which reads every   *)
(* table, writes the whole configuration to one Redis key and rewrites the *)
(* nginx files.                                                            *)
(*                                                                         *)
(* What a table holds is the number of changes made to it: that is all it  *)
(* takes to tell an old configuration from a new one.                      *)
(***************************************************************************)
EXTENDS Integers, FiniteSets

CONSTANTS
    Callers,        \* goroutines that can be in Publish at once: admin handlers, the
                    \* crawler refresh, the event consumer, the certifier, main()
    NumTables,      \* tables Publish reads, in order, outside a transaction
    MaxSaves,       \* bound: changes made to each table
    MaxPublishes,   \* bound: configurations published
    MaxFaults       \* bound: failed queries, writes and crashes

ASSUME PublishAssumption ==
    /\ IsFiniteSet(Callers) /\ Callers # {}
    /\ NumTables \in Nat \ {0}
    /\ MaxSaves \in Nat
    /\ MaxPublishes \in Nat
    /\ MaxFaults \in Nat

VARIABLES
    db,       \* db[t]: changes saved to table t
    lock,     \* Publisher.mu: the caller that holds it, or nobody
    call,     \* what each caller is doing
    snap,     \* what each caller has read so far
    stamp,    \* the last version given to a configuration
    redis,    \* the key moswaf:config; Defaults when it is not there
    acked,    \* acked[t]: the latest change to table t the API has answered 200 for
    faults    \* failures so far

Tables == 1..NumTables
Contents == [Tables -> 0..MaxSaves]
Nothing == [t \in Tables |-> 0]

\* A configuration is what Publish read, and the version it stamped on it.  Defaults is
\* config.lua's own, with which a data plane starts and which no database holds.
Configs == [ver : Nat, of : Contents]
Defaults == [ver |-> 0, of |-> Nothing]

CallRecords ==
    [at : {"idle", "lock", "read", "set", "write"},
     table : 0..NumTables, change : 0..MaxSaves, next : 0..NumTables]
Idle == [at |-> "idle", table |-> 0, change |-> 0, next |-> 0]

publishVars == <<db, lock, call, snap, stamp, redis, acked, faults>>

Fault == faults < MaxFaults /\ faults' = faults + 1
Active == {c \in Callers : call[c] # Idle}
Room == stamp + Cardinality(Active) < MaxPublishes

Goto(c, place) == call' = [call EXCEPT ![c].at = place]

\* Publish returns: the deferred Unlock runs.
Return(c) ==
    /\ lock' = {}
    /\ call' = [call EXCEPT ![c] = Idle] /\ snap' = [snap EXCEPT ![c] = Nothing]

-----------------------------------------------------------------------------
\* A handler writes its change to the database and goes on to publish().
Save(c, t) ==
    /\ call[c] = Idle /\ db[t] < MaxSaves /\ Room
    /\ db' = [db EXCEPT ![t] = @ + 1]
    /\ call' = [call EXCEPT ![c] = [at |-> "lock", table |-> t, change |-> db[t] + 1, next |-> 0]]
    /\ UNCHANGED <<lock, snap, stamp, redis, acked, faults>>

\* The callers that have changed no table: POST /api/publish, the crawler refresh.
Republish(c) ==
    /\ call[c] = Idle /\ Room
    /\ Goto(c, "lock")
    /\ UNCHANGED <<db, lock, snap, stamp, redis, acked, faults>>

\* Mutant: Publish without its mutex.
LockIgnored(c) ==
    /\ call[c].at = "lock"
    /\ lock' = {c}
    /\ call' = [call EXCEPT ![c].at = "read", ![c].next = 1]
    /\ UNCHANGED <<db, snap, stamp, redis, acked, faults>>

Lock(c) ==
    /\ call[c].at = "lock" /\ lock = {}
    /\ lock' = {c}
    /\ call' = [call EXCEPT ![c].at = "read", ![c].next = 1]
    /\ UNCHANGED <<db, snap, stamp, redis, acked, faults>>

\* Mutant: the position moves past the last table.
ReadTablePastEnd(c) ==
    /\ call[c].at = "read"
    /\ snap' = [snap EXCEPT ![c][call[c].next] = db[call[c].next]]
    /\ call' = [call EXCEPT ![c].next = @ + 1,
                            ![c].at = IF call[c].next = NumTables THEN "set" ELSE "read"]
    /\ UNCHANGED <<db, lock, stamp, redis, acked, faults>>

\* One query; a query that fails, or whose request was cancelled, ends Publish.
ReadTable(c) ==
    /\ call[c].at = "read"
    /\ \/ /\ snap' = [snap EXCEPT ![c][call[c].next] = db[call[c].next]]
          /\ IF call[c].next = NumTables THEN Goto(c, "set")
             ELSE call' = [call EXCEPT ![c].next = @ + 1]
          /\ UNCHANGED <<lock, faults>>
       \/ Fault /\ Return(c)
    /\ UNCHANGED <<db, stamp, redis, acked>>

\* The version is the time in milliseconds.  Publish reads eight tables and calls Redis
\* under its lock, so that two configurations never get the same one.
SetRedis(c) ==
    /\ call[c].at = "set"
    /\ stamp' = stamp + 1
    /\ LET config == [ver |-> stamp + 1, of |-> snap[c]]
       IN  \/ /\ redis' = config
              /\ Goto(c, "write") /\ UNCHANGED <<lock, snap, faults>>
           \/ /\ redis' \in {redis, config}
              /\ Fault /\ Return(c)
    /\ UNCHANGED <<db, acked>>

\* WriteSiteConfigs, then the answer: 200, or "saved, but could not apply it".
WriteFiles(c) ==
    /\ call[c].at = "write"
    /\ \/ /\ acked' = IF call[c].table = 0 THEN acked
                      ELSE [acked EXCEPT ![call[c].table] =
                               IF call[c].change > @ THEN call[c].change ELSE @]
          /\ UNCHANGED faults
       \/ Fault /\ UNCHANGED acked
    /\ Return(c)
    /\ UNCHANGED <<db, stamp, redis>>

\* moswafd stops wherever it is and starts again: main() publishes before it serves.
Crash ==
    /\ Fault /\ stamp < MaxPublishes
    /\ lock' = {} /\ snap' = [c \in Callers |-> Nothing]
    /\ \E boot \in Callers :
          call' = [c \in Callers |-> IF c = boot THEN [Idle EXCEPT !.at = "lock"] ELSE Idle]
    /\ UNCHANGED <<db, stamp, redis, acked>>

PublishStep ==
    \/ \E c \in Callers :
          \/ \E t \in Tables : Save(c, t)
          \/ Republish(c) \/ Lock(c) \/ ReadTable(c) \/ SetRedis(c) \/ WriteFiles(c)
    \/ Crash

PublishInit ==
    /\ db = Nothing /\ acked = Nothing
    /\ lock = {} /\ stamp = 0
    /\ call = [c \in Callers |-> Idle] /\ snap = [c \in Callers |-> Nothing]
    /\ redis = Defaults
    /\ faults = 0

PublishTypeOK ==
    /\ db \in Contents /\ acked \in Contents /\ snap \in [Callers -> Contents]
    /\ lock \in SUBSET Callers
    /\ call \in [Callers -> CallRecords]
    /\ stamp \in Nat
    /\ redis \in Configs
    /\ faults \in 0..MaxFaults

PublishSpec == PublishInit /\ [][PublishStep]_publishVars

-----------------------------------------------------------------------------
(* Properties. *)

\* A change the API has answered 200 for is in the configuration Redis holds, for good:
\* however many handlers save and publish at once, however their queries interleave, no
\* publish puts back a configuration without it (Publish: "Call it after every admin change").
AckedIsPublished == \A t \in Tables : acked[t] <= redis.of[t]

\* What Publish knows when it holds the lock: everything acknowledged, and the change its own
\* caller made, is in the tables it has read so far, then in the configuration it has stored.
Covers(c, of, read) ==
    \A t \in read :
        /\ acked[t] <= of[t]
        /\ call[c].table = t => call[c].change <= of[t]

\* A caller past Lock holds the lock, and what it has read covers what must not be lost.
CallerOK(c) ==
    /\ call[c].at \in {"read", "set", "write"} => lock = {c}
    /\ \A t \in Tables : call[c].table = t => call[c].change <= db[t]
    /\ call[c].at = "read" => /\ call[c].next \in Tables
                              /\ Covers(c, snap[c], 1..(call[c].next - 1))
    /\ call[c].at = "set" => Covers(c, snap[c], Tables)
    /\ call[c].at = "write" => Covers(c, redis.of, Tables)

\* The inductive invariant behind AckedIsPublished.
PublishInv ==
    /\ PublishTypeOK
    /\ AckedIsPublished
    /\ \A t \in Tables : acked[t] <= db[t]
    /\ \A c \in Callers : CallerOK(c)
=============================================================================
