------------------------ MODULE ConfigPublishProofs ------------------------
(***************************************************************************)
(* Proofs about Publisher.Publish, for any number of handlers that save    *)
(* and publish at once and any number of tables, and about config.lua, for *)
(* any number of workers.                                                  *)
(***************************************************************************)
EXTENDS ConfigSync, FiniteSetTheorems, TLAPS

\* The values everything starts from.
LEMMA StartTypes == Idle \in CallRecords /\ Nothing \in Contents
<1>1. 0 \in 0..NumTables /\ 0 \in 0..MaxSaves
  BY PublishAssumption
<1> QED BY <1>1 DEF Idle, CallRecords, Nothing, Contents

\* The failure counter stays within its bound.
LEMMA FaultType ==
    ASSUME faults \in 0..MaxFaults, Fault \/ UNCHANGED faults
    PROVE  faults' \in 0..MaxFaults
BY PublishAssumption DEF Fault

\* The step of one caller leaves every other caller's part of the invariant alone: one that
\* is not past Lock has read nothing yet, and one that is has the lock to itself.
LEMMA OthersKeep ==
    ASSUME NEW d \in Callers, CallerOK(d), call'[d] = call[d],
           call[d] \in CallRecords, db \in Contents, db' \in Contents,
           \A t \in Tables : db[t] <= db'[t],
           \/ call[d].at \in {"idle", "lock"}
           \/ UNCHANGED <<lock, acked, redis>> /\ snap'[d] = snap[d]
    PROVE  CallerOK(d)'
<1>1. \A t \in Tables : call'[d].table = t => call'[d].change <= db'[t]
  <2> TAKE t \in Tables
  <2>1. /\ db[t] \in Int /\ db'[t] \in Int /\ db[t] <= db'[t]
        /\ call[d].change \in Int
    BY PublishAssumption DEF Contents, CallRecords
  <2> QED BY <2>1 DEF CallerOK
<1>2. CASE call[d].at \in {"idle", "lock"}
  BY <1>1, <1>2 DEF CallerOK
<1>3. CASE UNCHANGED <<lock, acked, redis>> /\ snap'[d] = snap[d]
  BY <1>1, <1>3 DEF CallerOK, Covers
<1> QED BY <1>2, <1>3

\* While one caller is past Lock, no other is.
LEMMA OnlyOnePastLock ==
    ASSUME PublishInv, NEW c \in Callers, NEW d \in Callers \ {c},
           call[c].at \in {"read", "set", "write"}
    PROVE  call[d].at \in {"idle", "lock"}
<1>1. call[d].at \in {"idle", "lock", "read", "set", "write"}
  BY DEF PublishInv, PublishTypeOK, CallRecords
<1> QED BY <1>1 DEF PublishInv, CallerOK

\* Saving a change: it is now in the database, and its caller owes it to the configuration.
LEMMA SaveKeeps ==
    ASSUME PublishInv, NEW c \in Callers, NEW t \in Tables, Save(c, t)
    PROVE  PublishInv'
<1>1. /\ db \in Contents /\ db[t] \in 0..MaxSaves /\ db[t] + 1 \in 0..MaxSaves
      /\ acked \in Contents /\ call \in [Callers -> CallRecords]
  BY PublishAssumption DEF Save, PublishInv, PublishTypeOK, Contents
<1>2. /\ db' = [db EXCEPT ![t] = db[t] + 1]
      /\ call' = [call EXCEPT ![c] = [at |-> "lock", table |-> t, change |-> db[t] + 1, next |-> 0]]
      /\ UNCHANGED <<lock, snap, stamp, redis, acked, faults>>
  BY DEF Save
<1>3. db' \in Contents /\ db'[t] = db[t] + 1 /\ \A u \in Tables : db[u] <= db'[u]
  BY <1>1, <1>2, PublishAssumption DEF Contents
<1>4. call' \in [Callers -> CallRecords]
  <2>1. [at |-> "lock", table |-> t, change |-> db[t] + 1, next |-> 0] \in CallRecords
    BY <1>1, PublishAssumption DEF CallRecords, Tables
  <2> QED BY <1>1, <1>2, <2>1
<1>5. PublishTypeOK'
  BY <1>2, <1>3, <1>4 DEF PublishInv, PublishTypeOK
<1>6. AckedIsPublished' /\ \A u \in Tables : acked'[u] <= db'[u]
  <2>1. \A u \in Tables : acked[u] \in Int /\ db[u] \in Int /\ db'[u] \in Int
    BY <1>1, <1>3 DEF Contents
  <2> QED BY <1>2, <1>3, <2>1 DEF PublishInv, AckedIsPublished
<1>7. CallerOK(c)'
  <2>1. /\ call'[c].at = "lock" /\ call'[c].table = t /\ call'[c].change = db'[t]
        /\ db'[t] \in Int
    BY <1>1, <1>2, <1>3
  <2> QED BY <2>1 DEF CallerOK
<1>8. \A d \in Callers \ {c} : CallerOK(d)'
  BY <1>1, <1>2, <1>3, OthersKeep DEF PublishInv
<1> QED BY <1>5, <1>6, <1>7, <1>8 DEF PublishInv

\* A caller on its way to the lock, with no new change of its own.
LEMMA RepublishKeeps ==
    ASSUME PublishInv, NEW c \in Callers, Republish(c)
    PROVE  PublishInv'
<1>1. /\ call' = [call EXCEPT ![c].at = "lock"] /\ call[c] = Idle
      /\ UNCHANGED <<db, lock, snap, stamp, redis, acked, faults>>
  BY DEF Republish, Goto
<1>2. /\ call \in [Callers -> CallRecords] /\ db \in Contents
      /\ \A t \in Tables : db[t] \in Int /\ db[t] <= db[t]
  BY PublishAssumption DEF PublishInv, PublishTypeOK, Contents
<1>3. call' \in [Callers -> CallRecords]
  BY <1>1, <1>2 DEF CallRecords
<1>4. CallerOK(c)'
  BY <1>1, <1>2 DEF PublishInv, CallerOK, CallRecords
<1>5. \A d \in Callers \ {c} : CallerOK(d)'
  BY <1>1, <1>2, OthersKeep DEF PublishInv
<1> QED BY <1>1, <1>3, <1>4, <1>5 DEF PublishInv, PublishTypeOK, AckedIsPublished

\* Taking the lock: nothing has been read, so nothing has to be covered yet.
LEMMA LockKeeps ==
    ASSUME PublishInv, NEW c \in Callers, Lock(c)
    PROVE  PublishInv'
<1>1. /\ call' = [call EXCEPT ![c].at = "read", ![c].next = 1]
      /\ call[c].at = "lock" /\ lock = {} /\ lock' = {c}
      /\ UNCHANGED <<db, snap, stamp, redis, acked, faults>>
  BY DEF Lock
<1>2. /\ call \in [Callers -> CallRecords] /\ db \in Contents
      /\ \A t \in Tables : db[t] \in Int /\ db[t] <= db[t]
      /\ 1 \in Tables /\ 1 \in 0..NumTables
  BY PublishAssumption DEF PublishInv, PublishTypeOK, Contents, Tables
<1>3. call' \in [Callers -> CallRecords]
  BY <1>1, <1>2 DEF CallRecords
<1>4. CallerOK(c)'
  <2>1. /\ call'[c].at = "read" /\ call'[c].next = 1
        /\ call'[c].table = call[c].table /\ call'[c].change = call[c].change
    BY <1>1, <1>2 DEF CallRecords
  <2>2. Covers(c, snap[c], 1..(call[c].next - 1))'
    BY <2>1 DEF Covers
  <2> QED BY <1>1, <1>2, <2>1, <2>2 DEF PublishInv, CallerOK
<1>5. \A d \in Callers \ {c} : CallerOK(d)'
  <2> TAKE d \in Callers \ {c}
  <2>1. call[d].at \in {"idle", "lock"}
    BY <1>1, <1>2 DEF PublishInv, CallerOK, CallRecords
  <2> QED BY <1>1, <1>2, <2>1, OthersKeep DEF PublishInv
<1> QED BY <1>1, <1>3, <1>4, <1>5 DEF PublishInv, PublishTypeOK, AckedIsPublished

\* Publish returns early: nothing is acknowledged, and whatever Redis holds still covers
\* what was acknowledged before.
LEMMA ReturnKeeps ==
    ASSUME PublishInv, NEW c \in Callers, call[c].at \in {"read", "set", "write"},
           Return(c), UNCHANGED db, acked' \in Contents, redis' \in Configs, stamp' \in Nat,
           faults' \in 0..MaxFaults, AckedIsPublished',
           \A t \in Tables : acked'[t] <= db[t]
    PROVE  PublishInv'
<1>1. /\ call' = [call EXCEPT ![c] = Idle] /\ snap' = [snap EXCEPT ![c] = Nothing]
      /\ lock' = {}
  BY DEF Return
<1>2. /\ call \in [Callers -> CallRecords] /\ db \in Contents
      /\ snap \in [Callers -> Contents]
      /\ \A t \in Tables : db[t] \in 0..MaxSaves /\ db[t] <= db[t]
  BY PublishAssumption DEF PublishInv, PublishTypeOK, Contents
<1>3. call' \in [Callers -> CallRecords] /\ snap' \in [Callers -> Contents]
  BY <1>1, <1>2, StartTypes
<1>4. CallerOK(c)'
  BY <1>1, <1>2 DEF CallerOK, Idle, Tables
<1>5. \A d \in Callers \ {c} : CallerOK(d)'
  BY <1>1, <1>2, OthersKeep, OnlyOnePastLock DEF PublishInv
<1> QED BY <1>1, <1>2, <1>3, <1>4, <1>5 DEF PublishInv, PublishTypeOK

\* Reading one more table.
LEMMA ReadKeeps ==
    ASSUME PublishInv, NEW c \in Callers, ReadTable(c)
    PROVE  PublishInv'
<1> DEFINE n == call[c].next
<1>0. /\ call[c].at = "read" /\ UNCHANGED <<db, stamp, redis, acked>>
      /\ n \in Tables /\ n \in Nat /\ NumTables \in Nat
      /\ call \in [Callers -> CallRecords] /\ db \in Contents /\ acked \in Contents
      /\ snap \in [Callers -> Contents] /\ faults \in 0..MaxFaults
      /\ \A t \in Tables : db[t] \in 0..MaxSaves /\ db[t] <= db[t]
  BY PublishAssumption
     DEF ReadTable, PublishInv, PublishTypeOK, CallerOK, Contents, Tables
<1>1. CASE Fault /\ Return(c)
  <2>1. faults' \in 0..MaxFaults
    BY <1>0, <1>1, FaultType
  <2> QED BY <1>0, <1>1, <2>1, ReturnKeeps
          DEF PublishInv, PublishTypeOK, AckedIsPublished
<1>2. CASE /\ snap' = [snap EXCEPT ![c][n] = db[n]]
           /\ IF n = NumTables THEN Goto(c, "set") ELSE call' = [call EXCEPT ![c].next = @ + 1]
           /\ UNCHANGED <<lock, faults>>
  <2>1. /\ snap' \in [Callers -> Contents]
        /\ snap'[c][n] = db[n] /\ \A t \in Tables \ {n} : snap'[c][t] = snap[c][t]
        /\ \A d \in Callers \ {c} : snap'[d] = snap[d]
    BY <1>0, <1>2 DEF Contents
  <2>2. /\ call' \in [Callers -> CallRecords]
        /\ call'[c].table = call[c].table /\ call'[c].change = call[c].change
        /\ \A d \in Callers \ {c} : call'[d] = call[d]
        /\ \/ n = NumTables /\ call'[c].at = "set"
           \/ n # NumTables /\ call'[c].at = "read" /\ call'[c].next = n + 1
    <3>1. CASE n = NumTables
      BY <1>0, <1>2, <3>1 DEF Goto, CallRecords
    <3>2. CASE n # NumTables
      <4>1. n + 1 \in 0..NumTables
        BY <1>0, <3>2 DEF Tables
      <4> QED BY <1>0, <1>2, <3>2, <4>1 DEF CallRecords
    <3> QED BY <3>1, <3>2
  <2>3. \A t \in 1..n :
            /\ acked[t] <= snap'[c][t]
            /\ call[c].table = t => call[c].change <= snap'[c][t]
    <3> TAKE t \in 1..n
    <3>1. CASE t = n
      BY <1>0, <2>1, <3>1 DEF PublishInv, CallerOK
    <3>2. CASE t # n
      <4>1. t \in 1..(n - 1) /\ t \in Tables \ {n}
        BY <1>0, <3>2 DEF Tables
      <4> QED BY <1>0, <2>1, <4>1 DEF PublishInv, CallerOK, Covers
    <3> QED BY <3>1, <3>2
  <2>4. CallerOK(c)'
    <3>1. CASE n = NumTables
      BY <1>0, <1>2, <2>2, <2>3, <3>1 DEF PublishInv, CallerOK, Covers, Tables
    <3>2. CASE n # NumTables
      <4>1. n + 1 \in Tables /\ (n + 1) - 1 = n
        BY <1>0, <3>2 DEF Tables
      <4>2. Covers(c, snap[c], 1..(call[c].next - 1))'
        BY <1>0, <2>2, <2>3, <3>2, <4>1 DEF Covers
      <4> QED BY <1>0, <1>2, <2>2, <3>2, <4>1, <4>2 DEF PublishInv, CallerOK
    <3> QED BY <3>1, <3>2
  <2>5. \A d \in Callers \ {c} : CallerOK(d)'
    BY <1>0, <1>2, <2>1, <2>2, OthersKeep DEF PublishInv
  <2> QED BY <1>0, <1>2, <2>1, <2>2, <2>4, <2>5 DEF PublishInv, PublishTypeOK, AckedIsPublished
<1> QED BY <1>1, <1>2 DEF ReadTable

\* Storing the configuration.  It replaces the previous one, and covers what that one did:
\* everything acknowledged was read under the lock.
LEMMA SetRedisKeeps ==
    ASSUME PublishInv, NEW c \in Callers, SetRedis(c)
    PROVE  PublishInv'
<1> DEFINE config == [ver |-> stamp + 1, of |-> snap[c]]
<1>0. /\ call[c].at = "set" /\ UNCHANGED <<db, acked>> /\ stamp' = stamp + 1
      /\ call \in [Callers -> CallRecords] /\ db \in Contents /\ acked \in Contents
      /\ snap \in [Callers -> Contents] /\ stamp \in Nat /\ faults \in 0..MaxFaults
      /\ \A t \in Tables : db[t] \in 0..MaxSaves /\ db[t] <= db[t]
      /\ redis \in Configs
  BY PublishAssumption DEF SetRedis, PublishInv, PublishTypeOK, Contents
<1>1. config \in Configs /\ config.of = snap[c]
  BY <1>0 DEF Configs
<1>2. Covers(c, snap[c], Tables)
  BY <1>0 DEF PublishInv, CallerOK
<1>3. CASE redis' \in {redis, config} /\ Fault /\ Return(c)
  <2>1. faults' \in 0..MaxFaults
    BY <1>0, <1>3, FaultType
  <2>2. AckedIsPublished'
    BY <1>0, <1>1, <1>2, <1>3 DEF PublishInv, AckedIsPublished, Covers
  <2>3. redis' \in Configs /\ stamp' \in Nat /\ acked' \in Contents
        /\ \A t \in Tables : acked'[t] <= db[t]
    BY <1>0, <1>1, <1>3 DEF PublishInv
  <2> QED BY <1>0, <1>3, <2>1, <2>2, <2>3, ReturnKeeps
<1>4. CASE redis' = config /\ Goto(c, "write") /\ UNCHANGED <<lock, snap, faults>>
  <2>1. /\ call' \in [Callers -> CallRecords] /\ call'[c].at = "write"
        /\ call'[c].table = call[c].table /\ call'[c].change = call[c].change
        /\ \A d \in Callers \ {c} : call'[d] = call[d]
    BY <1>0, <1>4 DEF Goto, CallRecords
  <2>2. AckedIsPublished'
    BY <1>0, <1>1, <1>2, <1>4 DEF AckedIsPublished, Covers
  <2>3. CallerOK(c)'
    BY <1>0, <1>1, <1>2, <1>4, <2>1 DEF PublishInv, CallerOK, Covers
  <2>4. \A d \in Callers \ {c} : CallerOK(d)'
    BY <1>0, <2>1, OthersKeep, OnlyOnePastLock DEF PublishInv
  <2>5. PublishTypeOK'
    BY <1>0, <1>1, <1>4, <2>1 DEF PublishInv, PublishTypeOK
  <2> QED BY <1>0, <2>2, <2>3, <2>4, <2>5 DEF PublishInv
<1> QED BY <1>3, <1>4 DEF SetRedis

\* Answering: the change that is acknowledged is in the configuration just stored.
LEMMA WriteKeeps ==
    ASSUME PublishInv, NEW c \in Callers, WriteFiles(c)
    PROVE  PublishInv'
<1>0. /\ call[c].at = "write" /\ Return(c) /\ UNCHANGED <<db, stamp, redis>>
      /\ call[c] \in CallRecords /\ db \in Contents /\ acked \in Contents
      /\ stamp \in Nat /\ redis \in Configs /\ faults \in 0..MaxFaults
  BY DEF WriteFiles, PublishInv, PublishTypeOK
<1>1. faults' \in 0..MaxFaults
  BY <1>0, FaultType DEF WriteFiles
<1>2. /\ acked' \in Contents
      /\ \A t \in Tables :
            \/ acked'[t] = acked[t]
            \/ call[c].table = t /\ acked'[t] = call[c].change
  <2>1. CASE acked' = acked
    BY <1>0, <2>1
  <2>2. CASE acked' = [acked EXCEPT ![call[c].table] =
                          IF call[c].change > @ THEN call[c].change ELSE @]
    <3>1. call[c].change \in 0..MaxSaves
      BY <1>0 DEF CallRecords
    <3> QED BY <1>0, <2>2, <3>1 DEF Contents
  <2> QED BY <2>1, <2>2 DEF WriteFiles
<1>3. AckedIsPublished' /\ \A t \in Tables : acked'[t] <= db[t]
  BY <1>0, <1>2 DEF PublishInv, CallerOK, Covers, AckedIsPublished
<1> QED BY <1>0, <1>1, <1>2, <1>3, ReturnKeeps

\* A crash loses the callers and the lock, and nothing that was acknowledged.
LEMMA CrashKeeps ==
    ASSUME PublishInv, Crash
    PROVE  PublishInv'
<1>1. PICK boot \in Callers :
          call' = [c \in Callers |-> IF c = boot THEN [Idle EXCEPT !.at = "lock"] ELSE Idle]
  BY DEF Crash
<1>2. /\ lock' = {} /\ snap' = [c \in Callers |-> Nothing]
      /\ UNCHANGED <<db, stamp, redis, acked>> /\ faults' \in 0..MaxFaults
  BY FaultType DEF Crash, PublishInv, PublishTypeOK
<1>3. call' \in [Callers -> CallRecords] /\ snap' \in [Callers -> Contents]
  BY <1>1, <1>2, StartTypes DEF CallRecords
<1>4. \A c \in Callers : call'[c].at \in {"idle", "lock"} /\ call'[c].table = 0
  BY <1>1 DEF Idle
<1>5. \A c \in Callers : CallerOK(c)'
  BY <1>4 DEF CallerOK, Tables
<1> QED BY <1>2, <1>3, <1>5 DEF PublishInv, PublishTypeOK, AckedIsPublished

-----------------------------------------------------------------------------
(* The theorems. *)

\* Every step of the control plane keeps the invariant.
LEMMA PublishStepKeeps ==
    ASSUME PublishInv, [PublishStep]_publishVars
    PROVE  PublishInv'
<1>1. CASE PublishStep
  BY <1>1, SaveKeeps, RepublishKeeps, LockKeeps, ReadKeeps, SetRedisKeeps, WriteKeeps, CrashKeeps
     DEF PublishStep
<1>2. CASE UNCHANGED publishVars
  BY <1>2 DEF publishVars, PublishInv, PublishTypeOK, AckedIsPublished, CallerOK, Covers
<1> QED BY <1>1, <1>2

\* The invariant holds of an empty database and an empty Redis.
LEMMA PublishInitially ==
    ASSUME PublishInit
    PROVE  PublishInv
<1>1. \A t \in Tables : Nothing[t] = 0
  BY DEF Nothing
<1>2. Defaults \in Configs /\ Defaults.of = Nothing
  BY StartTypes DEF Defaults, Configs
<1>3. PublishTypeOK
  BY <1>2, StartTypes, PublishAssumption DEF PublishInit, PublishTypeOK
<1>4. \A c \in Callers : CallerOK(c)
  BY DEF PublishInit, CallerOK, Idle, Tables
<1> QED BY <1>1, <1>2, <1>3, <1>4 DEF PublishInit, PublishInv, AckedIsPublished

\* A change the API has answered 200 for is never lost from the published configuration,
\* for any number of concurrent handlers, tables and failures (publisher.go Publish).
THEOREM AckedNeverLost == PublishSpec => []AckedIsPublished
<1>1. PublishInit => PublishInv
  BY PublishInitially
<1>2. PublishInv /\ [PublishStep]_publishVars => PublishInv'
  BY PublishStepKeeps
<1>3. PublishInv => AckedIsPublished
  BY DEF PublishInv
<1> QED BY <1>1, <1>2, <1>3, PTL DEF PublishSpec

-----------------------------------------------------------------------------
(* The bound on versions: VersionInv. *)

\* How many callers may still stamp a configuration.
LEMMA PendingCount ==
    /\ IsFiniteSet(Pending) /\ Cardinality(Pending) \in Nat
    /\ Pending \subseteq Active /\ Cardinality(Pending) <= Cardinality(Active)
    /\ Cardinality(Active) \in Nat
<1>1. IsFiniteSet(Active) /\ Cardinality(Active) \in Nat
  BY PublishAssumption, FS_Subset, FS_CardinalityType DEF Active
<1>2. Pending \subseteq Active
  BY DEF Pending, Active, Idle
<1> QED BY <1>1, <1>2, FS_Subset, FS_CardinalityType

\* The publisher never stamps more configurations than its bound, and what Redis holds was
\* stamped.
LEMMA StampStep ==
    ASSUME PublishInv, stamp + Cardinality(Pending) <= MaxPublishes, redis.ver <= stamp,
           [PublishStep]_publishVars
    PROVE  /\ stamp' + Cardinality(Pending') <= MaxPublishes
           /\ redis'.ver <= stamp' /\ redis.ver <= redis'.ver
<1>1. /\ stamp \in Nat /\ redis.ver \in Nat /\ MaxPublishes \in Nat
      /\ call \in [Callers -> CallRecords]
  BY PublishAssumption DEF PublishInv, PublishTypeOK, Configs
<1>2. ASSUME Pending' \subseteq Pending, UNCHANGED <<stamp, redis>>
      PROVE  stamp' + Cardinality(Pending') <= MaxPublishes
  <2>1. Cardinality(Pending') <= Cardinality(Pending) /\ Cardinality(Pending') \in Nat
    BY <1>2, PendingCount, FS_Subset, FS_CardinalityType
  <2> QED BY <1>1, <1>2, <2>1, PendingCount
<1>3. ASSUME NEW c \in Callers, call[c] = Idle, Room, call'[c].at = "lock",
             \A d \in Callers \ {c} : call'[d] = call[d], UNCHANGED <<stamp, redis>>
      PROVE  stamp' + Cardinality(Pending') <= MaxPublishes
  <2>1. Pending' = Pending \cup {c} /\ c \notin Pending
    BY <1>3 DEF Pending, Idle
  <2>2. Cardinality(Pending') = Cardinality(Pending) + 1
    BY <2>1, PendingCount, FS_AddElement
  <2> QED BY <1>1, <1>3, <2>2, PendingCount DEF Room
<1>4. ASSUME NEW c \in Callers, \/ \E t \in Tables : Save(c, t)
                                \/ Republish(c)
      PROVE  /\ stamp' + Cardinality(Pending') <= MaxPublishes
             /\ redis'.ver <= stamp' /\ redis.ver <= redis'.ver
  <2>1. /\ call[c] = Idle /\ Room /\ call'[c].at = "lock"
        /\ \A d \in Callers \ {c} : call'[d] = call[d]
        /\ UNCHANGED <<stamp, redis>>
    BY <1>1, <1>4 DEF Save, Republish, Goto, CallRecords
  <2> QED BY <1>1, <1>3, <2>1
<1>5. ASSUME NEW c \in Callers, Lock(c) \/ ReadTable(c) \/ WriteFiles(c)
      PROVE  /\ stamp' + Cardinality(Pending') <= MaxPublishes
             /\ redis'.ver <= stamp' /\ redis.ver <= redis'.ver
  <2>1. Pending' \subseteq Pending
    <3>1. CASE Lock(c)
      BY <1>1, <3>1 DEF Lock, Pending, CallRecords
    <3>2. CASE ReadTable(c)
      <4>1. /\ call[c].at = "read" /\ \A d \in Callers \ {c} : call'[d] = call[d]
        BY <1>1, <3>2 DEF ReadTable, Goto, Return
      <4> QED BY <4>1 DEF Pending
    <3>3. CASE WriteFiles(c)
      BY <1>1, <3>3 DEF WriteFiles, Return, Pending, Idle
    <3> QED BY <1>5, <3>1, <3>2, <3>3
  <2>2. UNCHANGED <<stamp, redis>>
    BY <1>5 DEF Lock, ReadTable, WriteFiles
  <2> QED BY <1>1, <1>2, <2>1, <2>2
<1>6. ASSUME NEW c \in Callers, SetRedis(c)
      PROVE  /\ stamp' + Cardinality(Pending') <= MaxPublishes
             /\ redis'.ver <= stamp' /\ redis.ver <= redis'.ver
  <2>1. c \in Pending /\ Pending' \subseteq Pending \ {c}
    BY <1>1, <1>6 DEF SetRedis, Goto, Return, Pending, Idle, CallRecords
  <2>2. IsFiniteSet(Pending \ {c}) /\ Cardinality(Pending \ {c}) = Cardinality(Pending) - 1
    BY <2>1, PendingCount, FS_RemoveElement
  <2>3. Cardinality(Pending') <= Cardinality(Pending) - 1 /\ Cardinality(Pending') \in Nat
    BY <2>1, <2>2, FS_Subset, FS_CardinalityType
  <2>4. stamp' = stamp + 1 /\ (redis' = redis \/ redis'.ver = stamp + 1)
    BY <1>6 DEF SetRedis
  <2> QED BY <1>1, <2>3, <2>4, PendingCount
<1>7. CASE Crash
  <2>1. PICK boot \in Callers : Pending' = {boot}
    BY <1>7 DEF Crash, Pending, Idle
  <2>2. Cardinality(Pending') = 1
    BY <2>1, FS_Singleton
  <2> QED BY <1>1, <1>7, <2>2 DEF Crash
<1>8. CASE UNCHANGED publishVars
  <2>1. Pending' = Pending /\ UNCHANGED <<stamp, redis>>
    BY <1>8 DEF publishVars, Pending
  <2> QED BY <1>1, <1>2, <2>1
<1> QED BY <1>4, <1>5, <1>6, <1>7, <1>8 DEF PublishStep

\* Seen from the control plane, the workers do nothing.
LEMMA NextIsPublish ==
    ASSUME [Next]_vars
    PROVE  [PublishStep]_publishVars
BY DEF Next, vars

\* Every step keeps the types and the bound on versions, with any number of syncers.
LEMMA VersionStep ==
    ASSUME VersionInv, [Next]_vars
    PROVE  VersionInv' /\ redis.ver <= redis'.ver
<1>1. [PublishStep]_publishVars
  BY NextIsPublish
<1>2. PublishInv'
  BY <1>1, PublishStepKeeps DEF VersionInv
<1>3. /\ stamp' + Cardinality(Pending') <= MaxPublishes
      /\ redis'.ver <= stamp' /\ redis.ver <= redis'.ver
  BY <1>1, StampStep DEF VersionInv
<1>4. /\ stamp \in Nat /\ redis \in Configs /\ redis.ver \in Nat /\ redis.ver \in Versions
      /\ redis' \in Configs /\ redis'.ver \in Nat
  <2>1. stamp \in Nat /\ redis \in Configs /\ redis' \in Configs
    BY <1>2 DEF VersionInv, PublishInv, PublishTypeOK
  <2>2. redis.ver \in Nat /\ redis'.ver \in Nat
    BY <2>1 DEF Configs
  <2>3. redis.ver <= MaxPublishes
    BY <2>1, <2>2, PendingCount, PublishAssumption DEF VersionInv
  <2> QED BY <2>1, <2>2, <2>3, PublishAssumption DEF Versions
<1>5. \A s \in Syncers : sync[s].raw \in Configs /\ sync[s].raw.ver \in Versions
  <2> TAKE s \in Syncers
  <2>1. sync[s].raw \in Configs /\ sync[s].raw.ver \in Nat /\ sync[s].raw.ver <= redis.ver
    BY DEF VersionInv, TypeOK, Configs
  <2> QED BY <1>4, <2>1, PublishAssumption DEF Versions
<1>6. /\ PublishTypeOK'
  BY <1>2 DEF PublishInv
<1>7. CASE UNCHANGED syncVars
  <2>1. TypeOK'
    BY <1>6, <1>7 DEF VersionInv, TypeOK, syncVars
  <2>2. \A s \in Syncers : sync'[s].raw.ver <= redis'.ver
    <3> TAKE s \in Syncers
    <3>1. sync[s].raw.ver \in Nat /\ sync[s].raw.ver <= redis.ver
      BY DEF VersionInv, TypeOK, Configs
    <3> QED BY <1>3, <1>4, <1>7, <3>1 DEF syncVars
  <2> QED BY <1>2, <1>3, <2>1, <2>2 DEF VersionInv
<1>8. ASSUME NEW s \in Syncers, SyncStep(s), UNCHANGED publishVars
      PROVE  TypeOK' /\ \A q \in Syncers : sync'[q].raw.ver <= redis'.ver
  <2>0. UNCHANGED redis
    BY <1>8 DEF publishVars
  <2>1. Defaults \in Configs /\ Defaults.ver = 0
    BY StartTypes DEF Defaults, Configs
  <2>2. \A q \in Syncers \ {s} : sync'[q] = sync[q]
    BY <1>8 DEF SyncStep, SyncRead, SyncCompare, SyncSetData, SyncSetVersion, VersionInv, TypeOK
  <2>3. /\ sync' \in [Syncers -> [at : {"idle", "compare", "data", "version"}, raw : Configs]]
        /\ sync'[s].raw \in {sync[s].raw, redis, Defaults}
    BY <1>4, <1>8, <2>1
       DEF SyncStep, SyncRead, SyncCompare, SyncSetData, SyncSetVersion, VersionInv, TypeOK, Resting
  <2>4. data' \in Configs /\ version' \in Versions /\ UNCHANGED <<cache, got>>
    BY <1>5, <1>8 DEF SyncStep, SyncRead, SyncCompare, SyncSetData, SyncSetVersion, VersionInv, TypeOK
  <2>5. TypeOK'
    BY <1>6, <2>3, <2>4 DEF VersionInv, TypeOK
  <2>6. ASSUME NEW q \in Syncers PROVE sync'[q].raw.ver <= redis'.ver
    BY <1>4, <2>0, <2>1, <2>2, <2>3 DEF VersionInv
  <2> QED BY <2>5, <2>6
<1>9. ASSUME NEW r \in Readers, ReaderStep(r), UNCHANGED publishVars
      PROVE  TypeOK' /\ \A q \in Syncers : sync'[q].raw.ver <= redis'.ver
  <2>1. UNCHANGED <<redis, data, version, sync>>
    BY <1>9 DEF publishVars, ReaderStep, GetVersion, GetData
  <2>2. got' \in [Readers -> Versions \cup {None}]
    BY <1>9 DEF ReaderStep, GetVersion, GetData, VersionInv, TypeOK
  <2>3. cache' \in [Readers -> [ver : Versions \cup {None}, conf : Configs]]
    BY <1>9 DEF ReaderStep, GetVersion, GetData, VersionInv, TypeOK
  <2> QED BY <1>6, <2>1, <2>2, <2>3 DEF VersionInv, TypeOK
<1> QED BY <1>2, <1>3, <1>7, <1>8, <1>9 DEF VersionInv, Next, vars, DataPlaneStep

\* The invariant holds before anything is published.
LEMMA VersionInitially ==
    ASSUME Init
    PROVE  VersionInv
<1>1. PublishInv
  BY PublishInitially DEF Init
<1>2. Defaults \in Configs /\ Defaults.ver = 0 /\ 0 \in Versions
  BY StartTypes, PublishAssumption DEF Defaults, Configs, Versions
<1>3. TypeOK
  BY <1>1, <1>2 DEF Init, SyncInit, TypeOK, PublishInv, Resting
<1>4. Pending = {}
  BY DEF Init, PublishInit, Pending, Idle
<1>5. Cardinality(Pending) = 0
  BY <1>4, FS_EmptySet
<1> QED BY <1>1, <1>2, <1>3, <1>5, PublishAssumption
        DEF Init, PublishInit, SyncInit, VersionInv, Resting

\* The state of publisher and workers keeps its types, and no version is beyond those the
\* property PublishedIsLoaded looks at, with any number of callers, syncers and readers.
THEOREM SyncTypeCorrect == Spec => []TypeOK
<1>1. Init => VersionInv
  BY VersionInitially
<1>2. VersionInv /\ [Next]_vars => VersionInv'
  BY VersionStep
<1>3. VersionInv => TypeOK
  BY DEF VersionInv
<1> QED BY <1>1, <1>2, <1>3, PTL DEF Spec

\* Whatever the workers do, the control plane behaves as without them, so that what is proved
\* of Publish holds of the whole (config.lua only reads moswaf:config).
THEOREM SyncImplementsPublish == Spec => PublishSpec
<1>1. Init => PublishInit
  BY DEF Init
<1>2. [Next]_vars => [PublishStep]_publishVars
  BY NextIsPublish
<1> QED BY <1>1, <1>2, PTL DEF Spec, PublishSpec

-----------------------------------------------------------------------------
(* One syncer: SyncInv. *)

\* The numbers the invariant compares.
LEMMA SyncNumbers ==
    ASSUME TypeOK
    PROVE  /\ version \in Int /\ data.ver \in Int /\ redis.ver \in Int
           /\ \A s \in Syncers : sync[s].raw.ver \in Int
           /\ \A r \in Readers : /\ got[r] \in Int /\ cache[r].ver \in Int
                                 /\ cache[r].conf.ver \in Int
<1>1. \A v \in Versions \cup {None} : v \in Int
  BY DEF Versions, None
<1> QED BY <1>1 DEF TypeOK, PublishTypeOK, Configs

\* A step of the control plane: Redis gets a newer configuration or none.
LEMMA PublishKeepsSync ==
    ASSUME SyncInv, VersionInv', redis.ver <= redis'.ver, UNCHANGED syncVars
    PROVE  SyncInv'
<1>1. UNCHANGED <<data, version, sync, cache, got>>
  BY DEF syncVars
<1>2. redis'.ver \in Int /\ version' \in Int /\ redis.ver \in Int
  <2>1. version \in Int /\ redis.ver \in Int
    BY SyncNumbers DEF SyncInv, VersionInv
  <2>2. redis' \in Configs
    BY DEF VersionInv, TypeOK, PublishTypeOK
  <2> QED BY <1>1, <2>1, <2>2 DEF Configs
<1>3. version' <= redis'.ver
  BY <1>1, <1>2 DEF SyncInv
<1>4. Torn' = Torn /\ \A s \in Syncers : SyncerOK(s)' = SyncerOK(s)
  BY <1>1 DEF Torn, SyncerOK
<1>5. \A r \in Readers : ReaderOK(r)' = ReaderOK(r)
  BY <1>1, <1>4 DEF ReaderOK
<1> QED BY <1>1, <1>3, <1>4, <1>5 DEF SyncInv

\* sync() by the one worker that runs it.
LEMMA SyncKeeps ==
    ASSUME SyncInv, VersionInv', NEW s \in Syncers, Syncers = {s}, SyncStep(s), UNCHANGED redis
    PROVE  SyncInv' /\ data.ver <= data'.ver
<1> DEFINE raw == sync[s].raw
<1>0. /\ version \in Int /\ data.ver \in Int /\ redis.ver \in Int /\ raw.ver \in Int
      /\ \A r \in Readers : got[r] \in Int /\ cache[r].ver \in Int /\ cache[r].conf.ver \in Int
  BY SyncNumbers DEF SyncInv, VersionInv
<1>1. /\ sync[s].at \in {"idle", "compare", "data", "version"} /\ raw.ver <= redis.ver
      /\ SyncerOK(s) /\ (~ Torn => data.ver = version)
      /\ version <= redis.ver /\ version <= data.ver
      /\ \A r \in Readers : ReaderOK(r)
  BY DEF SyncInv, VersionInv, TypeOK
<1>2. (Torn <=> sync[s].at = "version") /\ (Torn' <=> sync'[s].at = "version")
  BY DEF Torn
<1>3. UNCHANGED <<cache, got, redis>>
  BY DEF SyncStep, SyncRead, SyncCompare, SyncSetData, SyncSetVersion
<1>4. CASE SyncRead(s)
  <2>1. /\ sync'[s].at = "compare" /\ sync'[s].raw = redis /\ sync[s].at = "idle"
        /\ UNCHANGED <<data, version>>
    BY <1>4 DEF SyncRead, SyncInv, VersionInv, TypeOK, Resting
  <2>2. SyncerOK(s)'
    BY <1>0, <1>1, <2>1 DEF SyncerOK
  <2>3. \A r \in Readers : ReaderOK(r)'
    BY <1>1, <1>2, <1>3, <2>1 DEF ReaderOK
  <2> QED BY <1>0, <1>1, <1>2, <1>3, <2>1, <2>2, <2>3 DEF SyncInv
<1>5. CASE SyncCompare(s)
  <2>1. /\ sync[s].at = "compare" /\ sync'[s].at \in {"idle", "data"}
        /\ sync'[s].at = "data" => sync'[s].raw = raw /\ raw.ver # version
        /\ UNCHANGED <<data, version>>
    BY <1>5 DEF SyncCompare, SyncInv, VersionInv, TypeOK, Resting
  <2>2. SyncerOK(s)'
    BY <1>0, <1>1, <2>1 DEF SyncerOK
  <2>3. \A r \in Readers : ReaderOK(r)'
    BY <1>1, <1>2, <1>3, <2>1 DEF ReaderOK
  <2> QED BY <1>0, <1>1, <1>2, <1>3, <2>1, <2>2, <2>3 DEF SyncInv
<1>6. CASE SyncSetData(s)
  <2>1. /\ sync[s].at = "data" /\ sync'[s].at = "version" /\ sync'[s].raw = raw
        /\ data' = raw /\ UNCHANGED version
    BY <1>6 DEF SyncSetData, SyncInv, VersionInv, TypeOK
  <2>2. version < raw.ver /\ data.ver = version
    BY <1>1, <1>2, <2>1 DEF SyncerOK
  <2>3. SyncerOK(s)'
    BY <1>0, <1>1, <2>1, <2>2 DEF SyncerOK
  <2>4. \A r \in Readers : ReaderOK(r)'
    BY <1>0, <1>1, <1>2, <1>3, <2>1, <2>2 DEF ReaderOK
  <2> QED BY <1>0, <1>1, <1>2, <1>3, <2>1, <2>2, <2>3, <2>4 DEF SyncInv
<1>7. CASE SyncSetVersion(s)
  <2>1. /\ sync[s].at = "version" /\ sync'[s].at = "idle"
        /\ version' = raw.ver /\ UNCHANGED data
    BY <1>7 DEF SyncSetVersion, SyncInv, VersionInv, TypeOK, Resting
  <2>2. version < raw.ver /\ data = raw
    BY <1>1, <2>1 DEF SyncerOK
  <2>3. SyncerOK(s)'
    BY <2>1 DEF SyncerOK
  <2>4. \A r \in Readers : ReaderOK(r)'
    BY <1>0, <1>1, <1>2, <1>3, <2>1, <2>2 DEF ReaderOK
  <2> QED BY <1>0, <1>1, <1>2, <1>3, <2>1, <2>2, <2>3, <2>4 DEF SyncInv
<1> QED BY <1>4, <1>5, <1>6, <1>7 DEF SyncStep

\* get() by any worker.
LEMMA GetKeeps ==
    ASSUME SyncInv, VersionInv', NEW r \in Readers, ReaderStep(r), UNCHANGED redis
    PROVE  SyncInv' /\ \A q \in Readers : cache[q].conf.ver <= cache'[q].conf.ver
<1>0. /\ version \in Int /\ data.ver \in Int
      /\ \A q \in Readers : got[q] \in Int /\ cache[q].ver \in Int /\ cache[q].conf.ver \in Int
  BY SyncNumbers DEF SyncInv, VersionInv
<1>1. UNCHANGED <<data, version, sync>>
  BY DEF ReaderStep, GetVersion, GetData
<1>2. (Torn' <=> Torn) /\ \A s \in Syncers : SyncerOK(s)' = SyncerOK(s)
  BY <1>1 DEF Torn, SyncerOK
<1>3. \A q \in Readers \ {r} : got'[q] = got[q] /\ cache'[q] = cache[q]
  BY DEF ReaderStep, GetVersion, GetData, SyncInv, VersionInv, TypeOK
<1>4. \A q \in Readers \ {r} : ReaderOK(q)'
  BY <1>1, <1>2, <1>3 DEF SyncInv, ReaderOK
<1>5. ReaderOK(r) /\ None <= version /\ (~ Torn => data.ver = version)
  BY DEF SyncInv, VersionInv, TypeOK, Versions, None
<1>6. ReaderOK(r)' /\ cache[r].conf.ver <= cache'[r].conf.ver
  <2>1. CASE GetVersion(r)
    <3>1. got'[r] = version /\ cache'[r] = cache[r]
      BY <2>1 DEF GetVersion, SyncInv, VersionInv, TypeOK
    <3> QED BY <1>0, <1>1, <1>2, <1>5, <3>1 DEF ReaderOK
  <2>2. CASE GetData(r)
    <3>1. got'[r] = None /\ cache'[r] = [ver |-> got[r], conf |-> data]
      BY <2>2 DEF GetData, SyncInv, VersionInv, TypeOK
    <3>2. cache'[r].ver = got[r] /\ cache'[r].conf = data
      BY <3>1
    <3> QED BY <1>0, <1>1, <1>2, <1>5, <3>1, <3>2 DEF ReaderOK
  <2> QED BY <2>1, <2>2 DEF ReaderStep
<1>7. \A q \in Readers : cache[q].conf.ver <= cache'[q].conf.ver
  BY <1>0, <1>3, <1>6
<1> QED BY <1>1, <1>2, <1>4, <1>6, <1>7 DEF SyncInv

\* Every step keeps the inductive invariant, and no worker goes back.
LEMMA SyncInvStep ==
    ASSUME SyncInv, [Next]_vars, \A s, q \in Syncers : s = q
    PROVE  SyncInv' /\ \A r \in Readers : cache'[r].conf.ver >= cache[r].conf.ver
<1>1. VersionInv' /\ redis.ver <= redis'.ver
  BY VersionStep DEF SyncInv
<1>2. \A r \in Readers : cache[r].conf.ver \in Int
  BY SyncNumbers DEF SyncInv, VersionInv
<1>3. CASE UNCHANGED syncVars
  BY <1>1, <1>2, <1>3, PublishKeepsSync DEF syncVars
<1>4. ASSUME NEW s \in Syncers, SyncStep(s), UNCHANGED publishVars
      PROVE  SyncInv' /\ UNCHANGED cache
  <2>1. Syncers = {s} /\ UNCHANGED redis
    BY <1>4 DEF publishVars
  <2> QED BY <1>1, <1>4, <2>1, SyncKeeps
          DEF SyncStep, SyncRead, SyncCompare, SyncSetData, SyncSetVersion
<1>5. ASSUME NEW r \in Readers, ReaderStep(r), UNCHANGED publishVars
      PROVE  SyncInv' /\ \A q \in Readers : cache'[q].conf.ver >= cache[q].conf.ver
  <2>1. UNCHANGED redis
    BY <1>5 DEF publishVars
  <2>2. SyncInv' /\ \A q \in Readers : cache[q].conf.ver <= cache'[q].conf.ver
    BY <1>1, <1>5, <2>1, GetKeeps
  <2>3. \A q \in Readers : cache'[q].conf.ver \in Int
    BY <1>1 DEF VersionInv, TypeOK, Configs
  <2> QED BY <1>2, <2>2, <2>3
<1> QED BY <1>2, <1>3, <1>4, <1>5 DEF Next, vars, DataPlaneStep

\* The invariant holds after bootstrap().
LEMMA SyncInitially ==
    ASSUME Init
    PROVE  SyncInv
<1>1. VersionInv
  BY VersionInitially
<1>2. data = Defaults /\ version = 0 /\ redis = Defaults /\ Defaults.ver = 0
  BY DEF Init, PublishInit, SyncInit, Defaults
<1>3. \A s \in Syncers : sync[s].at = "idle"
  BY DEF Init, SyncInit, Resting
<1>4. \A r \in Readers : got[r] = -1 /\ cache[r] = [ver |-> -1, conf |-> Defaults]
  BY DEF Init, SyncInit, None
<1>5. \A s \in Syncers : SyncerOK(s)
  BY <1>3 DEF SyncerOK
<1>6. \A r \in Readers : ReaderOK(r)
  BY <1>2, <1>4 DEF ReaderOK
<1> QED BY <1>1, <1>2, <1>5, <1>6 DEF SyncInv

\* As long as one worker runs sync(), as its comment says, a worker that takes its copy for
\* current is right, for any number of publishes and readers (config.lua get and sync).
THEOREM CopyIsCurrent ==
    ASSUME \A s, q \in Syncers : s = q PROVE Spec => []CacheIsCurrent
<1>1. Init => SyncInv
  BY SyncInitially
<1>2. SyncInv /\ [Next]_vars => SyncInv'
  BY SyncInvStep
<1>3. SyncInv => CacheIsCurrent
  BY DEF SyncInv, ReaderOK, Torn, CacheIsCurrent
<1> QED BY <1>1, <1>2, <1>3, PTL DEF Spec

\* And no worker ever goes back to an older configuration (config.lua get and sync).
THEOREM NoWorkerGoesBack ==
    ASSUME \A s, q \in Syncers : s = q PROVE Spec => WorkersNeverGoBack
<1>1. Init => SyncInv
  BY SyncInitially
<1>2. SyncInv /\ [Next]_vars => SyncInv'
  BY SyncInvStep
<1>3. SyncInv /\ [Next]_vars =>
        [\A r \in Readers : cache'[r].conf.ver >= cache[r].conf.ver]_vars
  BY SyncInvStep
<1> QED BY <1>1, <1>2, <1>3, PTL DEF Spec, WorkersNeverGoBack
=============================================================================
