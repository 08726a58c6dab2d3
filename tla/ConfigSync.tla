----------------------------- MODULE ConfigSync -----------------------------
(***************************************************************************)
(* config.lua: how the OpenResty workers get the configuration that        *)
(* ConfigPublish leaves in Redis.  sync() copies it into the shared        *)
(* dictionary moswaf_conf, as two keys that are read and written one at a  *)
(* time; get() keeps a decoded copy in each worker, by version.  sync() is *)
(* run by the timer of worker 0 and by whichever worker is handed a /sync  *)
(* request, so the steps of two of them interleave.                        *)
(***************************************************************************)
EXTENDS ConfigPublish

CONSTANTS
    Syncers,    \* workers that run sync()
    Readers     \* workers that serve requests

VARIABLES
    data,     \* shm "data"
    version,  \* shm "version"
    sync,     \* where each sync() is, and the configuration it has read
    cache,    \* per worker: cached and cached_ver
    got       \* per worker: the version get() has read and not yet used, None otherwise

syncVars == <<data, version, sync, cache, got>>
vars == <<publishVars, syncVars>>

None == -1
Resting == [at |-> "idle", raw |-> Defaults]

-----------------------------------------------------------------------------
\* Mutant: a Redis that cannot be read counts as an empty configuration.
SyncReadEmpty(s) ==
    /\ sync[s] = Resting
    /\ \E raw \in {redis, Defaults} :
          sync' = [sync EXCEPT ![s] = [at |-> "compare", raw |-> raw]]
    /\ UNCHANGED <<data, version, cache, got>>

\* The Redis GET.  A Redis that cannot be reached, and a key that is not there yet, end
\* sync() with nothing done.
SyncRead(s) ==
    /\ sync[s] = Resting /\ redis # Defaults
    /\ sync' = [sync EXCEPT ![s] = [at |-> "compare", raw |-> redis]]
    /\ UNCHANGED <<data, version, cache, got>>

SyncCompare(s) ==
    /\ sync[s].at = "compare"
    /\ sync' = IF sync[s].raw.ver = version THEN [sync EXCEPT ![s] = Resting]
               ELSE [sync EXCEPT ![s].at = "data"]
    /\ UNCHANGED <<data, version, cache, got>>

\* Mutant: shm:add, which does not replace, where the code has shm:set.
SyncAddData(s) ==
    /\ sync[s].at = "data"
    /\ data' = IF data = Defaults THEN sync[s].raw ELSE data
    /\ sync' = [sync EXCEPT ![s].at = "version"]
    /\ UNCHANGED <<version, cache, got>>

SyncSetData(s) ==
    /\ sync[s].at = "data"
    /\ data' = sync[s].raw
    /\ sync' = [sync EXCEPT ![s].at = "version"]
    /\ UNCHANGED <<version, cache, got>>

SyncSetVersion(s) ==
    /\ sync[s].at = "version"
    /\ version' = sync[s].raw.ver
    /\ sync' = [sync EXCEPT ![s] = Resting]
    /\ UNCHANGED <<data, cache, got>>

\* Mutant: the version is stored before the data.
SyncStepSwapped(s) ==
    \/ SyncRead(s) \/ SyncCompare(s)
    \/ /\ sync[s].at = "data" /\ version' = sync[s].raw.ver
       /\ sync' = [sync EXCEPT ![s].at = "version"]
       /\ UNCHANGED <<data, cache, got>>
    \/ /\ sync[s].at = "version" /\ data' = sync[s].raw
       /\ sync' = [sync EXCEPT ![s] = Resting]
       /\ UNCHANGED <<version, cache, got>>

SyncStep(s) == SyncRead(s) \/ SyncCompare(s) \/ SyncSetData(s) \/ SyncSetVersion(s)

\* get(): the cached copy serves as long as its version is the dictionary's.
GetVersion(r) ==
    /\ got[r] = None /\ cache[r].ver # version
    /\ got' = [got EXCEPT ![r] = version]
    /\ UNCHANGED <<data, version, sync, cache>>

GetData(r) ==
    /\ got[r] # None
    /\ cache' = [cache EXCEPT ![r] = [ver |-> got[r], conf |-> data]]
    /\ got' = [got EXCEPT ![r] = None]
    /\ UNCHANGED <<data, version, sync>>

ReaderStep(r) == GetVersion(r) \/ GetData(r)

DataPlaneStep ==
    \/ \E s \in Syncers : SyncStep(s)
    \/ \E r \in Readers : ReaderStep(r)

\* bootstrap(): the defaults, as version 0; no worker has cached anything.
SyncInit ==
    /\ data = Defaults /\ version = 0
    /\ sync = [s \in Syncers |-> Resting]
    /\ cache = [r \in Readers |-> [ver |-> None, conf |-> Defaults]]
    /\ got = [r \in Readers |-> None]

-----------------------------------------------------------------------------
Init == PublishInit /\ SyncInit

Next ==
    \/ PublishStep /\ UNCHANGED syncVars
    \/ DataPlaneStep /\ UNCHANGED publishVars

Spec == Init /\ [][Next]_vars

\* The timer of worker 0 is set again after every sync(), and a sync() once begun goes on
\* to its end.  A second syncer is treated as if it were asked again and again, which is more
\* help than the control plane gives.  Nothing makes a visitor send a request.
FairSpec ==
    /\ Spec
    /\ \A s \in Syncers : WF_vars(SyncStep(s) /\ UNCHANGED publishVars)

Versions == 0..MaxPublishes

TypeOK ==
    /\ PublishTypeOK
    /\ data \in Configs /\ version \in Versions
    /\ sync \in [Syncers -> [at : {"idle", "compare", "data", "version"}, raw : Configs]]
    /\ cache \in [Readers -> [ver : Versions \cup {None}, conf : Configs]]
    /\ got \in [Readers -> Versions \cup {None}]

-----------------------------------------------------------------------------
(* Properties. *)

\* The configuration in Redis is the one the workers end up with: once nothing newer is
\* published, the shared dictionary holds it, under its own version (notifyProxy: "A failure
\* here is not serious: the timer will catch up").
PublishedIsLoaded ==
    \A v \in Versions \ {0} :
        <>[](redis.ver = v) => <>[](data = redis /\ version = v)

\* A worker that takes its cached copy for current is right: it is what the dictionary holds
\* whenever no sync() has stored the data of one configuration and not yet its version.
CacheIsCurrent ==
    (\A s \in Syncers : sync[s].at # "version")
        => \A r \in Readers : cache[r].ver = version => cache[r].conf = data

\* A worker never goes back to an older configuration than one it has served with: what an
\* administrator has revoked stays revoked.
WorkersNeverGoBack ==
    [][\A r \in Readers : cache'[r].conf.ver >= cache[r].conf.ver]_vars

-----------------------------------------------------------------------------
(* What they rest on. *)

\* Callers that may still stamp a configuration.
Pending == {c \in Callers : call[c].at \in {"lock", "read", "set"}}

\* The inductive invariant behind TypeOK: versions come from the publisher, which stays in its
\* bound because it is left room for whatever is under way.
VersionInv ==
    /\ PublishInv /\ TypeOK
    /\ stamp + Cardinality(Pending) <= MaxPublishes
    /\ redis.ver <= stamp
    /\ \A s \in Syncers : sync[s].raw.ver <= redis.ver

\* What a sync() has read is newer than what the dictionary holds, from the comparison on.
SyncerOK(s) ==
    /\ sync[s].at # "idle" => version <= sync[s].raw.ver
    /\ sync[s].at \in {"data", "version"} => version < sync[s].raw.ver
    /\ sync[s].at = "version" => data = sync[s].raw

\* Between the two writes of a sync() the data is newer than its version.
Torn == \E s \in Syncers : sync[s].at = "version"

\* A worker is behind the dictionary or up to date with it.
ReaderOK(r) ==
    /\ got[r] <= version /\ cache[r].ver <= version
    /\ cache[r].conf.ver <= data.ver
    /\ ~ Torn /\ cache[r].ver = version => cache[r].conf = data

\* The inductive invariant behind CacheIsCurrent and WorkersNeverGoBack, for one syncer.
SyncInv ==
    /\ VersionInv
    /\ version <= redis.ver /\ version <= data.ver
    /\ ~ Torn => data.ver = version
    /\ \A s \in Syncers : SyncerOK(s)
    /\ \A r \in Readers : ReaderOK(r)
=============================================================================
