---------------------------- MODULE BanFrontend ----------------------------
(***************************************************************************)
(* Bans as the OpenResty workers see them: ipset.lua (the ban dictionary   *)
(* and the post-ban counter), kernelban.lua (asking the host for a drop or *)
(* a release) and the /unban endpoint of api.lua.                          *)
(*                                                                         *)
(* A worker does one thing at a time; job says what.  The dictionaries are *)
(* shared memory and Redis is a socket, so another worker runs between any *)
(* two of a worker's operations on them.                                   *)
(***************************************************************************)
EXTENDS BanShared

CONSTANTS
    Workers,      \* requests and API calls that can be under way at once
    Private,      \* addresses util.is_private_ip() recognises
    EscalateAt    \* ESCALATE_AT: post-ban requests before a kernel drop is asked for

ASSUME FrontendAssumption ==
    /\ Private \subseteq NeverDrop
    /\ EscalateAt \in Nat \ {0}

VARIABLES
    hits,      \* the counter bh:<ip> of ngx.shared.moswaf_cnt, with the ticks it has left
    pending,   \* ticks left of the marker kp:<ip>, 0: no drop was asked for
    job        \* what each worker is doing

frontVars == <<hits, pending, job>>

NoHits == [n |-> 0, ttl |-> 0]
Idle == [at |-> "idle"]

\* Only the crossing of EscalateAt matters: the counter is not followed past it.
HitCounts == 0..(EscalateAt + 1)

Jobs ==
    {Idle}
        \cup [at : {"reset", "count", "push", "pending", "release"}, ip : IPs, ttl : 0..BanTTL]
        \cup [at : {"lift"}, ip : IPs, queued : BOOLEAN]
        \cup [at : {"releaseAll"}]
        \cup [at : {"liftAll"}, queued : BOOLEAN]

Goto(w, next) == job' = [job EXCEPT ![w] = next]
Step(w, place) == Goto(w, [job[w] EXCEPT !.at = place])
Finish(w) == Goto(w, Idle)

\* A pipeline that fails may have been executed before the connection was lost.
PushFails(event) == UNCHANGED feed \/ Push(event)

-----------------------------------------------------------------------------
(* ipset.ban_ip: set the ban, then start the post-ban count over. *)

BanIP(w, ip) ==
    /\ job[w] = Idle
    /\ ban' = [ban EXCEPT ![ip] = BanTTL]
    /\ Goto(w, [at |-> "reset", ip |-> ip, ttl |-> 0])
    /\ UNCHANGED <<feed, hits, pending>>

ResetHits(w) ==
    /\ job[w].at = "reset"
    /\ hits' = [hits EXCEPT ![job[w].ip] = NoHits]
    /\ Finish(w)
    /\ UNCHANGED <<ban, feed, pending>>

-----------------------------------------------------------------------------
(* A request from a banned address: is_banned, then note_and_maybe_escalate. *)

IsBanned(w, ip) ==
    /\ job[w] = Idle /\ ban[ip] > 0
    /\ Goto(w, [at |-> "count", ip |-> ip, ttl |-> ban[ip]])
    /\ UNCHANGED <<ban, feed, hits, pending>>

\* cnt:incr with an initial TTL: an existing counter keeps the TTL it has.
Incr(ip, ttl) ==
    IF hits[ip].n = 0 THEN [n |-> 1, ttl |-> ttl]
    ELSE [hits[ip] EXCEPT !.n = IF @ > EscalateAt THEN @ ELSE @ + 1]

\* Exactly the request that reaches EscalateAt goes on to request_drop, which refuses a ban
\* with no time left and a private address; a full dictionary counts as zero.
NoteBanHit(w) ==
    LET ip == job[w].ip
        ttl == job[w].ttl
    IN  /\ job[w].at = "count"
        /\ \/ /\ hits' = [hits EXCEPT ![ip] = Incr(ip, ttl)]
              /\ IF hits'[ip].n = EscalateAt /\ ttl > 0 /\ ip \notin Private
                 THEN Step(w, "push") ELSE Finish(w)
           \/ UNCHANGED hits /\ Finish(w)
        /\ UNCHANGED <<ban, feed, pending>>

RequestDrop(w) ==
    /\ job[w].at = "push"
    /\ LET event == DropEvent(job[w].ip, job[w].ttl)
       IN  \/ Push(event) /\ Step(w, "pending")
           \/ PushFails(event) /\ Finish(w)
    /\ UNCHANGED <<ban, hits, pending>>

MarkPending(w) ==
    /\ job[w].at = "pending"
    /\ pending' = [pending EXCEPT ![job[w].ip] = job[w].ttl]
    /\ Finish(w)
    /\ UNCHANGED <<ban, feed, hits>>

-----------------------------------------------------------------------------
(* /unban?ip=: the kernel first, then the dictionary. *)

\* What kernel_state() finds in Redis: the addresses published as applied or refused, those
\* published as orphans, and whether the agent published its health.  A Redis that cannot be
\* read says so, and counts as a kernel that may hold the address.
KernelInvolved(ip, state) ==
    pending[ip] > 0 \/ ~state.reachable \/ ip \in state.listed \/ state.health

Unban(w, ip, state) ==
    /\ job[w] = Idle
    /\ Goto(w, IF KernelInvolved(ip, state)
               THEN [at |-> "release", ip |-> ip, ttl |-> 0]
               ELSE [at |-> "lift", ip |-> ip, queued |-> FALSE])
    /\ UNCHANGED <<ban, feed, hits, pending>>

\* A release that cannot be queued ends the call with 409 and the ban as it was.
RequestRelease(w) ==
    /\ job[w].at = "release"
    /\ LET event == ReleaseEvent(job[w].ip)
       IN  \/ /\ Push(event)
              /\ pending' = [pending EXCEPT ![job[w].ip] = 0]
              /\ Goto(w, [at |-> "lift", ip |-> job[w].ip, queued |-> TRUE])
           \/ PushFails(event) /\ Finish(w) /\ UNCHANGED pending
    /\ UNCHANGED <<ban, hits>>

\* ipset.unban and clear_pending, then 200.
Lift(w) ==
    /\ job[w].at = "lift"
    /\ ban' = [ban EXCEPT ![job[w].ip] = 0]
    /\ hits' = [hits EXCEPT ![job[w].ip] = NoHits]
    /\ pending' = [pending EXCEPT ![job[w].ip] = 0]
    /\ Finish(w)
    /\ UNCHANGED feed

\* /unban?ip=*: one event for all of them, then flush_all on the ban dictionary alone.
UnbanAll(w, state) ==
    /\ job[w] = Idle
    /\ Goto(w, IF ~state.reachable \/ state.health \/ state.orphans # {}
               THEN [at |-> "releaseAll"]
               ELSE [at |-> "liftAll", queued |-> FALSE])
    /\ UNCHANGED <<ban, feed, hits, pending>>

RequestReleaseAll(w) ==
    /\ job[w].at = "releaseAll"
    /\ \/ Push(ReleaseAllEvent) /\ Goto(w, [at |-> "liftAll", queued |-> TRUE])
       \/ PushFails(ReleaseAllEvent) /\ Finish(w)
    /\ UNCHANGED <<ban, hits, pending>>

LiftAll(w) ==
    /\ job[w].at = "liftAll"
    /\ ban' = [ip \in IPs |-> 0]
    /\ Finish(w)
    /\ UNCHANGED <<feed, hits, pending>>

-----------------------------------------------------------------------------
JobStep(w) ==
    \/ ResetHits(w) \/ NoteBanHit(w) \/ RequestDrop(w) \/ MarkPending(w)
    \/ RequestRelease(w) \/ Lift(w) \/ RequestReleaseAll(w) \/ LiftAll(w)

FrontStep(w, states) ==
    \/ JobStep(w)
    \/ \E ip \in IPs : BanIP(w, ip) \/ IsBanned(w, ip)
    \/ \E state \in states : UnbanAll(w, state) \/ \E ip \in IPs : Unban(w, ip, state)

FrontTick ==
    /\ hits' = [ip \in IPs |-> IF hits[ip].ttl > 1
                               THEN [hits[ip] EXCEPT !.ttl = @ - 1] ELSE NoHits]
    /\ pending' = AllLess(pending)
    /\ UNCHANGED job

FrontInit ==
    /\ hits = [ip \in IPs |-> NoHits]
    /\ pending = [ip \in IPs |-> 0]
    /\ job = [w \in Workers |-> Idle]

FrontTypeOK ==
    /\ hits \in [IPs -> [n : HitCounts, ttl : 0..BanTTL]]
    /\ pending \in [IPs -> 0..BanTTL]
    /\ job \in [Workers -> Jobs]
=============================================================================
