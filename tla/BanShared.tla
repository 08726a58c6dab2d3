----------------------------- MODULE BanShared -----------------------------
(***************************************************************************)
(* The state that the OpenResty data plane and the host agent moswaf-kbans *)
(* share: the temporary-ban dictionary, which the agent reads over HTTP,   *)
(* and the Redis list of ban events.                                       *)
(*                                                                         *)
(* Time is counted in ticks.  Everything that expires is kept as the       *)
(* number of ticks it has left, so the state space is finite without a     *)
(* bound on the clock.  TicksPerSecond says how finely a tick divides a    *)
(* second: ngx.shared.DICT:ttl answers in milliseconds divided by 1000.    *)
(***************************************************************************)
EXTENDS Integers, Sequences, FiniteSets

CONSTANTS
    IPs,             \* the addresses that appear
    NeverDrop,       \* addresses neverDrop.covers(): management, infrastructure, docker
    BanTTL,          \* ticks a temporary ban lasts
    Resync,          \* ticks of one MOSWAF_KBANS_RESYNC interval
    FeedMax,         \* FEED_MAX, the length the ban feed is trimmed to
    TicksPerSecond   \* ticks in a second

ASSUME SharedAssumption ==
    /\ IsFiniteSet(IPs)
    /\ NeverDrop \subseteq IPs
    /\ BanTTL \in Nat \ {0}
    /\ Resync \in Nat \ {0}
    /\ FeedMax \in Nat \ {0}
    /\ TicksPerSecond \in Nat \ {0}

VARIABLES
    ban,    \* ticks left of the key b:<ip> in ngx.shared.moswaf_ban, 0: not banned
    feed    \* the Redis list moswaf:ban_events

sharedVars == <<ban, feed>>

DropEvent(ip, ttl) == [op |-> "drop", ip |-> ip, ttl |-> ttl]
ReleaseEvent(ip) == [op |-> "release", ip |-> ip]
ReleaseAllEvent == [op |-> "release_all"]

Events ==
    [op : {"drop"}, ip : IPs, ttl : 1..BanTTL]
        \cup [op : {"release"}, ip : IPs]
        \cup {ReleaseAllEvent}

\* Mutant: the list is not trimmed.
PushUntrimmed(ev) == feed' = Append(feed, ev)

\* RPUSH then LTRIM -FEED_MAX -1, sent as one pipeline: when the list is longer than
\* FEED_MAX the oldest entries go.
Push(ev) ==
    LET longer == Append(feed, ev)
        excess == Len(longer) - FeedMax
    IN  feed' = IF excess > 0 THEN SubSeq(longer, excess + 1, Len(longer)) ELSE longer

\* A duration travels from Lua to Go as a JSON number and is decoded into an int
\* (banEvent.TTL, banRow.TTL): encoding/json refuses a number with a fraction, and the
\* whole document with it.
Decodes(ttl) == ttl % TicksPerSecond = 0

\* One tick less on the timer of every address.
AllLess(timer) == [ip \in IPs |-> IF timer[ip] > 0 THEN timer[ip] - 1 ELSE 0]

SharedTick == ban' = AllLess(ban) /\ UNCHANGED feed

SharedInit ==
    /\ ban = [ip \in IPs |-> 0]
    /\ feed = <<>>

SharedTypeOK ==
    /\ ban \in [IPs -> 0..BanTTL]
    /\ feed \in Seq(Events) /\ Len(feed) <= FeedMax
=============================================================================
