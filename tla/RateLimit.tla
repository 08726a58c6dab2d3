----------------------------- MODULE RateLimit -----------------------------
(***************************************************************************)
(* The budget of one address (ratelimit.lua: a GCRA kept in one number of  *)
(* a shared dictionary) and what access.lua does with its verdict: serve,  *)
(* challenge, refuse, and ban for challenges that are never answered or    *)
(* for attacks.  The dictionary forgets an entry when its time is over, and *)
(* workers interleave between any two of its operations.                   *)
(***************************************************************************)
EXTENDS Integers

CONSTANTS
    Workers, IPs,
    TicksPerSecond,
    Interval,        \* 1 / rate, in ticks
    Burst,
    MaxDebt,         \* MAX_DEBT, in seconds
    ChallengeBanAt, AttackBanAt,
    BanTTL,          \* ban_seconds, in ticks
    MaxCredit,       \* bound: how far into the past a clear-at time is followed, in ticks
    MaxFaults        \* bound: operations that find the dictionary full

VARIABLES
    debt,      \* debt[ip]: the clear-at time, as ticks from now; means nothing without an entry
    life,      \* life[ip]: ticks until the entry expires, Absent without one
    unsolved,  \* unsolved[ip]: challenges handed out in this minute, key ch:
    attacks,   \* attacks[ip]: refusals by a signature in this minute, key at:
    ban,       \* ban[ip]: ticks left of its ban
    cookie,    \* the addresses whose visitor holds a solved challenge
    job,       \* what each worker is in the middle of
    spent,     \* spent[ip]: not in the code: what the requests let through cost, less what time
               \* has paid back since
    faults

rateVars == <<debt, life, unsolved, attacks, ban, cookie, job, spent, faults>>

Absent == 0
Forever == -1
Free == [at |-> "idle"]

\* ceil() of ticks to seconds.
Seconds(t) == (t + TicksPerSecond - 1) \div TicksPerSecond

\* The smallest burst is one.
Allowance ==
    LET a == (IF Burst < 1 THEN 1 ELSE Burst) * Interval
        most == MaxDebt * TicksPerSecond
    IN  IF a > most THEN most ELSE a

\* expire(key, s) of the shared dictionary: a time that is not positive means no end.
Expire(s) == IF s > 0 THEN s * TicksPerSecond ELSE Forever

Fault == faults < MaxFaults /\ faults' = faults + 1

RateInit ==
    /\ debt = [ip \in IPs |-> 0] /\ life = [ip \in IPs |-> Absent]
    /\ unsolved = [ip \in IPs |-> 0] /\ attacks = [ip \in IPs |-> 0]
    /\ ban = [ip \in IPs |-> 0] /\ cookie = {}
    /\ job = [w \in Workers |-> Free]
    /\ spent = [ip \in IPs |-> 0] /\ faults = 0

-----------------------------------------------------------------------------
\* check(): incr creates the entry one interval ahead of now or adds an interval to it, in one
\* operation.  When the dictionary is full, twice, nothing is known.
Charge(w, ip) ==
    /\ job[w] = Free /\ ban[ip] = 0
    /\ \/ LET d == IF life[ip] = Absent THEN Interval ELSE debt[ip] + Interval IN
          /\ debt' = [debt EXCEPT ![ip] = d]
          /\ life' = IF life[ip] # Absent THEN life
                     ELSE [life EXCEPT ![ip] = (Seconds(Allowance) + 1) * TicksPerSecond]
          /\ job' = [job EXCEPT ![w] = [at |-> "charged", ip |-> ip, debt |-> d]]
          /\ UNCHANGED faults
       \/ /\ Fault /\ job' = [job EXCEPT ![w] = [at |-> "full", ip |-> ip]]
          /\ UNCHANGED <<debt, life>>
    /\ UNCHANGED <<unsolved, attacks, ban, cookie, spent>>

\* A refused request gets its interval back; one that is let through sets the entry's life to
\* the debt.
Settle(w) ==
    LET ip == job[w].ip IN
    /\ job[w].at = "charged"
    /\ \/ /\ job[w].debt > Allowance
          /\ debt' = IF life[ip] = Absent THEN debt ELSE [debt EXCEPT ![ip] = @ - Interval]
          /\ job' = [job EXCEPT ![w] = [at |-> "over", ip |-> ip]]
          /\ UNCHANGED <<life, spent>>
       \/ /\ job[w].debt <= Allowance
          /\ life' = IF life[ip] = Absent THEN life
                     ELSE [life EXCEPT ![ip] = Expire(Seconds(job[w].debt) + 1)]
          /\ job' = [job EXCEPT ![w] = [at |-> "within", ip |-> ip]]
          /\ spent' = [spent EXCEPT ![ip] = @ + Interval]
          /\ UNCHANGED debt
    /\ UNCHANGED <<unsolved, attacks, ban, cookie, faults>>

\* do_challenge(): the challenge is counted unless the visitor has answered one before.  Counts
\* are followed up to their threshold.
Challenged(ip) ==
    /\ IF ip \in cookie \/ unsolved[ip] = ChallengeBanAt THEN UNCHANGED unsolved
       ELSE unsolved' = [unsolved EXCEPT ![ip] = @ + 1]
    /\ ban' = IF ip \notin cookie /\ unsolved'[ip] >= ChallengeBanAt
              THEN [ban EXCEPT ![ip] = BanTTL] ELSE ban
    /\ UNCHANGED attacks

\* A deny rule of the signature engine is counted, and a ban rule bans at once.
Refused(ip) ==
    \/ /\ attacks' = IF attacks[ip] = AttackBanAt THEN attacks ELSE [attacks EXCEPT ![ip] = @ + 1]
       /\ ban' = IF attacks'[ip] >= AttackBanAt THEN [ban EXCEPT ![ip] = BanTTL] ELSE ban
       /\ UNCHANGED unsolved
    \/ ban' = [ban EXCEPT ![ip] = BanTTL] /\ UNCHANGED <<attacks, unsolved>>

\* run() from the verdict on: too much is challenged, or refused with 429 when the visitor has a
\* cookie or the site wants no challenges; the rest goes on to under-attack mode and the
\* signatures.  A count that finds the dictionary full is not made.
Answer(w) ==
    LET ip == job[w].ip IN
    /\ \/ job[w].at \in {"full", "over"} /\ ip \notin cookie /\ Challenged(ip)
       \/ job[w].at \in {"full", "over"} /\ UNCHANGED <<unsolved, attacks, ban>>
       \/ /\ job[w].at = "within"
          /\ \/ ip \notin cookie /\ Challenged(ip)
             \/ Refused(ip)
             \/ UNCHANGED <<unsolved, attacks, ban>>
    /\ job' = [job EXCEPT ![w] = Free]
    /\ UNCHANGED <<debt, life, cookie, spent, faults>>

\* The visitor answers a challenge, whose endpoint is closed to banned addresses; its cookie ends.
Solve(ip) ==
    /\ ip \notin cookie /\ ban[ip] = 0 /\ cookie' = cookie \cup {ip}
    /\ UNCHANGED <<debt, life, unsolved, attacks, ban, job, spent, faults>>

CookieEnds(ip) ==
    /\ ip \in cookie /\ cookie' = cookie \ {ip}
    /\ UNCHANGED <<debt, life, unsolved, attacks, ban, job, spent, faults>>

\* A minute is over: the next one has keys of its own.
MinuteEnds ==
    /\ unsolved' = [ip \in IPs |-> 0] /\ attacks' = [ip \in IPs |-> 0]
    /\ UNCHANGED <<debt, life, ban, cookie, job, spent, faults>>

Less(t) == IF t > 0 THEN t - 1 ELSE t

\* A worker is not stopped for a tick in the middle of a request.
Tick ==
    /\ \A w \in Workers : job[w] = Free
    /\ debt' = [ip \in IPs |-> IF life[ip] \in {Absent, 1} THEN 0
                               ELSE IF debt[ip] = -MaxCredit THEN debt[ip] ELSE debt[ip] - 1]
    /\ life' = [ip \in IPs |-> Less(life[ip])]
    /\ ban' = [ip \in IPs |-> Less(ban[ip])]
    /\ spent' = [ip \in IPs |-> Less(spent[ip])]
    /\ UNCHANGED <<unsolved, attacks, cookie, job, faults>>

RateNext ==
    \/ \E w \in Workers : (\E ip \in IPs : Charge(w, ip)) \/ Settle(w) \/ Answer(w)
    \/ \E ip \in IPs : Solve(ip) \/ CookieEnds(ip)
    \/ MinuteEnds \/ Tick

RateSpec == RateInit /\ [][RateNext]_rateVars

\* An address that has been quiet fires no more than its burst before it is held to its rate,
\* and one that has been busy has no more than the rest of it ("burst  how many it may fire back
\* to back before that pace is enforced"; "The entry lives exactly as long as the debt does").
WithinBudget == \A ip \in IPs : spent[ip] <= Allowance
=============================================================================
