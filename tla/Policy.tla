------------------------------- MODULE Policy -------------------------------
(***************************************************************************)
(* The operator's policy and what it depends on that changes by itself.    *)
(* Handlers write country rules, access rules and address lists; entries   *)
(* of the lists expire; the country dataset and the crawler ranges are     *)
(* downloaded on timers.  Publish turns all of it into the configuration   *)
(* by which access.lua decides.                                            *)
(***************************************************************************)
EXTENDS CountrySets, FiniteSets, FiniteSetsExt

CONSTANTS
    CountryLists,   \* lists of countries a rule can name
    Drafts,         \* access rules an operator can write: action and condition
    RuleIds,        \* MaxAccessRules ids
    Kept,           \* the rules an earlier run of the daemon can have left, oldest first
    Listed,         \* <<address, "black" or "white">> pairs that can be put on a list
    Bundled,        \* the crawler addresses compiled into the binary
    Feeds,          \* what the source of crawler addresses can answer: sets of ranges
    MaxWidth,       \* addresses a crawler range may cover
    MaxTotal,       \* addresses a crawler list may cover
    MaxEdits,       \* bound: requests of operators
    MaxFaults       \* bound: failed publishes and crashes

All(f) == {a \in Addrs : a.fam = f}

\* A condition of an access rule: countries, a range of addresses, or whether the address is
\* a crawler's.  What a request says about itself is not modelled.
Conditions ==
    [field : {"country"}, val : CountryLists]
    \cup [field : {"ip"}, val : UNION {(SUBSET All(f)) \ {{}} : f \in Families}]
    \cup [field : {"crawler"}, val : BOOLEAN]

Actions == {"allow", "deny", "challenge", "log"}

\* Only what a request cannot claim about itself, and not everybody.
ValidateAllow(d) ==
    \/ d.cond.field = "ip" /\ \A f \in Families : d.cond.val # All(f)
    \/ d.cond.field = "crawler" /\ d.cond.val

ValidateAccessRule(d) == d.action = "allow" => ValidateAllow(d)

\* What an earlier run has left was validated by it.
ASSUME PolicyAssumption ==
    /\ Drafts \subseteq [action : Actions, cond : Conditions]
    /\ IsFiniteSet(RuleIds)
    /\ \A k \in Kept : /\ k \in Seq({d \in Drafts : ValidateAccessRule(d)})
                        /\ Len(k) <= Cardinality(RuleIds)
    /\ Listed \subseteq Addrs \X {"black", "white"}
    /\ \A c \in CountryLists : c # {} /\ NoCode \notin c
    /\ Bundled \in (SUBSET Addrs) \ {{}} /\ Cardinality(Bundled) <= MaxTotal
    /\ Feeds \subseteq SUBSET (SUBSET Addrs)
    /\ MaxWidth \in Nat /\ MaxTotal \in Nat /\ MaxEdits \in Nat /\ MaxFaults \in Nat

VARIABLES
    country,   \* the country rules: the global one, and that of the one site
    rules,     \* access_rules
    list,      \* ip_entries: for each pair of Listed whether it is there and for how long
    edit,      \* the rule a handler is about to write
    month,     \* the dataset GeoIP holds, 0 for none
    crawl,     \* the crawler addresses in use
    phase,     \* main() before its first publish has ended, after it, after SetGeoIP
    due,       \* a publish is due: a caller waits for Publisher.mu
    read,      \* the tables as the publish that holds it has read them
    live,      \* what the configuration in force was made from
    edits, faults

tables == <<country, rules, list>>
policyVars == <<country, rules, list, edit, month, crawl, phase, due, read, live, edits, faults>>

NoRule == [prio |-> 0]
NoEdit == [id |-> "none"]
NotReading == [country |-> <<>>]
Off == [mode |-> "off", of |-> {}]
Follow == [mode |-> "", of |-> {}]

\* What Publish reads: the tables, and later the dataset and the crawlers.
Now == [country |-> country, rules |-> rules,
        list |-> {l \in Listed : list[l] \in {"kept", "timed"}}]
Sources == [data |-> IF phase = "attached" THEN month ELSE 0, crawl |-> crawl]

\* Before the first publish the data plane runs on its own defaults.
Defaults ==
    [country |-> [w \in {"global", "site"} |-> Follow],
     rules |-> [i \in RuleIds |-> NoRule], list |-> {}, data |-> 0, crawl |-> {}]

Fault == faults < MaxFaults /\ faults' = faults + 1
Request == phase = "attached" /\ edits < MaxEdits /\ edits' = edits + 1

\* The priority of a new rule, past what a reorder gives.
Bottom == Cardinality(RuleIds)

\* Mutant: positions start at 0, which an update reads as not given.
PositionFromZero(ids, i) == (CHOOSE k \in DOMAIN ids : ids[k] = i) - 1

Position(ids, i) == CHOOSE k \in DOMAIN ids : ids[k] = i

PolicyInit ==
    /\ country = [w \in {"global", "site"} |-> IF w = "global" THEN Off ELSE Follow]
    /\ \E k \in Kept : LET ids == CHOOSE q \in SetToSeqs(RuleIds) : TRUE IN
          rules = [i \in RuleIds |->
                     LET n == CHOOSE p \in DOMAIN ids : ids[p] = i
                     IN  IF n > Len(k) THEN NoRule
                         ELSE [action |-> k[n].action, cond |-> k[n].cond, on |-> TRUE,
                               prio |-> Bottom + n - 1, born |-> n - Cardinality(RuleIds)]]
    /\ list = [l \in Listed |-> "none"]
    /\ edit = NoEdit /\ month = 0 /\ crawl = Bundled /\ phase = "first"
    /\ due = TRUE /\ read = NotReading /\ live = Defaults
    /\ edits = 0 /\ faults = 0

-----------------------------------------------------------------------------
(* Handlers *)

\* A rule without countries is off; that of a site then follows the global one.
NormaliseGeo(mode, c) ==
    IF mode \in {"block", "allow"} /\ c # {} THEN [mode |-> mode, of |-> c] ELSE Off
NormaliseSiteGeo(mode, c) ==
    IF mode = "" \/ (mode # "off" /\ NormaliseGeo(mode, c) = Off) THEN Follow ELSE NormaliseGeo(mode, c)

\* The country rule of the settings, or of the site.
SetCountryRule ==
    /\ Request
    /\ \E c \in CountryLists \cup {{}}, mode \in {"block", "allow", "off", ""} :
          \/ country' = [country EXCEPT !["global"] = NormaliseGeo(mode, c)]
          \/ country' = [country EXCEPT !["site"] = NormaliseSiteGeo(mode, c)]
    /\ due' = TRUE
    /\ UNCHANGED <<rules, list, edit, month, crawl, phase, read, live, faults>>

Present == {i \in RuleIds : rules[i] # NoRule}

\* handleCreateAccessRule counts, then inserts.
CreateRule ==
    /\ Request /\ edit = NoEdit /\ Present # RuleIds
    /\ \E d \in Drafts :
          /\ ValidateAccessRule(d)
          /\ edit' = [id |-> CHOOSE i \in RuleIds : i \notin Present, action |-> d.action, cond |-> d.cond, on |-> TRUE,
                      prio |-> Bottom + Cardinality(Present)]
    /\ UNCHANGED <<tables, month, crawl, phase, due, read, live, faults>>

\* handleUpdateAccessRule reads the rule; what the request leaves out stays as it was then.
UpdateRule ==
    /\ Request /\ edit = NoEdit
    /\ \E d \in Drafts, i \in Present :
          /\ ValidateAccessRule(d)
          /\ \E on \in {FALSE, rules[i].on} :
                edit' = [id |-> i, action |-> d.action, cond |-> d.cond, on |-> on,
                         prio |-> rules[i].prio]
    /\ UNCHANGED <<tables, month, crawl, phase, due, read, live, faults>>

\* UpsertAccessRule.  born is created_at, which a row that is there keeps.
UpsertRule ==
    /\ edit # NoEdit
    /\ LET i == edit.id
           born == IF rules[i] = NoRule THEN edits ELSE rules[i].born
       IN  rules' = [rules EXCEPT ![i] = [action |-> edit.action, cond |-> edit.cond,
                        on |-> edit.on, prio |-> edit.prio, born |-> born]]
    /\ edit' = NoEdit /\ due' = TRUE
    /\ UNCHANGED <<country, list, month, crawl, phase, read, live, edits, faults>>

DeleteRule ==
    /\ Request
    /\ \E i \in Present : rules' = [rules EXCEPT ![i] = NoRule]
    /\ due' = TRUE
    /\ UNCHANGED <<country, list, edit, month, crawl, phase, read, live, faults>>

\* ReorderAccessRules, in one transaction.
Reorder ==
    /\ Request /\ Cardinality(Present) > 1
    /\ \E ids \in SetToSeqs(Present) :
          rules' = [i \in RuleIds |->
                      IF i \in Present THEN [rules[i] EXCEPT !.prio = Position(ids, i)] ELSE NoRule]
    /\ due' = TRUE
    /\ UNCHANGED <<country, list, edit, month, crawl, phase, read, live, faults>>

SetEntry(l, s) ==
    /\ Request
    /\ list' = [list EXCEPT ![l] = s]
    /\ due' = TRUE
    /\ UNCHANGED <<country, rules, edit, month, crawl, phase, read, live, faults>>

\* For good or for some minutes, which replaces what the list has on the address.
AddIP == \E l \in Listed, s \in {"kept", "timed"} : SetEntry(l, s)
DeleteIP == \E l \in Listed : list[l] # "none" /\ SetEntry(l, "none")
EditList == AddIP \/ DeleteIP

-----------------------------------------------------------------------------
(* What happens by itself *)

EntryExpires ==
    /\ \E l \in Listed : list[l] = "timed" /\ list' = [list EXCEPT ![l] = "over"]
    /\ UNCHANGED <<country, rules, edit, month, crawl, phase, due, read, live, edits, faults>>

\* The janitor removes what has expired and publishes if there was any.
Janitor ==
    /\ \E l \in Listed : list[l] = "over"
    /\ list' = [l \in Listed |-> IF list[l] = "over" THEN "none" ELSE list[l]]
    /\ due' = TRUE
    /\ UNCHANGED <<country, rules, edit, month, crawl, phase, read, live, edits, faults>>

\* GeoIP.Refresh loads this month's dataset or the last one's; it does not publish.  One
\* that fails keeps what it has.
GeoRefresh ==
    /\ \E m \in (month + 1)..Len(Files) : month' = m
    /\ UNCHANGED <<tables, edit, crawl, phase, due, read, live, edits, faults>>

ValidatePrefix(range) == Cardinality(range) <= MaxWidth

\* A range that is too wide is dropped; a list that covers too much, or nothing, is refused,
\* which {} stands for here, as it does for a feed that cannot be fetched.
ValidateRanges(feed) ==
    LET good == {r \in feed : ValidatePrefix(r)}
    IN  IF MapThenSumSet(Cardinality, good) > MaxTotal THEN {} ELSE UNION good

\* Mutant: a list that is refused replaces the one in use.
RefreshedAnyway(feed) == ValidateRanges(feed)

Refreshed(feed) == IF ValidateRanges(feed) = {} THEN crawl ELSE ValidateRanges(feed)

\* Mutant: the refresh does not publish.
CrawlerRefreshQuiet ==
    /\ \E feed \in Feeds : crawl' = Refreshed(feed)
    /\ UNCHANGED <<tables, edit, month, phase, due, read, live, edits, faults>>

\* Crawlers.Start: Refresh, then publish, changed or not.
CrawlerRefresh ==
    /\ \E feed \in Feeds : crawl' = Refreshed(feed)
    /\ due' = TRUE
    /\ UNCHANGED <<tables, edit, month, phase, read, live, edits, faults>>

\* main() attaches the dataset after its first publish.
Attach ==
    /\ phase = "published"
    /\ phase' = "attached"
    /\ UNCHANGED <<tables, edit, month, crawl, due, read, live, edits, faults>>

\* moswafd stops and starts again: what it has downloaded is gone.
Restart ==
    /\ Fault
    /\ month' = 0 /\ crawl' = Bundled /\ phase' = "first"
    /\ edit' = NoEdit /\ due' = TRUE /\ read' = NotReading
    /\ UNCHANGED <<tables, live, edits>>

-----------------------------------------------------------------------------
(* Publish *)

ReadTables ==
    /\ due /\ read = NotReading
    /\ due' = FALSE /\ read' = Now
    /\ UNCHANGED <<tables, edit, month, crawl, phase, live, edits, faults>>

Published == IF phase = "first" THEN "published" ELSE phase

\* The configuration is put together with the dataset and the crawlers of that moment.
Store ==
    /\ read # NotReading
    /\ live' = [country |-> read.country, rules |-> read.rules, list |-> read.list,
                data |-> Sources.data, crawl |-> Sources.crawl]
    /\ read' = NotReading /\ phase' = Published
    /\ UNCHANGED <<tables, edit, month, crawl, due, edits, faults>>

PublishFails ==
    /\ read # NotReading /\ Fault
    /\ read' = NotReading /\ phase' = Published
    /\ UNCHANGED <<tables, edit, month, crawl, due, live, edits>>

Handler ==
    \/ SetCountryRule \/ CreateRule \/ UpdateRule \/ UpsertRule \/ DeleteRule
    \/ Reorder \/ EditList
Publishing == ReadTables \/ Store \/ PublishFails

PolicyNext ==
    \/ Handler \/ Publishing
    \/ EntryExpires \/ Janitor \/ GeoRefresh \/ CrawlerRefresh \/ Attach \/ Restart

\* Handlers and publishes come to an end and the timers are set again.  Nothing is assumed of
\* the downloads.
PolicySpec ==
    /\ PolicyInit /\ [][PolicyNext]_policyVars
    /\ WF_policyVars(UpsertRule) /\ WF_policyVars(Publishing)
    /\ WF_policyVars(CrawlerRefresh) /\ WF_policyVars(Attach)

-----------------------------------------------------------------------------
(* From what was read to a verdict: publisher.go, georesolve.go, accessrules.go, access.lua *)

Data(src) == ParseCSV(Files[src.data])
RangesFor(src, countries) == IF src.data = 0 THEN NoSet ELSE SetFor(Data(src), countries)

\* resolveGeo, forSite: a rule whose ranges cannot be built is off.
GeoRule(src) ==
    LET rule == IF src.country["site"].mode = "" THEN src.country["global"] ELSE src.country["site"]
        set == RangesFor(src, rule.of)
    IN  IF rule.mode \in {"block", "allow"} /\ set # NoSet THEN [mode |-> rule.mode, set |-> set]
        ELSE [mode |-> "off", set |-> NoSet]

Before(r, s) == r.prio < s.prio \/ (r.prio = s.prio /\ r.born < s.born)

\* ListAccessRules, buildAccessRules: the rules in their order, without the ones that are
\* disabled or name countries whose ranges cannot be built.
BuildAccessRules(src) ==
    LET usable == {r \in {src.rules[i] : i \in RuleIds} \ {NoRule} :
                     r.on /\ (r.cond.field = "country" => RangesFor(src, r.cond.val) # NoSet)}
    IN  InOrder(usable, Before)

Holds(src, cond, a) ==
    \/ cond.field = "ip" /\ a \in cond.val
    \/ cond.field = "crawler" /\ (a \in src.crawl) = cond.val
    \/ cond.field = "country" /\ GeoContains(RangesFor(src, cond.val), a) = "in"

\* access.lua, as far as these rules go: "check" is what is left to the other checks.  An
\* address of a crawler presents itself as that crawler.
Verdict(src, a) ==
    LET access == BuildAccessRules(src)
        hits == {i \in DOMAIN access : Holds(src, access[i].cond, a)}
        act == IF hits = {} THEN "none" ELSE access[CHOOSE i \in hits : \A j \in hits : i <= j].action
    IN  IF <<a, "white">> \in src.list THEN "pass"
        ELSE IF <<a, "black">> \in src.list THEN "block"
        ELSE IF act = "allow" THEN "pass"
        ELSE IF act = "deny" THEN "block"
        ELSE IF a \in src.crawl THEN "check"
        ELSE IF act = "challenge" THEN "challenge"
        ELSE IF Refuses(GeoRule(src).mode, GeoRule(src).set, a) THEN "block"
        ELSE "check"

-----------------------------------------------------------------------------
(* Properties. *)

CountryRules == [mode : {"block", "allow", "off", ""}, of : CountryLists \cup {{}}]

\* A rule as the table has it: one of those that can be written, validated, and in a position:
\* 0 would mean that none was given.
Written(r) == LET d == [action |-> r.action, cond |-> r.cond] IN d \in Drafts /\ ValidateAccessRule(d)
StoredRules ==
    {r \in [action : Actions, cond : Conditions, on : BOOLEAN, prio : 1..(2 * Bottom), born : Int] :
        Written(r)}

\* Every rule in the table has been validated and has a position: 0 means none was given.
PolicyTypeOK ==
    /\ country \in [{"global", "site"} -> CountryRules]
    /\ rules \in [RuleIds -> {NoRule} \cup StoredRules]
    /\ list \in [Listed -> {"none", "kept", "timed", "over"}]
    /\ month \in 0..Len(Files) /\ crawl \subseteq Addrs
    /\ phase \in {"first", "published", "attached"} /\ due \in BOOLEAN
    /\ live.data \in 0..Len(Files) /\ live.list \subseteq Listed
    /\ edits \in 0..MaxEdits /\ faults \in 0..MaxFaults

\* What the tables mean, by the country each address is looked up to.
CanName(src, countries) ==
    /\ src.data # 0
    /\ LET rows == {i \in DOMAIN Files[src.data] :
                      Good(Files[src.data][i]) /\ Files[src.data][i].cc \in countries}
       IN  rows # {} /\ Cardinality(rows) <= MaxRanges
\* A rule may name ZZ, which Lookup does not.
IsIn(src, countries, a) ==
    /\ CanName(src, countries)
    /\ \/ Lookup(Data(src), a) \in countries
       \/ "ZZ" \in countries /\ Code(Data(src), a) = "ZZ"
Known(src, countries, fam) == \E a \in Addrs : a.fam = fam /\ IsIn(src, countries, a)

Intended(src, a) ==
    LET matching == {r \in {src.rules[i] : i \in RuleIds} \ {NoRule} :
                       /\ r.on
                       /\ \/ r.cond.field = "ip" /\ a \in r.cond.val
                          \/ r.cond.field = "crawler" /\ (a \in src.crawl) = r.cond.val
                          \/ r.cond.field = "country" /\ IsIn(src, r.cond.val, a)}
        first == {r \in matching : \A s \in matching \ {r} : Before(r, s)}
        own == src.country["site"]
        geo == IF own.mode = "" THEN src.country["global"] ELSE own
        refused == \/ geo.mode = "block" /\ IsIn(src, geo.of, a)
                   \/ geo.mode = "allow" /\ Known(src, geo.of, a.fam) /\ ~IsIn(src, geo.of, a)
    IN  IF <<a, "white">> \in src.list THEN "pass"
        ELSE IF <<a, "black">> \in src.list THEN "block"
        ELSE IF \E r \in first : r.action = "allow" THEN "pass"
        ELSE IF \E r \in first : r.action = "deny" THEN "block"
        ELSE IF a \in src.crawl THEN "check"
        ELSE IF \E r \in first : r.action = "challenge" THEN "challenge"
        ELSE IF refused THEN "block"
        ELSE "check"

\* Every configuration that is stored decides about every address as the tables it was made
\* from mean it: the merged and searched ranges answer as Lookup does, a rule that cannot be
\* answered is left out, and the first rule in the operator's order that matches decides
\* (accessrules.lua: "two rules swapped are a different firewall").
DecidesAsIntended ==
    [][live' # live => \A a \in Addrs : Verdict(live', a) = Intended(live', a)]_policyVars

\* Whatever a source of crawler addresses answers, a published list names somebody and stays
\* below the ceiling (Refresh: "Never falling back to an empty list is the point").
CrawlersKnown ==
    live # Defaults => live.crawl # {} /\ Cardinality(live.crawl) <= MaxTotal

\* The configuration comes to say what the tables and the dataset say and stays so, although
\* the dataset is attached and loaded after the last publish somebody asked for, entries
\* expire, and a publish that fails is not tried again (publisher.go: "Call it after every admin change").
PolicyInForce ==
    <>[](/\ live.country = country /\ live.rules = rules /\ live.list = Now.list
         /\ live.data = Sources.data)

-----------------------------------------------------------------------------
(* What they rest on. *)

\* The rule a handler is about to write is one the table may hold.
EditOK ==
    edit = NoEdit \/ edit \in {e \in [id : RuleIds, action : Actions, cond : Conditions,
                                     on : BOOLEAN, prio : 1..(2 * Bottom)] : Written(e)}

\* The place of a rule among those of its priority is its own: what a handler is about to
\* insert gets a created_at no rule has.
BornApart(table) ==
    \A i, j \in RuleIds : i # j /\ NoRule \notin {table[i], table[j]} => table[i].born # table[j].born
Aged == \A i \in Present : rules[i].born <= edits /\ (edit # NoEdit => rules[i].born < edits)

\* What a publish has read is still what a table can hold.
Readable(t) ==
    /\ t.country \in [{"global", "site"} -> CountryRules]
    /\ t.rules \in [RuleIds -> {NoRule} \cup StoredRules] /\ BornApart(t.rules)
    /\ t.list \subseteq Listed

\* A refresh never leaves the publisher without crawlers or with too many, so neither does
\* what it publishes.
CrawlersKept == crawl # {} /\ Cardinality(crawl) <= MaxTotal

PolicyInv ==
    /\ PolicyTypeOK /\ EditOK /\ CrawlersKept /\ CrawlersKnown
    /\ BornApart(rules) /\ Aged /\ (read # NotReading => Readable(read))
=============================================================================
