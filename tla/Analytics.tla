------------------------------ MODULE Analytics ------------------------------
(***************************************************************************)
(* Site analytics (internal/analytics): the site list and its cache, the   *)
(* beacons that become page views inside visits, the purge of raw rows,    *)
(* the job that builds a total and a breakdown for every site day, and the *)
(* queries that add aggregated days and raw days together.                 *)
(*                                                                         *)
(* A tick is the hour of the two jobs; DayLen of them are a day.  Every    *)
(* site has one time zone here.  All page views are of one page, so the    *)
(* breakdown by page must agree with the total although it is read from    *)
(* another table by another statement.                                     *)
(***************************************************************************)
EXTENDS Integers, FiniteSets, FiniteSetsExt, Functions

CONSTANTS
  Sites, Visitors, Requests,  \* site ids, visitors (address and browser), handlers
  NoList,                     \* the cached site list is nil
  DayLen,                     \* ticks of a day
  VisitIdle,                  \* domain.VisitIdle, in ticks
  Retention,                  \* raw retention, in days
  History,                    \* domain.MaxHistoryMonths, in days
  PurgeLimit,                 \* rows one purge statement deletes (5000)
  Week,                       \* days of a "week" bucket (7)
  MaxSites,                   \* domain.MaxSites
  MaxTick, MaxViews, MaxCalls \* bounds: the last tick, page views recorded,
                              \* CreateSite and DeleteSite calls under way

ASSUME AnalyticsAssumption ==
  /\ {DayLen, VisitIdle, Retention, History, PurgeLimit, Week} \subseteq Nat \ {0}
  /\ {MaxSites, MaxTick, MaxViews, MaxCalls} \subseteq Nat
  /\ IsFiniteSet(Requests) /\ "nobody" \notin Requests

VARIABLES
  now,
  sites, unused, \* stored site ids; ids that were never given out
  cache, lister, \* cached site list; the request that holds cacheMu to load it
  owed,          \* CreateSite and DeleteSite calls that have yet to reset the list
  req,           \* what each handler is doing
  visits,        \* visits by id, each with the timestamps of its rows in pageviews
  daily,         \* analytics_daily: site -> aggregated day -> dimension -> counts
  roll, purge,   \* the two jobs
  seen,          \* history: every page view ever recorded
  ran            \* history: Rollup has finished in this tick

siteVars == <<sites, unused, cache, lister, owed>>
rowVars == <<visits, seen>>
vars == <<now, siteVars, req, rowVars, daily, roll, purge, ran>>

Nobody == "nobody"
Idle == [pc |-> "idle"]
Day(t) == t \div DayLen
Days == 0..Day(MaxTick)
Today == Day(now)
Dimensions == {"total", "page"}

\* The table with this row, in place of the one it had with that key.
With(table, key, row) == [k \in DOMAIN table \cup {key} |-> IF k = key THEN row ELSE table[k]]

Init ==
  /\ now = 0
  /\ sites = {} /\ unused = Sites
  /\ cache = NoList /\ lister = Nobody /\ owed = 0
  /\ req = [r \in Requests |-> Idle]
  /\ visits = <<>>
  /\ daily = [s \in Sites |-> <<>>]
  /\ roll = Idle /\ purge = Idle
  /\ seen = {}
  /\ ran = FALSE

-----------------------------------------------------------------------------
(* The site list: the table, and the copy every beacon looks its site up in *)

\* Each call resets the cached list once its statement is over, failed or not.
CreateSite(s) ==
  /\ s \in unused /\ Cardinality(sites) < MaxSites
  /\ sites' = sites \cup {s} /\ unused' = unused \ {s}
  /\ owed < MaxCalls /\ owed' = owed + 1
  /\ UNCHANGED <<now, cache, lister, req, rowVars, daily, roll, purge, ran>>

CreateRefused ==
  /\ Cardinality(sites) >= MaxSites
  /\ owed < MaxCalls /\ owed' = owed + 1
  /\ UNCHANGED <<now, sites, unused, cache, lister, req, rowVars, daily, roll, purge, ran>>

\* Visits, page views and aggregates go with their site (ON DELETE CASCADE).
Cascade(s) ==
  /\ visits' = Restrict(visits, {i \in DOMAIN visits : visits[i].site # s})
  /\ daily' = [daily EXCEPT ![s] = <<>>]
  /\ seen' = {x \in seen : x.site # s}

DeleteSiteKeepsList(s) ==
  /\ s \in sites
  /\ sites' = sites \ {s}
  /\ Cascade(s)
  /\ UNCHANGED <<now, unused, cache, lister, owed, req, roll, purge, ran>>

DeleteSite(s) ==
  /\ s \in sites
  /\ sites' = sites \ {s}
  /\ Cascade(s)
  /\ owed < MaxCalls /\ owed' = owed + 1
  /\ UNCHANGED <<now, unused, cache, lister, req, roll, purge, ran>>

\* resetSites waits for cacheMu.
ResetSites ==
  /\ owed > 0 /\ lister = Nobody
  /\ owed' = owed - 1 /\ cache' = NoList
  /\ UNCHANGED <<now, sites, unused, lister, req, rowVars, daily, roll, purge, ran>>

Admitted(s, w) == [pc |-> "record", site |-> s, who |-> w, ts |-> now]

\* Page views recorded or under way.
Views == Cardinality(seen) + Cardinality({r \in Requests : req[r] # Idle})

\* A beacon finds its site in the cached list and reads the clock.  A beacon
\* for any other site, or one that is malformed, limited, a bot's or another
\* origin's, changes nothing.
Lookup(r, s, w) ==
  /\ req[r] = Idle /\ Views < MaxViews
  /\ lister = Nobody /\ cache # NoList /\ s \in cache
  /\ req' = [req EXCEPT ![r] = Admitted(s, w)]
  /\ UNCHANGED <<now, siteVars, rowVars, daily, roll, purge, ran>>

\* The list is loaded with cacheMu held from the query to the assignment.
ListBegins(r, s, w) ==
  /\ req[r] = Idle /\ Views < MaxViews
  /\ lister = Nobody /\ cache = NoList
  /\ lister' = r
  /\ req' = [req EXCEPT ![r] = [pc |-> "list", site |-> s, who |-> w, list |-> sites]]
  /\ UNCHANGED <<now, sites, unused, cache, owed, rowVars, daily, roll, purge, ran>>

ListEnds(r) ==
  /\ req[r].pc = "list"
  /\ lister' = Nobody /\ cache' = req[r].list
  /\ req' = [req EXCEPT ![r] = IF @.site \in @.list THEN Admitted(@.site, @.who) ELSE Idle]
  /\ UNCHANGED <<now, sites, unused, owed, rowVars, daily, roll, purge, ran>>

ListFails(r) ==
  /\ req[r].pc = "list"
  /\ lister' = Nobody
  /\ req' = [req EXCEPT ![r] = Idle]
  /\ UNCHANGED <<now, sites, unused, cache, owed, rowVars, daily, roll, purge, ran>>

-----------------------------------------------------------------------------
(* RecordPageview: one transaction *)

\* visitorHash: the salt turns over at the site's midnight
Hash(q) == <<q.site, q.who, Day(q.ts)>>

\* The visits of this hash whose last page view is less than VisitIdle old.
Open(q) == {i \in DOMAIN visits : visits[i].hash = Hash(q) /\ visits[i].last > q.ts - VisitIdle}

LatestOf(S) == CHOOSE i \in S : \A j \in S : visits[j].last <= visits[i].last

Opened(q) == [site |-> q.site, hash |-> Hash(q), start |-> q.ts, last |-> q.ts, views |-> 1, rows |-> [j \in {1} |-> q.ts]]

ContinuedUncounted(v, ts) == [v EXCEPT !.last = ts, !.rows = With(@, v.views + 1, ts)]

\* last_at becomes this page view's time, also when that is the earlier one.
Continued(v, ts) == [v EXCEPT !.last = ts, !.views = @ + 1, !.rows = With(@, v.views + 1, ts)]

\* the foreign key of visits and pageviews
HasSite(s) == s \in sites

Record(r) ==
  /\ req[r].pc = "record"
  /\ req' = [req EXCEPT ![r] = Idle]
  /\ LET q == req[r]
         n == Max({x.n : x \in seen} \cup {0}) + 1
         i == IF Open(q) = {} THEN n ELSE LatestOf(Open(q))
     IN IF HasSite(q.site)
         THEN /\ visits' = IF i = n THEN With(visits, n, Opened(q))
                           ELSE [visits EXCEPT ![i] = Continued(@, q.ts)]
              /\ seen' = seen \cup {[n |-> n, site |-> q.site, day |-> Day(q.ts), who |-> q.who, visit |-> i]}
         ELSE UNCHANGED rowVars
  /\ UNCHANGED <<now, siteVars, daily, roll, purge, ran>>

RecordFails(r) ==
  /\ req[r].pc = "record"
  /\ req' = [req EXCEPT ![r] = Idle]
  /\ UNCHANGED <<now, siteVars, rowVars, daily, roll, purge, ran>>

-----------------------------------------------------------------------------
(* Purge: bounded statements, page views before visits, until none deletes *)

StaleViews(before) == {p \in (DOMAIN visits) \X (1..MaxViews) :
  p[2] \in DOMAIN visits[p[1]].rows /\ visits[p[1]].rows[p[2]] < before}

StaleVisits(before) == {i \in DOMAIN visits : visits[i].last < before}

Batches(S) == {B \in SUBSET S : Cardinality(B) = Min({PurgeLimit, Cardinality(S)})}

\* A purge that finds nothing changes nothing, and is left out.
PurgeBegins ==
  /\ purge = Idle
  /\ LET before == now - Retention * DayLen IN
       /\ StaleViews(before) # {} \/ StaleVisits(before) # {}
       /\ purge' = [pc |-> "views", before |-> before, n |-> 0]
  /\ UNCHANGED <<now, siteVars, req, rowVars, daily, roll, ran>>

PurgeViews ==
  /\ purge.pc = "views"
  /\ \E B \in Batches(StaleViews(purge.before)) :
       /\ visits' = [i \in DOMAIN visits |->
            [visits[i] EXCEPT !.rows = Restrict(@, {j \in DOMAIN @ : <<i, j>> \notin B})]]
       /\ purge' = [purge EXCEPT !.pc = "visits", !.n = Cardinality(B)]
  /\ UNCHANGED <<now, siteVars, req, seen, daily, roll, ran>>

PurgeVisits ==
  /\ purge.pc = "visits"
  /\ \E B \in Batches(StaleVisits(purge.before)) :
       /\ visits' = Restrict(visits, DOMAIN visits \ B)
       /\ purge' = IF purge.n + Cardinality(B) = 0 THEN Idle
                   ELSE [purge EXCEPT !.pc = "views", !.n = 0]
  /\ UNCHANGED <<now, siteVars, req, seen, daily, roll, ran>>

PurgeFails ==
  /\ purge # Idle
  /\ purge' = Idle
  /\ UNCHANGED <<now, siteVars, req, rowVars, daily, roll, ran>>

-----------------------------------------------------------------------------
(* Rollup: for each site, for each day that wants it, read every dimension, *)
(* then replace the day in one transaction                                  *)

RawFromSameDay(t) == Day(t - Retention * DayLen)

\* The first day that raw rows still hold whole.
RawFrom(t) == Day(t - Retention * DayLen) + 1

StartedIn(s, D) == {i \in DOMAIN visits : visits[i].site = s /\ Day(visits[i].start) \in D}

RawTotal(s, D) ==
  LET V == StartedIn(s, D) IN
  [visitors |-> Cardinality({visits[i].hash : i \in V}),
   visits |-> Cardinality(V),
   views |-> MapThenSumSet(LAMBDA i : visits[i].views, V)]

\* Page views of those days, joined with their visits.
RawPage(s, D) ==
  LET P == {p \in (DOMAIN visits) \X (1..MaxViews) :
              /\ visits[p[1]].site = s
              /\ p[2] \in DOMAIN visits[p[1]].rows /\ Day(visits[p[1]].rows[p[2]]) \in D}
  IN [visitors |-> Cardinality({visits[p[1]].hash : p \in P}),
      visits |-> Cardinality({p[1] : p \in P}),
      views |-> Cardinality(P)]

RawRows(s, D, dim) == IF dim = "total" THEN RawTotal(s, D) ELSE RawPage(s, D)

RollBegins ==
  /\ roll = Idle
  /\ roll' = [pc |-> "sites", at |-> now, todo |-> sites]
  /\ UNCHANGED <<now, siteVars, req, rowVars, daily, purge, ran>>

\* From the first visit, but no earlier than the raw rows are whole: today,
\* yesterday, and days without an aggregate.
Wanted(s, at) ==
  LET first == Min({Day(visits[i].start) : i \in {k \in DOMAIN visits : visits[k].site = s}})
      from == Max({first, RawFrom(now)})
  IN {d \in from..Day(at) : d \notin DOMAIN daily[s] \/ d >= Day(at) - 1}

\* The next of these days of the site, or the next site.
NextDay(s, days) ==
  IF days = {} THEN [pc |-> "sites", at |-> roll.at, todo |-> roll.todo \ {s}]
  ELSE [pc |-> "total", at |-> roll.at, todo |-> roll.todo, site |-> s, days |-> days]

RollSite ==
  /\ roll.pc = "sites"
  /\ \E s \in roll.todo :
       roll' = NextDay(s, IF \E i \in DOMAIN visits : visits[i].site = s THEN Wanted(s, roll.at) ELSE {})
  /\ UNCHANGED <<now, siteVars, req, rowVars, daily, purge, ran>>

RollReadsTotal ==
  /\ roll.pc = "total"
  /\ roll' = [pc |-> "page", at |-> roll.at, todo |-> roll.todo, site |-> roll.site, days |-> roll.days,
              total |-> RawTotal(roll.site, {Min(roll.days)})]
  /\ UNCHANGED <<now, siteVars, req, rowVars, daily, purge, ran>>

RollReadsPage ==
  /\ roll.pc = "page"
  /\ roll' = [pc |-> "store", at |-> roll.at, todo |-> roll.todo, site |-> roll.site, days |-> roll.days,
              total |-> roll.total, page |-> RawPage(roll.site, {Min(roll.days)})]
  /\ UNCHANGED <<now, siteVars, req, rowVars, daily, purge, ran>>

\* The day is replaced, or the site is gone and the run fails.
RollStores ==
  /\ roll.pc = "store"
  /\ LET d == Min(roll.days) IN
       IF HasSite(roll.site)
         THEN /\ daily' = [daily EXCEPT ![roll.site] = With(@, d, [total |-> roll.total, page |-> roll.page])]
              /\ roll' = NextDay(roll.site, roll.days \ {d})
         ELSE roll' = Idle /\ UNCHANGED daily
  /\ UNCHANGED <<now, siteVars, req, rowVars, purge, ran>>

\* PurgeDaily drops what is older than the history kept.
RollEnds ==
  /\ roll.pc = "sites" /\ roll.todo = {}
  /\ daily' = [s \in Sites |-> Restrict(daily[s], {d \in DOMAIN daily[s] : d >= Day(roll.at) - History})]
  /\ roll' = Idle /\ ran' = (roll.at = now)
  /\ UNCHANGED <<now, siteVars, req, rowVars, purge>>

RollFails ==
  /\ roll # Idle
  /\ roll' = Idle
  /\ UNCHANGED <<now, siteVars, req, rowVars, daily, purge, ran>>

-----------------------------------------------------------------------------
(* Queries: breakdowns and time series over a range of days *)

NoCounts == [visitors |-> 0, visits |-> 0, views |-> 0]

Add(a, b) == [visitors |-> a.visitors + b.visitors, visits |-> a.visits + b.visits, views |-> a.views + b.views]

DailyRows(s, D, dim) == FoldSet(LAMBDA d, sum : Add(daily[s][d][dim], sum), NoCounts, D \cap DOMAIN daily[s])

\* split: days before the raw boundary read aggregates, the others raw rows.
Breakdown(s, D, dim) ==
  LET raw == {d \in D : d >= RawFrom(now)} IN Add(DailyRows(s, D \ raw, dim), RawRows(s, raw, dim))

\* The same number of days just before a range.
CompareRange(from, to) == from - (to - from + 1)..from - 1

\* What a query answers: the range, the range it is compared with, and whether
\* any of their days is too old for raw rows (filters are then refused).
Query(s, from, to, dim) ==
  [rows |-> Breakdown(s, from..to, dim),
   compare |-> Breakdown(s, CompareRange(from, to), dim),
   source |-> IF \E d \in from..to \cup CompareRange(from, to) : d < RawFrom(now) THEN "aggregates" ELSE "raw"]

BucketsUnclipped(from, to, w) ==
  {{d \in from..to : d \in b..b + w} : b \in {d \in from..to : d = from \/ d % w = 0}}

\* buckets: the first and the last are clipped to the range.
Buckets(from, to, w) ==
  {{d \in from..to : d \div w = b} : b \in {d \div w : d \in from..to}}

\* One point of timeline: aggregated totals of its days and its raw visits.
Timeline(s, from, to, w) == [B \in Buckets(from, to, w) |-> Breakdown(s, B, "total")]

-----------------------------------------------------------------------------
(* A beacon is in flight for less than two ticks, a change of the site list  *)
(* less than one, and a tick is longer than sitesTTL.                        *)
Tick ==
  /\ now < MaxTick /\ owed = 0
  /\ \A r \in Requests : req[r].pc = "record" => req[r].ts = now
  /\ now' = now + 1 /\ ran' = FALSE
  /\ cache' = NoList
  /\ UNCHANGED <<sites, unused, lister, owed, req, rowVars, daily, roll, purge>>

\* The server stops and starts again: only the tables are left.
Restart ==
  /\ cache' = NoList /\ lister' = Nobody /\ owed' = 0
  /\ req' = [r \in Requests |-> Idle]
  /\ roll' = Idle /\ purge' = Idle
  /\ UNCHANGED <<now, sites, unused, rowVars, daily, ran>>

Next ==
  \/ \E s \in Sites : CreateSite(s) \/ DeleteSite(s)
  \/ CreateRefused \/ ResetSites
  \/ \E r \in Requests :
       \/ \E s \in Sites, w \in Visitors : Lookup(r, s, w) \/ ListBegins(r, s, w)
       \/ ListEnds(r) \/ ListFails(r) \/ Record(r) \/ RecordFails(r)
  \/ PurgeBegins \/ PurgeViews \/ PurgeVisits \/ PurgeFails
  \/ RollBegins \/ RollSite \/ RollReadsTotal \/ RollReadsPage \/ RollStores \/ RollEnds \/ RollFails
  \/ Tick \/ Restart

Spec == Init /\ [][Next]_vars

\* The hourly job finishes a run in every hour; without this a day may be left
\* as an outage found it.
HourlySpec == Init /\ [][Next /\ (now' # now => ran)]_vars

-----------------------------------------------------------------------------
Ticks == 0..MaxTick

(* Every row is of a stored site, aggregated days are days with both dimensions. *)
TypeOK ==
  /\ now \in Ticks /\ owed \in 0..MaxCalls /\ ran \in BOOLEAN
  /\ sites \cup unused \subseteq Sites /\ sites \cap unused = {}
  /\ cache = NoList \/ cache \subseteq Sites
  /\ lister \in Requests \cup {Nobody}
  /\ \A r \in Requests : req[r].pc = "list" <=> lister = r
  /\ \A i \in DOMAIN visits :
       /\ visits[i].site \in sites /\ visits[i].views \in 1..MaxViews
       /\ {visits[i].start, visits[i].last} \subseteq Ticks
  /\ \A s \in Sites : \A d \in DOMAIN daily[s] :
       d \in Days /\ s \in sites /\ DOMAIN daily[s][d] = Dimensions

(* Once no CreateSite or DeleteSite is under way, the cached list, and the
   one a request is about to put in the cache, is the table: no beacon of a
   new site is dropped as unknown and no load that began before a change
   (Sites holds cacheMu across ListSites, resetSites waits for it) survives it. *)
CacheFresh ==
  owed = 0 =>
    /\ cache # NoList => cache = sites
    /\ \A r \in Requests : req[r].pc = "list" => req[r].list = sites

(* A visit lies inside one day of its site (the hash changes at midnight), its
   count of page views covers its rows, and out-of-order commits shift its ends by
   no more than the tick a request may take: last_at is set to whatever page
   view commits last. With it, every variable has its type. *)
VisitInOneDay ==
  /\ TypeOK
  /\ \A i \in DOMAIN visits : LET v == visits[i] IN
       /\ Day(v.start) = Day(v.last)
       /\ \A j \in DOMAIN v.rows :
            /\ Day(v.rows[j]) = Day(v.start)
            /\ v.rows[j] >= v.start - 1 /\ v.rows[j] <= v.last + 1
       /\ Cardinality(DOMAIN v.rows) <= v.views

Recent == {d \in Days : d >= Today - History /\ d <= Today}

Truth(s, D) ==
  LET S == {x \in seen : x.site = s /\ x.day \in D} IN
  [visitors |-> Cardinality({<<x.day, x.who>> : x \in S}),
   visits |-> Cardinality({x.visit : x \in S}),
   views |-> Cardinality(S)]

(* A query over any range of the history, and the comparison with the days
   before it, counts every visitor day, visit and page view that was ever
   recorded exactly once, by total and by page, whatever part of the range is
   read from aggregates and whatever was purged; an answer said to be from raw
   rows used no aggregate, so that its filters saw every row. *)
QueryCountsAll ==
  \A s \in sites, dim \in Dimensions : \A from, to \in Recent : from <= to =>
    LET answer == Query(s, from, to, dim) IN
      /\ answer.rows = Truth(s, from..to)
      /\ CompareRange(from, to) \subseteq Recent => answer.compare = Truth(s, CompareRange(from, to))
      /\ answer.source = "raw" => answer.rows = RawRows(s, from..to, dim)

(* The points of a time series add up to the total of its range: the buckets
   cut at weeks and at the ends of the range hold every day once. *)
TimelineAddsUp ==
  \A s \in sites : \A from, to \in Recent : from <= to =>
    LET T == Timeline(s, from, to, Week) IN
      MapThenSumSet(LAMBDA B : T[B].visits, DOMAIN T) = Breakdown(s, from..to, "total").visits

=============================================================================
