--------------------------- MODULE AnalyticsProofs ---------------------------
(***************************************************************************)
(* The safety of site analytics for any number of sites, visitors and      *)
(* handlers, any day length, idle time, retention and purge limit.  The    *)
(* strengthening says which request holds the lock of the site list, how   *)
(* old a beacon in flight is, that a visit and its page views are of the   *)
(* day in the visit's hash, and that no purge looks past the whole days    *)
(* that queries still read from raw rows.                                  *)
(***************************************************************************)
EXTENDS Analytics, FiniteSetTheorems, TLAPS

Listing == [pc : {"list"}, site : Sites, who : Visitors, list : SUBSET Sites]
Recording == [pc : {"record"}, site : Sites, who : Visitors, ts : Nat]
Handling == {Idle} \cup Listing \cup Recording

(* The site list, its lock and the requests. *)
ListInv ==
  /\ owed \in 0..MaxCalls
  /\ sites \subseteq Sites /\ unused \subseteq Sites /\ sites \cap unused = {}
  /\ cache = NoList \/ cache \subseteq Sites
  /\ lister \in Requests \cup {Nobody}
  /\ req \in [Requests -> Handling]
  /\ \A r \in Requests : req[r].pc = "list" <=> lister = r
  /\ CacheFresh

(* A beacon is at most one tick old when its page view is recorded. *)
Young ==
  /\ now \in Ticks /\ ran \in BOOLEAN
  /\ \A r \in Requests : req[r].pc = "record" => req[r].ts <= now /\ now <= req[r].ts + 1

Active == {r \in Requests : req[r] # Idle}

(* Page views are as many as the bound allows. *)
RoomInv ==
  /\ IsFiniteSet(seen)
  /\ Cardinality(seen) + Cardinality(Active) <= MaxViews

RowSets == UNION {[D -> Nat] : D \in SUBSET Nat}
Hashes == Sites \X Visitors \X Nat
Visit == [site : Sites, hash : Hashes, start : Nat, last : Nat, views : Nat, rows : RowSets]

(* A visit as it may be at a tick. *)
VisitOK(v, t) ==
  /\ v \in Visit
  /\ v.views >= 1
  /\ v.start <= t /\ v.last <= t
  /\ v.hash[1] = v.site /\ v.hash[3] = Day(v.start) /\ v.hash[3] = Day(v.last)
  /\ DOMAIN v.rows \subseteq 1..v.views
  /\ \A j \in DOMAIN v.rows :
       /\ v.rows[j] <= t /\ Day(v.rows[j]) = v.hash[3]
       /\ v.rows[j] >= v.start - 1 /\ v.rows[j] <= v.last + 1

ViewsOf(i) == {x \in seen : x.visit = i}

(* Visits, and the history of page views they came from. *)
RowInv ==
  /\ visits \in [DOMAIN visits -> Visit]
  /\ \A i \in DOMAIN visits :
       /\ VisitOK(visits[i], now)
       /\ visits[i].site \in sites
       /\ visits[i].views <= Cardinality(ViewsOf(i))
       /\ \E x \in seen : x.visit = i
  /\ \A x \in seen :
       /\ x.n \in Nat /\ x.visit \in Nat /\ x.visit <= x.n
       /\ x.visit \in DOMAIN visits => visits[x.visit].site = x.site
  /\ \E b \in Nat : \A x \in seen : x.n <= b

(* A purge is older than the first whole day of raw rows. *)
PurgeInv ==
  purge = Idle \/
    /\ "before" \in DOMAIN purge
    /\ purge.before \in Int /\ purge.before <= now - Retention * DayLen

(* The daily job and what it stored. *)
DailyInv ==
  /\ roll = Idle \/
       /\ roll.at \in Ticks /\ roll.at <= now
       /\ roll.pc = "sites" \/ (roll.days \subseteq Days /\ roll.days # {})
  /\ daily = [s \in Sites |-> daily[s]]
  /\ \A s \in Sites : \A d \in DOMAIN daily[s] :
       d \in Days /\ s \in sites /\ DOMAIN daily[s][d] = Dimensions

(* What a step does not take away: the page views of days that are whole in *)
(* the raw rows, unless their site goes.                                    *)
RawDaysStep ==
  \A i \in DOMAIN visits : \A j \in DOMAIN visits[i].rows :
    visits[i].site \in sites' /\ Day(visits[i].rows[j]) >= RawFrom(now) =>
      /\ i \in DOMAIN visits' /\ j \in DOMAIN visits'[i].rows
      /\ visits'[i].rows[j] = visits[i].rows[j]

IInv == ListInv /\ Young /\ RoomInv /\ RowInv /\ PurgeInv /\ DailyInv

-----------------------------------------------------------------------------
(* Numbers *)

(* The constants are numbers. *)
LEMMA Numbers ==
  /\ DayLen \in Nat \ {0} /\ VisitIdle \in Nat \ {0} /\ Retention \in Nat \ {0} /\ History \in Nat \ {0}
  /\ MaxTick \in Nat /\ MaxViews \in Nat /\ MaxCalls \in Nat
BY Zenon, AnalyticsAssumption

(* A set of natural numbers has a least one. *)
LEMMA Least ==
  ASSUME NEW T \in SUBSET Nat, T # {}
  PROVE  \E x \in T : \A y \in T : x <= y
<1> DEFINE R == {ss \in Nat \X Nat : ss[1] < ss[2]}
<1>1. OpToRel(<, Nat) = R
  BY Zenon DEF OpToRel
<1>2. IsWellFoundedOn(R, Nat)
  BY Zenon, <1>1, NatLessThanWellFounded
<1>3. PICK x \in T : \A y \in T : ~ (<<y, x>> \in R)
  BY Zenon, <1>2, WFMin
<1>4. ASSUME NEW y \in T, y < x
      PROVE  FALSE
  <2>1. <<y, x>> \in Nat \X Nat /\ <<y, x>>[1] < <<y, x>>[2]
    BY <1>4
  <2>2. <<y, x>> \in R
    BY Zenon, <2>1
  <2> QED
    BY Zenon, <1>3, <2>2
<1> QED
  BY <1>4

(* A set of natural numbers below a bound has a greatest one. *)
LEMMA Greatest ==
  ASSUME NEW T \in SUBSET Nat, T # {}, NEW b \in Nat, \A x \in T : x <= b
  PROVE  \E x \in T : \A y \in T : y <= x
<1> DEFINE U == {u \in Nat : \A y \in T : y <= u}
<1>1. U \in SUBSET Nat /\ b \in U
  OBVIOUS
<1>2. PICK u \in U : \A w \in U : u <= w
  BY Zenon, <1>1, Least
<1>3. u \in T
  <2> SUFFICES ASSUME u \notin T
               PROVE  FALSE
    OBVIOUS
  <2>1. \A y \in T : y <= u - 1
    OBVIOUS
  <2>2. u - 1 \in Nat
    <3>1. PICK y : y \in T
      OBVIOUS
    <3>2. y \in Nat /\ u \in Nat /\ y <= u - 1
      BY <2>1, <3>1
    <3> QED
      BY <3>2
  <2>3. u - 1 \in U
    BY Zenon, <2>1, <2>2
  <2> QED
    BY <1>2, <2>3
<1> QED
  BY <1>3

LEMMA IdleIs ==
  /\ Idle.pc # "views" /\ Idle.pc # "visits" /\ Idle.pc # "sites"
  /\ Idle.pc # "total" /\ Idle.pc # "page" /\ Idle.pc # "store"
BY DEF Idle

LEMMA IntOfNat == \A n \in Nat : n \in Int
OBVIOUS

(* Days are counted from zero, and later ticks are of later days. *)
LEMMA DayNat ==
  ASSUME NEW t \in Nat
  PROVE  Day(t) \in Nat
BY Numbers DEF Day

LEMMA DayGrows ==
  ASSUME NEW t \in Int, NEW u \in Int, t <= u
  PROVE  Day(t) \in Int /\ Day(u) \in Int /\ Day(t) <= Day(u)
BY Numbers DEF Day

-----------------------------------------------------------------------------
(* Visits *)

(* A table with one more row. *)
LEMMA WithIs ==
  ASSUME NEW table, NEW key, NEW row
  PROVE  /\ DOMAIN With(table, key, row) = DOMAIN table \cup {key}
         /\ With(table, key, row)[key] = row
         /\ \A k \in DOMAIN table : k # key => With(table, key, row)[k] = table[k]
BY Zenon DEF With

LEMMA WithTyped ==
  ASSUME NEW D, NEW S, NEW table \in [D -> S], NEW key, NEW row \in S
  PROVE  With(table, key, row) \in [D \cup {key} -> S]
<1>1. DOMAIN table = D /\ \A k \in D : table[k] \in S
  BY Zenon
<1> QED
  BY Zenon, <1>1 DEF With

(* A table without some of its rows. *)
LEMMA RestrictIs ==
  ASSUME NEW table, NEW D
  PROVE  /\ DOMAIN Restrict(table, D) = D
         /\ \A k \in D : Restrict(table, D)[k] = table[k]
BY Zenon DEF Restrict

LEMMA RestrictTyped ==
  ASSUME NEW table, NEW D, NEW S, \A k \in D : table[k] \in S
  PROVE  Restrict(table, D) \in [D -> S]
BY Zenon DEF Restrict

(* A row that is numbered next. *)
LEMMA NextNumber ==
  ASSUME NEW m \in Nat, NEW D, D \subseteq 1..m
  PROVE  m + 1 \notin D /\ D \cup {m + 1} \subseteq 1..(m + 1)
OBVIOUS

(* A visit with another end, count and rows. *)
Changed(v, last, views, rows) == [v EXCEPT !.last = last, !.views = views, !.rows = rows]

LEMMA VisitWith ==
  ASSUME NEW v \in Visit, NEW last, NEW views, NEW rows
  PROVE  Changed(v, last, views, rows)
           = [site |-> v.site, hash |-> v.hash, start |-> v.start, last |-> last, views |-> views, rows |-> rows]
<1> DEFINE w == [v EXCEPT !.last = last]
           x == [w EXCEPT !.views = views]
<1>1. Changed(v, last, views, rows) = [x EXCEPT !.rows = rows]
  BY DEF Visit, Changed
<1>2. w = [site |-> v.site, hash |-> v.hash, start |-> v.start, last |-> last, views |-> v.views, rows |-> v.rows]
  BY DEF Visit
<1> HIDE DEF w
<1>3. x = [site |-> v.site, hash |-> v.hash, start |-> v.start, last |-> last, views |-> views, rows |-> v.rows]
  BY <1>2
<1> HIDE DEF x
<1>4. [x EXCEPT !.rows = rows]
        = [site |-> v.site, hash |-> v.hash, start |-> v.start, last |-> last, views |-> views, rows |-> rows]
  BY <1>3
<1> QED
  BY Zenon, <1>1, <1>4

(* The first page view opens a visit. *)
LEMMA OpenedOK ==
  ASSUME NEW q \in Recording, NEW t \in Nat, q.ts <= t
  PROVE  /\ VisitOK(Opened(q), t)
         /\ Opened(q).views = 1 /\ Opened(q).site = q.site
<1> DEFINE rows == [j \in {1} |-> q.ts]
<1>1. q.site \in Sites /\ q.who \in Visitors /\ q.ts \in Nat
  BY Zenon DEF Recording
<1>2. Day(q.ts) \in Nat
  BY Zenon, <1>1, DayNat
<1>3. Hash(q) \in Hashes /\ Hash(q)[1] = q.site /\ Hash(q)[3] = Day(q.ts)
  BY <1>1, <1>2 DEF Hash, Hashes
<1>4. rows \in RowSets
  <2>1. {1} \in SUBSET Nat /\ rows \in [{1} -> Nat]
    BY <1>1
  <2> QED
    BY Zenon, <2>1 DEF RowSets
<1>5. 1 \in Nat /\ 1 >= 1 /\ {1} \subseteq 1..1 /\ q.ts >= q.ts - 1 /\ q.ts <= q.ts + 1
  BY <1>1
<1> HIDE DEF rows
<1>6. Opened(q) = [site |-> q.site, hash |-> Hash(q), start |-> q.ts, last |-> q.ts, views |-> 1, rows |-> rows]
  BY Zenon DEF Opened, rows
<1>7. Opened(q) \in Visit
  BY <1>1, <1>3, <1>4, <1>5, <1>6 DEF Visit
<1>8. /\ Opened(q).site = q.site /\ Opened(q).hash = Hash(q) /\ Opened(q).start = q.ts
      /\ Opened(q).last = q.ts /\ Opened(q).views = 1 /\ Opened(q).rows = rows
  BY <1>6
<1>9. DOMAIN rows = {1} /\ rows[1] = q.ts
  BY Zenon DEF rows
<1> QED
  BY Zenon, <1>3, <1>5, <1>7, <1>8, <1>9 DEF VisitOK

(* A visit with a page view more, and every row it had. *)
OneMore(w, v) ==
  /\ w.views = v.views + 1 /\ w.site = v.site
  /\ \A j \in DOMAIN v.rows : j \in DOMAIN w.rows /\ w.rows[j] = v.rows[j]

(* A row more of the day of the visit, of this tick or the one before. *)
LEMMA ContinuedOK ==
  ASSUME NEW t \in Nat, NEW v, VisitOK(v, t), NEW ts \in Nat, ts <= t, t <= ts + 1, Day(ts) = v.hash[3]
  PROVE  VisitOK(Continued(v, ts), t) /\ OneMore(Continued(v, ts), v)
<1> DEFINE n == v.views + 1
           rows == With(v.rows, n, ts)
<1>1. /\ v \in Visit /\ v.site \in Sites /\ v.hash \in Hashes /\ v.start \in Nat /\ v.last \in Nat
      /\ v.views \in Nat /\ v.rows \in RowSets
  BY Zenon DEF VisitOK, Visit
<1>2. PICK D \in SUBSET Nat : v.rows \in [D -> Nat]
  BY Zenon, <1>1 DEF RowSets
<1>3. DOMAIN v.rows = D /\ DOMAIN v.rows \subseteq 1..v.views /\ n \in Nat /\ n >= 1
  BY <1>1, <1>2 DEF VisitOK
<1>4. n \notin DOMAIN v.rows /\ DOMAIN v.rows \cup {n} \subseteq 1..n
  BY Zenon, <1>1, <1>3, NextNumber
<1>5. \A j \in DOMAIN v.rows : v.rows[j] \in Nat /\ j \in Nat
  BY Zenon, <1>2, <1>3
<1> HIDE DEF rows, n
<1>6. /\ DOMAIN rows = DOMAIN v.rows \cup {n} /\ rows[n] = ts
      /\ \A j \in DOMAIN v.rows : rows[j] = v.rows[j]
  <2>1. /\ DOMAIN rows = DOMAIN v.rows \cup {n} /\ rows[n] = ts
        /\ \A j \in DOMAIN v.rows : j # n => rows[j] = v.rows[j]
    BY Zenon DEF With, rows
  <2> QED
    BY Zenon, <1>4, <2>1
<1>7. rows \in [D \cup {n} -> Nat] /\ D \cup {n} \in SUBSET Nat
  BY Zenon, <1>2, <1>3, WithTyped DEF rows
<1>8. rows \in RowSets
  BY Zenon, <1>7 DEF RowSets
<1>9. Continued(v, ts) = [site |-> v.site, hash |-> v.hash, start |-> v.start, last |-> ts, views |-> n, rows |-> rows]
  <2>1. Continued(v, ts) = Changed(v, ts, n, rows)
    BY SMT, <1>1 DEF Continued, Changed, Visit, n, rows
  <2> QED
    BY Zenon, <1>1, <2>1, VisitWith
<1>10. Continued(v, ts) \in Visit
  BY <1>1, <1>3, <1>8, <1>9 DEF Visit
<1>11. /\ Continued(v, ts).site = v.site /\ Continued(v, ts).hash = v.hash /\ Continued(v, ts).start = v.start
       /\ Continued(v, ts).last = ts /\ Continued(v, ts).views = n /\ Continued(v, ts).rows = rows
  BY <1>9
<1>12. /\ v.start <= t /\ v.hash[1] = v.site /\ v.hash[3] = Day(v.start)
       /\ \A j \in DOMAIN v.rows : v.rows[j] <= t /\ Day(v.rows[j]) = v.hash[3] /\ v.rows[j] >= v.start - 1
  BY Zenon DEF VisitOK
<1>13. /\ ts >= v.start - 1 /\ ts <= ts + 1
       /\ \A j \in DOMAIN v.rows : v.rows[j] <= ts + 1
  BY <1>1, <1>5, <1>12
<1>14. \A j \in DOMAIN rows :
         /\ rows[j] <= t /\ Day(rows[j]) = v.hash[3]
         /\ rows[j] >= v.start - 1 /\ rows[j] <= ts + 1
  BY Zenon, <1>6, <1>12, <1>13
<1>15. DOMAIN rows \subseteq 1..n
  BY Zenon, <1>4, <1>6
<1>16. VisitOK(Continued(v, ts), t)
  BY Zenon, <1>3, <1>10, <1>11, <1>12, <1>14, <1>15 DEF VisitOK
<1> QED
  BY Zenon, <1>6, <1>11, <1>16 DEF n, OneMore

(* A visit is no worse later. *)
LEMMA LaterOK ==
  ASSUME NEW t \in Nat, NEW u \in Nat, t <= u, NEW v, VisitOK(v, t)
  PROVE  VisitOK(v, u)
<1>1. v.start \in Nat /\ v.last \in Nat /\ v.rows \in RowSets
  BY Zenon DEF VisitOK, Visit
<1>2. PICK D \in SUBSET Nat : v.rows \in [D -> Nat]
  BY Zenon, <1>1 DEF RowSets
<1>3. \A j \in DOMAIN v.rows : v.rows[j] \in Nat /\ v.rows[j] <= t
  BY Zenon, <1>2 DEF VisitOK
<1>4. v.start <= u /\ v.last <= u /\ \A j \in DOMAIN v.rows : v.rows[j] <= u
  BY <1>1, <1>3 DEF VisitOK
<1> QED
  BY Zenon, <1>4 DEF VisitOK

(* A visit without some of its rows. *)
Thinned(v, D) == [v EXCEPT !.rows = Restrict(@, D)]

OnlyRows(w, v, D) ==
  /\ w.site = v.site /\ w.views = v.views
  /\ DOMAIN w.rows = D /\ \A j \in D : w.rows[j] = v.rows[j]

LEMMA FewerRowsOK ==
  ASSUME NEW t, NEW v, VisitOK(v, t), NEW D, D \subseteq DOMAIN v.rows,
         NEW w, w = Thinned(v, D)
  PROVE  VisitOK(w, t) /\ OnlyRows(w, v, D)
<1> DEFINE rows == Restrict(v.rows, D)
<1>1. v \in Visit /\ v.rows \in RowSets
  BY Zenon DEF VisitOK, Visit
<1>2. PICK E \in SUBSET Nat : v.rows \in [E -> Nat]
  BY Zenon, <1>1 DEF RowSets
<1>3. D \in SUBSET Nat /\ \A j \in D : v.rows[j] \in Nat
  BY Zenon, <1>2
<1>4. /\ DOMAIN rows = D /\ \A j \in D : rows[j] = v.rows[j]
  BY Zenon, RestrictIs
<1>5. rows \in [D -> Nat]
  BY Zenon, <1>3, RestrictTyped
<1> HIDE DEF rows
<1>6. rows \in RowSets
  BY Zenon, <1>3, <1>5 DEF RowSets
<1>7. w = [site |-> v.site, hash |-> v.hash, start |-> v.start, last |-> v.last, views |-> v.views, rows |-> rows]
  BY <1>1 DEF Visit, rows, Thinned
<1>8. w \in Visit
  BY <1>1, <1>6, <1>7 DEF Visit
<1>9. /\ w.site = v.site /\ w.hash = v.hash /\ w.start = v.start
      /\ w.last = v.last /\ w.views = v.views /\ w.rows = rows
  BY <1>7
<1>10. /\ v.views >= 1 /\ v.start <= t /\ v.last <= t
       /\ v.hash[1] = v.site /\ v.hash[3] = Day(v.start) /\ v.hash[3] = Day(v.last)
       /\ D \subseteq 1..v.views
  BY Zenon DEF VisitOK
<1>11. \A j \in D :
         /\ rows[j] <= t /\ Day(rows[j]) = v.hash[3]
         /\ rows[j] >= v.start - 1 /\ rows[j] <= v.last + 1
  BY Zenon, <1>4 DEF VisitOK
<1>12. VisitOK(w, t)
  BY Zenon, <1>4, <1>8, <1>9, <1>10, <1>11 DEF VisitOK
<1> QED
  BY Zenon, <1>4, <1>9, <1>12 DEF OnlyRows

-----------------------------------------------------------------------------
(* The site list *)

(* What a handler is doing. *)
LEMMA Doing ==
  ASSUME NEW q \in Handling
  PROVE  /\ q.pc = "list" => q \in Listing
         /\ q.pc = "record" => q \in Recording
         /\ Idle.pc # "list" /\ Idle.pc # "record"
BY DEF Handling, Listing, Recording, Idle

LEMMA AdmittedIs ==
  ASSUME NEW s \in Sites, NEW w \in Visitors, now \in Nat
  PROVE  /\ Admitted(s, w) \in Recording /\ Admitted(s, w) \in Handling
         /\ Admitted(s, w).pc # "list" /\ Admitted(s, w).ts = now
BY DEF Admitted, Recording, Handling

(* The handlers after one of them went on. *)
LEMMA OneHandler ==
  ASSUME req \in [Requests -> Handling], NEW r \in Requests, NEW q \in Handling,
         req' = [req EXCEPT ![r] = q]
  PROVE  /\ req' \in [Requests -> Handling] /\ req'[r] = q
         /\ \A p \in Requests : p # r => req'[p] = req[p]
BY Zenon

(* A change of the table that has yet to reset the list. *)
LEMMA OwedKeeps ==
  ASSUME ListInv, owed < MaxCalls, owed' = owed + 1, UNCHANGED <<cache, lister, req>>,
         sites' \subseteq Sites, unused' \subseteq Sites, sites' \cap unused' = {}
  PROVE  ListInv'
<1>1. owed' \in 0..MaxCalls /\ owed' # 0
  BY Numbers DEF ListInv
<1>2. CacheFresh'
  BY Zenon, <1>1 DEF CacheFresh
<1> QED
  BY Zenon, <1>1, <1>2 DEF ListInv

LEMMA ResetKeeps ==
  ASSUME ListInv, ResetSites
  PROVE  ListInv'
<1>1. owed' \in 0..MaxCalls
  BY Numbers DEF ListInv, ResetSites
<1>2. \A r \in Requests : req[r].pc # "list"
  BY Zenon, AnalyticsAssumption DEF ListInv, ResetSites, Nobody
<1>3. cache' = NoList /\ UNCHANGED <<sites, unused, lister, req>>
  BY Zenon DEF ResetSites
<1>4. CacheFresh'
  BY Zenon, <1>2, <1>3 DEF CacheFresh
<1> QED
  BY Zenon, <1>1, <1>3, <1>4 DEF ListInv

(* A handler that neither holds the lock nor takes it. *)
LEMMA HandlerKeeps ==
  ASSUME ListInv, NEW r \in Requests, NEW q \in Handling, req' = [req EXCEPT ![r] = q],
         req[r].pc # "list", q.pc # "list", UNCHANGED siteVars
  PROVE  ListInv'
<1>1. /\ req' \in [Requests -> Handling] /\ req'[r] = q
      /\ \A p \in Requests : p # r => req'[p] = req[p]
  BY Zenon, OneHandler DEF ListInv
<1>2. \A p \in Requests : /\ req'[p].pc = "list" <=> req[p].pc = "list"
                          /\ req'[p].pc = "list" => req'[p] = req[p]
  BY Zenon, <1>1
<1>3. UNCHANGED <<sites, unused, cache, lister, owed>>
  BY Zenon DEF siteVars
<1>4. CacheFresh'
  BY Zenon, <1>2, <1>3 DEF CacheFresh, ListInv
<1> QED
  BY Zenon, <1>1, <1>2, <1>3, <1>4 DEF ListInv

LEMMA ListBeginsKeeps ==
  ASSUME ListInv, NEW r \in Requests, NEW s \in Sites, NEW w \in Visitors, ListBegins(r, s, w)
  PROVE  ListInv'
<1> DEFINE q == [pc |-> "list", site |-> s, who |-> w, list |-> sites]
<1>1. q \in Handling /\ q.pc = "list" /\ q.list = sites
  BY DEF Handling, Listing, ListInv
<1>2. req' = [req EXCEPT ![r] = q] /\ lister = Nobody /\ lister' = r /\ cache = NoList
  BY Zenon DEF ListBegins
<1> HIDE DEF q
<1>3. /\ req' \in [Requests -> Handling] /\ req'[r] = q
      /\ \A p \in Requests : p # r => req'[p] = req[p]
  BY Zenon, <1>1, <1>2, OneHandler DEF ListInv
<1>4. \A p \in Requests : req[p].pc # "list"
  BY Zenon, <1>2, AnalyticsAssumption DEF ListInv, Nobody
<1>5. \A p \in Requests : req'[p].pc = "list" <=> p = r
  BY Zenon, <1>1, <1>3, <1>4
<1>6. UNCHANGED <<sites, unused, cache, owed>>
  BY Zenon DEF ListBegins
<1>7. CacheFresh'
  BY Zenon, <1>1, <1>2, <1>3, <1>5, <1>6 DEF CacheFresh
<1>8. \A p \in Requests : req'[p].pc = "list" <=> lister' = p
  BY Zenon, <1>2, <1>5
<1> QED
  BY Zenon, <1>2, <1>3, <1>6, <1>7, <1>8 DEF ListInv

(* The request that holds the lock gives it back: with the list it read in *)
(* the cache, or with the cache as it was.                                 *)
LEMMA LockBackKeeps ==
  ASSUME ListInv, NEW r \in Requests, req[r].pc = "list", NEW q \in Handling, q.pc # "list",
         req' = [req EXCEPT ![r] = q], lister' = Nobody,
         cache' \in {cache, req[r].list}, UNCHANGED <<sites, unused, owed>>
  PROVE  ListInv'
<1>1. /\ req' \in [Requests -> Handling] /\ req'[r] = q
      /\ \A p \in Requests : p # r => req'[p] = req[p]
  BY Zenon, OneHandler DEF ListInv
<1>2. \A p \in Requests : req'[p].pc # "list"
  BY Zenon, <1>1 DEF ListInv
<1>3. \A p \in Requests : req'[p].pc = "list" <=> lister' = p
  BY Zenon, <1>2, AnalyticsAssumption DEF Nobody
<1>4. CacheFresh'
  BY Zenon, <1>2 DEF CacheFresh, ListInv
<1>5. req[r].list \subseteq Sites
  <2>1. req[r] \in Listing
    BY Zenon, Doing DEF ListInv
  <2> QED
    BY <2>1 DEF Listing
<1>6. cache' = NoList \/ cache' \subseteq Sites
  BY Zenon, <1>5 DEF ListInv
<1> QED
  BY Zenon, <1>1, <1>3, <1>4, <1>6 DEF ListInv

(* The server starts again. *)
LEMMA RestartKeepsList ==
  ASSUME ListInv, Restart
  PROVE  ListInv'
<1>1. /\ cache' = NoList /\ lister' = Nobody /\ owed' = 0 /\ UNCHANGED <<sites, unused>>
      /\ req' = [p \in Requests |-> Idle]
  BY Zenon DEF Restart
<1>2. Idle \in Handling /\ Idle.pc # "list"
  BY DEF Handling, Idle
<1>3. req' \in [Requests -> Handling] /\ \A p \in Requests : req'[p] = Idle
  BY Zenon, <1>1, <1>2
<1>4. \A p \in Requests : req'[p].pc # "list"
  BY Zenon, <1>2, <1>3
<1>5. \A p \in Requests : req'[p].pc = "list" <=> lister' = p
  BY Zenon, <1>1, <1>4, AnalyticsAssumption DEF Nobody
<1>6. owed' \in 0..MaxCalls
  BY <1>1, Numbers
<1>7. CacheFresh'
  BY Zenon, <1>1, <1>4 DEF CacheFresh
<1> QED
  BY Zenon, <1>1, <1>3, <1>5, <1>6, <1>7 DEF ListInv

-----------------------------------------------------------------------------
(* Room for page views *)

LEMMA ActiveFinite ==
  /\ IsFiniteSet(Active) /\ Cardinality(Active) \in Nat
  /\ IsFiniteSet(Active') /\ Cardinality(Active') \in Nat
<1>1. Active \subseteq Requests /\ Active' \subseteq Requests
  BY Zenon DEF Active
<1> QED
  BY Zenon, <1>1, AnalyticsAssumption, FS_Subset, FS_CardinalityType

(* Nothing is begun, and nothing recorded. *)
LEMMA RoomLess ==
  ASSUME RoomInv, seen' \subseteq seen, Active' \subseteq Active
  PROVE  RoomInv'
<1>1. IsFiniteSet(seen') /\ Cardinality(seen') <= Cardinality(seen)
  BY Zenon, FS_Subset DEF RoomInv
<1>2. Cardinality(Active') <= Cardinality(Active)
  BY Zenon, ActiveFinite, FS_Subset
<1>3. Cardinality(seen) \in Nat /\ Cardinality(seen') \in Nat
  BY Zenon, <1>1, FS_CardinalityType DEF RoomInv
<1>4. Cardinality(Active) \in Nat /\ Cardinality(Active') \in Nat /\ MaxViews \in Nat
  BY Zenon, ActiveFinite, Numbers
<1>5. Cardinality(seen) + Cardinality(Active) <= MaxViews
  BY Zenon DEF RoomInv
<1>6. Cardinality(seen') + Cardinality(Active') <= MaxViews
  BY <1>1, <1>2, <1>3, <1>4, <1>5
<1> QED
  BY Zenon, <1>1, <1>6 DEF RoomInv

(* A handler begins while there is room. *)
LEMMA RoomBegins ==
  ASSUME RoomInv, NEW r \in Requests, req[r] = Idle, Views < MaxViews, UNCHANGED seen,
         \A p \in Requests : p # r => req'[p] = req[p]
  PROVE  RoomInv'
<1>1. Active' \subseteq Active \cup {r} /\ r \notin Active
  BY Zenon DEF Active
<1>2. IsFiniteSet(Active \cup {r}) /\ Cardinality(Active \cup {r}) = Cardinality(Active) + 1
  BY Zenon, <1>1, ActiveFinite, FS_AddElement
<1>3. Cardinality(Active') <= Cardinality(Active) + 1
  BY Zenon, <1>1, <1>2, FS_Subset
<1>4. Cardinality(seen) + Cardinality(Active) < MaxViews
  BY Zenon DEF Views, Active
<1>5. Cardinality(seen) \in Nat /\ Cardinality(Active) \in Nat /\ Cardinality(Active') \in Nat /\ MaxViews \in Nat
  BY Zenon, ActiveFinite, Numbers, FS_CardinalityType DEF RoomInv
<1>6. Cardinality(seen) + Cardinality(Active') <= MaxViews
  BY <1>3, <1>4, <1>5
<1> QED
  BY Zenon, <1>6 DEF RoomInv

(* A handler ends with its page view recorded. *)
LEMMA RoomRecords ==
  ASSUME RoomInv, NEW r \in Requests, req[r] # Idle, req'[r] = Idle, NEW x, seen' = seen \cup {x},
         \A p \in Requests : p # r => req'[p] = req[p]
  PROVE  RoomInv'
<1>1. Active' = Active \ {r} /\ r \in Active
  BY Zenon DEF Active
<1>2. Cardinality(Active') = Cardinality(Active) - 1
  BY Zenon, <1>1, ActiveFinite, FS_RemoveElement
<1>3. IsFiniteSet(seen') /\ (Cardinality(seen') = Cardinality(seen) \/ Cardinality(seen') = Cardinality(seen) + 1)
  BY Zenon, FS_AddElement DEF RoomInv
<1>4. /\ Cardinality(seen) \in Nat /\ Cardinality(Active) \in Nat /\ MaxViews \in Nat
      /\ Cardinality(seen) + Cardinality(Active) <= MaxViews
  BY Zenon, ActiveFinite, Numbers, FS_CardinalityType DEF RoomInv
<1>5. Cardinality(seen') + Cardinality(Active') <= MaxViews
  BY <1>2, <1>3, <1>4
<1> QED
  BY Zenon, <1>3, <1>5 DEF RoomInv

(* Handlers that go on, end or begin in this tick. *)
LEMMA YoungKept ==
  ASSUME Young, UNCHANGED <<now, ran>>,
         \A p \in Requests : req'[p].pc = "record" => req'[p] = req[p] \/ req'[p].ts = now
  PROVE  Young'
<1>1. now \in Nat
  BY Numbers DEF Young, Ticks
<1>2. now <= now /\ now <= now + 1
  BY <1>1
<1> QED
  BY Zenon, <1>2 DEF Young

-----------------------------------------------------------------------------
(* RecordPageview *)

(* The next id is above every other. *)
LEMMA NextId ==
  ASSUME RowInv
  PROVE  /\ Max({x.n : x \in seen} \cup {0}) + 1 \in Nat
         /\ \A y \in seen : y.n < Max({x.n : x \in seen} \cup {0}) + 1
<1> DEFINE T == {x.n : x \in seen} \cup {0}
<1>1. PICK b \in Nat : \A x \in seen : x.n <= b
  BY Zenon DEF RowInv
<1>2. T \in SUBSET Nat /\ T # {}
  <2>1. \A x \in seen : x.n \in Nat
    BY Zenon DEF RowInv
  <2> QED
    BY <2>1
<1>3. \A t \in T : t <= b
  BY <1>1
<1>4. \E m \in T : \A t \in T : t <= m
  BY Zenon, <1>1, <1>2, <1>3, Greatest
<1>5. \A x \in seen : x.n \in T
  BY Zenon
<1> HIDE DEF T
<1>6. \E m \in T : \A t \in T : m >= t
  BY <1>2, <1>4
<1>7. Max(T) \in T /\ \A t \in T : Max(T) >= t
  BY Zenon, <1>6 DEF Max
<1>8. PICK m : m = Max(T)
  BY Zenon
<1>9. m \in Nat /\ \A t \in T : t \in Nat /\ m >= t
  BY Zenon, <1>2, <1>7, <1>8
<1>10. m + 1 \in Nat /\ \A t \in T : t < m + 1
  BY <1>9
<1> QED
  BY Zenon, <1>5, <1>8, <1>10 DEF T

(* The latest of some visits is one of them. *)
LEMMA LatestIs ==
  ASSUME RowInv, now \in Nat, NEW S, S \subseteq DOMAIN visits, S # {}
  PROVE  LatestOf(S) \in S
<1> DEFINE T == {visits[i].last : i \in S}
<1>1. \A i \in S : visits[i].last \in Nat /\ visits[i].last <= now
  BY Zenon DEF RowInv, VisitOK, Visit
<1>2. T \in SUBSET Nat /\ T # {} /\ \A t \in T : t <= now
  BY Zenon, <1>1
<1>3. PICK m \in T : \A t \in T : t <= m
  BY Zenon, <1>2, Greatest
<1>4. PICK i \in S : m = visits[i].last
  BY Zenon, <1>3
<1>5. \A j \in S : visits[j].last <= visits[i].last
  BY Zenon, <1>3, <1>4
<1> QED
  BY Zenon, <1>4, <1>5 DEF LatestOf

(* The page views of a visit after one more. *)
LEMMA ViewsGrow ==
  ASSUME IsFiniteSet(seen), NEW x, seen' = seen \cup {x}, NEW i
  PROVE  /\ Cardinality(ViewsOf(i)) \in Nat /\ Cardinality(ViewsOf(i)') \in Nat
         /\ Cardinality(ViewsOf(i)) <= Cardinality(ViewsOf(i)')
         /\ x \notin seen /\ x.visit = i => Cardinality(ViewsOf(i)') = Cardinality(ViewsOf(i)) + 1
<1>1. ViewsOf(i) \subseteq seen /\ ViewsOf(i)' \subseteq seen \cup {x} /\ ViewsOf(i) \subseteq ViewsOf(i)'
  BY Zenon DEF ViewsOf
<1>2. IsFiniteSet(seen \cup {x})
  BY Zenon, FS_AddElement
<1>3. IsFiniteSet(ViewsOf(i)) /\ IsFiniteSet(ViewsOf(i)')
  BY Zenon, <1>1, <1>2, FS_Subset
<1>4. Cardinality(ViewsOf(i)) <= Cardinality(ViewsOf(i)')
  BY Zenon, <1>1, <1>3, FS_Subset
<1>5. ASSUME x \notin seen, x.visit = i
      PROVE  Cardinality(ViewsOf(i)') = Cardinality(ViewsOf(i)) + 1
  <2>1. ViewsOf(i)' = ViewsOf(i) \cup {x} /\ x \notin ViewsOf(i)
    BY Zenon, <1>5 DEF ViewsOf
  <2> QED
    BY Zenon, <1>3, <2>1, FS_AddElement
<1> QED
  BY Zenon, <1>3, <1>4, <1>5, FS_CardinalityType

(* No row goes. *)
RowsStay ==
  \A k \in DOMAIN visits : k \in DOMAIN visits' /\
    \A j \in DOMAIN visits[k].rows : j \in DOMAIN visits'[k].rows /\ visits'[k].rows[j] = visits[k].rows[j]

(* A page view that opens a visit. *)
LEMMA OpenedKeeps ==
  ASSUME RowInv, IsFiniteSet(seen), now \in Nat, UNCHANGED <<now, sites>>,
         NEW q \in Recording, q.ts <= now, q.site \in sites,
         NEW n \in Nat, \A y \in seen : y.n < n,
         NEW x, x.n = n, x.visit = n, x.site = q.site,
         visits' = With(visits, n, Opened(q)), seen' = seen \cup {x}
  PROVE  RowInv' /\ RowsStay
<1>1. VisitOK(Opened(q), now) /\ Opened(q).views = 1 /\ Opened(q).site = q.site
  BY Zenon, OpenedOK
<1>2. Opened(q) \in Visit
  BY Zenon, <1>1 DEF VisitOK
<1>3. \A i \in DOMAIN visits : i # n
  <2> SUFFICES ASSUME n \in DOMAIN visits
               PROVE  FALSE
    BY Zenon
  <2>1. PICK y \in seen : y.visit = n
    BY Zenon DEF RowInv
  <2>2. y.n \in Nat /\ n <= y.n /\ y.n < n
    BY Zenon, <2>1 DEF RowInv
  <2> QED
    BY <2>2
<1>4. /\ DOMAIN visits' = DOMAIN visits \cup {n} /\ visits'[n] = Opened(q)
      /\ \A i \in DOMAIN visits : visits'[i] = visits[i]
  BY Zenon, <1>3 DEF With
<1>5. visits' \in [DOMAIN visits' -> Visit]
  <2>1. visits' \in [DOMAIN visits \cup {n} -> Visit]
    BY Zenon, <1>2, WithTyped DEF RowInv
  <2> QED
    BY Zenon, <1>4, <2>1
<1>6. \A y \in seen : y.n \in Nat /\ y.visit \in Nat /\ y.visit <= y.n
  BY Zenon DEF RowInv
<1>7. x \notin seen
  <2> SUFFICES ASSUME x \in seen
               PROVE  FALSE
    BY Zenon
  <2>1. n < n
    BY Zenon
  <2> QED
    BY <2>1
<1>8. \A y \in seen : y.visit # n
  BY <1>6
<1>9. ASSUME NEW i \in DOMAIN visits'
      PROVE  /\ VisitOK(visits'[i], now) /\ visits'[i].site \in sites
             /\ visits'[i].views <= Cardinality(ViewsOf(i)')
             /\ \E y \in seen' : y.visit = i
  <2>1. CASE i = n
    <3>1. /\ Cardinality(ViewsOf(n)) \in Nat
          /\ Cardinality(ViewsOf(n)') = Cardinality(ViewsOf(n)) + 1
      BY Zenon, <1>7, ViewsGrow
    <3>2. 1 <= Cardinality(ViewsOf(n)')
      BY <3>1
    <3> QED
      BY Zenon, <1>1, <1>4, <2>1, <3>2
  <2>2. CASE i # n
    <3>1. i \in DOMAIN visits /\ visits'[i] = visits[i]
      BY Zenon, <1>4, <2>2
    <3>2. /\ VisitOK(visits[i], now) /\ visits[i].site \in sites
          /\ visits[i].views <= Cardinality(ViewsOf(i)) /\ \E y \in seen : y.visit = i
      BY Zenon, <3>1 DEF RowInv
    <3>3. visits[i].views \in Nat
      BY Zenon, <3>2 DEF VisitOK, Visit
    <3>4. /\ Cardinality(ViewsOf(i)) \in Nat /\ Cardinality(ViewsOf(i)') \in Nat
          /\ Cardinality(ViewsOf(i)) <= Cardinality(ViewsOf(i)')
      BY Zenon, ViewsGrow
    <3>5. visits[i].views <= Cardinality(ViewsOf(i)')
      BY <3>2, <3>3, <3>4
    <3> QED
      BY Zenon, <3>1, <3>2, <3>5
  <2> QED
    BY Zenon, <2>1, <2>2
<1>10. \A y \in seen' :
         /\ y.n \in Nat /\ y.visit \in Nat /\ y.visit <= y.n
         /\ y.visit \in DOMAIN visits' => visits'[y.visit].site = y.site
  <2>1. n <= n
    OBVIOUS
  <2>2. \A y \in seen : y.visit \in DOMAIN visits => visits[y.visit].site = y.site
    BY Zenon DEF RowInv
  <2>3. visits'[n].site = x.site
    BY Zenon, <1>1, <1>4
  <2>4. \A y \in seen : y.visit \in DOMAIN visits' => visits'[y.visit].site = y.site
    BY Zenon, <1>4, <1>8, <2>2
  <2>5. \A y \in seen' : y \in seen \/ y = x
    BY Zenon
  <2> QED
    BY Zenon, <1>6, <2>1, <2>3, <2>4, <2>5
<1>11. \A y \in seen' : y.n <= n
  BY <1>6
<1>12. RowsStay
  BY Zenon, <1>4 DEF RowsStay
<1> QED
  BY Zenon, <1>4, <1>5, <1>9, <1>10, <1>11, <1>12 DEF RowInv

(* A page view of a visit that is open. *)
LEMMA ContinuedKeeps ==
  ASSUME RowInv, IsFiniteSet(seen), now \in Nat, UNCHANGED <<now, sites>>,
         NEW q \in Recording, q.ts <= now, now <= q.ts + 1,
         NEW n \in Nat, \A y \in seen : y.n < n,
         NEW i \in DOMAIN visits, visits[i].hash = Hash(q),
         NEW x, x.n = n, x.visit = i, x.site = q.site,
         visits' = [visits EXCEPT ![i] = Continued(@, q.ts)], seen' = seen \cup {x}
  PROVE  RowInv' /\ RowsStay
<1> DEFINE c == Continued(visits[i], q.ts)
<1>1. q.ts \in Nat /\ q.site \in Sites
  BY Zenon DEF Recording
<1>2. Hash(q)[1] = q.site /\ Hash(q)[3] = Day(q.ts)
  BY DEF Hash
<1>3. VisitOK(visits[i], now)
  BY Zenon DEF RowInv
<1>4. visits[i].site = q.site /\ Day(q.ts) = visits[i].hash[3]
  BY Zenon, <1>2, <1>3 DEF VisitOK
<1>5. /\ VisitOK(c, now) /\ c.views = visits[i].views + 1 /\ c.site = visits[i].site
      /\ \A j \in DOMAIN visits[i].rows : j \in DOMAIN c.rows /\ c.rows[j] = visits[i].rows[j]
  <2>1. VisitOK(c, now) /\ OneMore(c, visits[i])
    BY Zenon, <1>1, <1>3, <1>4, ContinuedOK
  <2> QED
    BY Zenon, <2>1 DEF OneMore
<1> HIDE DEF c
<1>6. c \in Visit
  BY Zenon, <1>5 DEF VisitOK
<1>7. /\ DOMAIN visits' = DOMAIN visits /\ visits'[i] = c
      /\ \A k \in DOMAIN visits : k # i => visits'[k] = visits[k]
      /\ visits' \in [DOMAIN visits' -> Visit]
  <2>1. visits' = [visits EXCEPT ![i] = c]
    BY Zenon DEF c
  <2>2. visits \in [DOMAIN visits -> Visit]
    BY Zenon DEF RowInv
  <2>3. visits' \in [DOMAIN visits -> Visit]
    BY Zenon, <1>6, <2>1, <2>2
  <2>4. DOMAIN visits' = DOMAIN visits
    BY Zenon, <2>3
  <2>5. visits'[i] = c /\ \A k \in DOMAIN visits : k # i => visits'[k] = visits[k]
    BY Zenon, <2>1, <2>2
  <2> QED
    BY Zenon, <2>3, <2>4, <2>5
<1>8. \A y \in seen : y.n \in Nat /\ y.visit \in Nat /\ y.visit <= y.n
  BY Zenon DEF RowInv
<1>9. x \notin seen
  <2> SUFFICES ASSUME x \in seen
               PROVE  FALSE
    BY Zenon
  <2>1. n < n
    BY Zenon
  <2> QED
    BY <2>1
<1>10. i \in Nat /\ i <= n
  <2>1. PICK y \in seen : y.visit = i
    BY Zenon DEF RowInv
  <2>2. y.n \in Nat /\ i \in Nat /\ i <= y.n /\ y.n < n
    BY Zenon, <1>8, <2>1
  <2> QED
    BY <2>2
<1>11. \A k \in DOMAIN visits : visits'[k].site = visits[k].site
  BY Zenon, <1>5, <1>7
<1>12. ASSUME NEW k \in DOMAIN visits'
       PROVE  /\ VisitOK(visits'[k], now) /\ visits'[k].site \in sites
              /\ visits'[k].views <= Cardinality(ViewsOf(k)')
              /\ \E y \in seen' : y.visit = k
  <2>1. k \in DOMAIN visits
    BY Zenon, <1>7
  <2>2. /\ VisitOK(visits[k], now) /\ visits[k].site \in sites
        /\ visits[k].views <= Cardinality(ViewsOf(k)) /\ \E y \in seen : y.visit = k
    BY Zenon, <2>1 DEF RowInv
  <2>3. visits[k].views \in Nat
    BY Zenon, <2>2 DEF VisitOK, Visit
  <2>4. /\ Cardinality(ViewsOf(k)) \in Nat /\ Cardinality(ViewsOf(k)') \in Nat
        /\ Cardinality(ViewsOf(k)) <= Cardinality(ViewsOf(k)')
        /\ k = i => Cardinality(ViewsOf(k)') = Cardinality(ViewsOf(k)) + 1
    BY Zenon, <1>9, ViewsGrow
  <2>5. VisitOK(visits'[k], now) /\ visits'[k].site \in sites
    BY Zenon, <1>5, <1>7, <1>11, <2>1, <2>2
  <2>6. CASE k = i
    <3>1. visits'[k].views = visits[k].views + 1
      BY Zenon, <1>5, <1>7, <2>6
    <3>2. visits'[k].views <= Cardinality(ViewsOf(k)')
      BY <2>2, <2>3, <2>4, <2>6, <3>1
    <3> QED
      BY Zenon, <2>2, <2>5, <3>2
  <2>7. CASE k # i
    <3>1. visits'[k] = visits[k]
      BY Zenon, <1>7, <2>1, <2>7
    <3>2. visits[k].views <= Cardinality(ViewsOf(k)')
      BY <2>2, <2>3, <2>4
    <3> QED
      BY Zenon, <2>2, <2>5, <3>1, <3>2
  <2> QED
    BY Zenon, <2>6, <2>7
<1>13. \A y \in seen' :
         /\ y.n \in Nat /\ y.visit \in Nat /\ y.visit <= y.n
         /\ y.visit \in DOMAIN visits' => visits'[y.visit].site = y.site
  <2>1. \A y \in seen : y.visit \in DOMAIN visits' => visits'[y.visit].site = y.site
    BY Zenon, <1>7, <1>11 DEF RowInv
  <2>2. visits'[i].site = x.site
    BY Zenon, <1>4, <1>11
  <2>3. \A y \in seen' : y \in seen \/ y = x
    BY Zenon
  <2> QED
    BY Zenon, <1>8, <1>10, <2>1, <2>2, <2>3
<1>14. \A y \in seen' : y.n <= n
  BY <1>8
<1>15. RowInv'
  BY Zenon, <1>7, <1>12, <1>13, <1>14 DEF RowInv
<1>16. ASSUME NEW k \in DOMAIN visits, NEW j \in DOMAIN visits[k].rows
       PROVE  j \in DOMAIN visits'[k].rows /\ visits'[k].rows[j] = visits[k].rows[j]
  <2>1. CASE k = i
    BY Zenon, <1>5, <1>7, <2>1
  <2>2. CASE k # i
    BY Zenon, <1>7, <2>2
  <2> QED
    BY Zenon, <2>1, <2>2
<1>17. DOMAIN visits' = DOMAIN visits
  BY Zenon, <1>7
<1> QED
  BY Zenon, <1>15, <1>16, <1>17 DEF RowsStay

(* Rows and page views that go, with all of a visit or none of it. *)
LEMMA FewerKeeps ==
  ASSUME RowInv, UNCHANGED now, seen' \subseteq seen,
         DOMAIN visits' \subseteq DOMAIN visits, visits' \in [DOMAIN visits' -> Visit],
         \A i \in DOMAIN visits' :
           /\ VisitOK(visits'[i], now) /\ visits'[i].site = visits[i].site /\ visits'[i].views = visits[i].views
           /\ visits[i].site \in sites'
           /\ \A x \in seen : x.visit = i => x \in seen'
  PROVE  RowInv'
<1>1. ASSUME NEW i \in DOMAIN visits'
      PROVE  /\ VisitOK(visits'[i], now) /\ visits'[i].site \in sites'
             /\ visits'[i].views <= Cardinality(ViewsOf(i)')
             /\ \E x \in seen' : x.visit = i
  <2>1. i \in DOMAIN visits /\ \A x \in seen : x.visit = i => x \in seen'
    BY Zenon
  <2>2. ViewsOf(i)' = ViewsOf(i)
    BY Zenon, <2>1 DEF ViewsOf
  <2>3. visits[i].views <= Cardinality(ViewsOf(i)) /\ \E x \in seen : x.visit = i
    BY Zenon, <2>1 DEF RowInv
  <2> QED
    BY Zenon, <2>1, <2>2, <2>3
<1>2. \A x \in seen' :
        /\ x.n \in Nat /\ x.visit \in Nat /\ x.visit <= x.n
        /\ x.visit \in DOMAIN visits' => visits'[x.visit].site = x.site
  BY Zenon DEF RowInv
<1>3. \E b \in Nat : \A x \in seen' : x.n <= b
  BY Zenon DEF RowInv
<1> QED
  BY Zenon, <1>1, <1>2, <1>3 DEF RowInv

(* Nothing happens to the rows. *)
LEMMA SameRows ==
  ASSUME RowInv, UNCHANGED <<now, rowVars>>, sites \subseteq sites'
  PROVE  RowInv'
<1>1. UNCHANGED <<visits, seen, now>>
  BY Zenon DEF rowVars
<1>2. visits \in [DOMAIN visits -> Visit] /\ \A i \in DOMAIN visits : VisitOK(visits[i], now) /\ visits[i].site \in sites
  BY Zenon DEF RowInv
<1> QED
  BY Zenon, <1>1, <1>2, FewerKeeps

(* Time passes. *)
LEMMA TickKeepsRows ==
  ASSUME RowInv, now \in Nat, now' = now + 1, UNCHANGED <<sites, rowVars>>
  PROVE  RowInv'
<1>1. now' \in Nat /\ now <= now'
  OBVIOUS
<1>2. UNCHANGED <<visits, seen, sites>>
  BY Zenon DEF rowVars
<1>3. \A i \in DOMAIN visits : VisitOK(visits[i], now')
  BY Zenon, <1>1, LaterOK DEF RowInv
<1>4. \A i : ViewsOf(i)' = ViewsOf(i)
  BY Zenon, <1>2 DEF ViewsOf
<1> QED
  BY Zenon, <1>2, <1>3, <1>4 DEF RowInv

(* A site goes, and with it everything that is its own. *)
LEMMA CascadeKeeps ==
  ASSUME RowInv, NEW s, Cascade(s), sites' = sites \ {s}, UNCHANGED now
  PROVE  RowInv' /\ RawDaysStep
<1> DEFINE D == {i \in DOMAIN visits : visits[i].site # s}
<1>1. visits' = Restrict(visits, D) /\ seen' = {x \in seen : x.site # s}
  BY Zenon DEF Cascade
<1>2. DOMAIN visits' = D /\ \A i \in D : visits'[i] = visits[i]
  BY Zenon, <1>1, RestrictIs
<1>3. \A i \in D : visits[i] \in Visit
  BY Zenon DEF RowInv
<1>4. visits' \in [D -> Visit]
  BY Zenon, <1>1, <1>3, RestrictTyped
<1>5. ASSUME NEW i \in D
      PROVE  /\ VisitOK(visits'[i], now) /\ visits'[i].site = visits[i].site /\ visits'[i].views = visits[i].views
             /\ visits[i].site \in sites'
             /\ \A x \in seen : x.visit = i => x \in seen'
  <2>1. VisitOK(visits[i], now) /\ visits[i].site \in sites /\ visits[i].site # s
    BY Zenon DEF RowInv
  <2>2. \A x \in seen : x.visit = i => x.site = visits[i].site
    BY Zenon DEF RowInv
  <2> QED
    BY Zenon, <1>1, <1>2, <2>1, <2>2
<1>6. seen' \subseteq seen /\ D \subseteq DOMAIN visits
  BY Zenon, <1>1
<1>7. RawDaysStep
  BY Zenon, <1>2 DEF RawDaysStep
<1> HIDE DEF D
<1> QED
  BY Zenon, <1>2, <1>4, <1>5, <1>6, <1>7, FewerKeeps

-----------------------------------------------------------------------------
(* Purge *)

LEMMA RetentionNat == Retention * DayLen \in Nat
BY Numbers

(* Whatever is older than the purge looks is of a day before those. *)
LEMMA BeforeRaw ==
  ASSUME PurgeInv, purge # Idle, now \in Nat, NEW t \in Nat, t < purge.before
  PROVE  ~ (Day(t) >= RawFrom(now))
<1> DEFINE m == Retention * DayLen
<1>1. m \in Nat /\ purge.before \in Int /\ purge.before <= now - m
  BY Zenon, RetentionNat DEF PurgeInv
<1>2. RawFrom(now) = Day(now - m) + 1
  BY Zenon DEF RawFrom
<1> HIDE DEF m
<1>3. now - m \in Int /\ t \in Int /\ t <= now - m
  BY <1>1
<1>4. Day(t) \in Int /\ Day(now - m) \in Int /\ Day(t) <= Day(now - m)
  BY Zenon, <1>3, DayGrows
<1> QED
  BY <1>2, <1>4

LEMMA RowTicks ==
  ASSUME NEW t, NEW v, VisitOK(v, t)
  PROVE  v.last \in Nat /\ \A j \in DOMAIN v.rows : v.rows[j] \in Nat
<1>1. v.last \in Nat /\ v.rows \in RowSets
  BY Zenon DEF VisitOK, Visit
<1>2. PICK D \in SUBSET Nat : v.rows \in [D -> Nat]
  BY Zenon, <1>1 DEF RowSets
<1> QED
  BY Zenon, <1>1, <1>2

LEMMA PurgeViewsKeeps ==
  ASSUME RowInv, PurgeInv, now \in Nat, PurgeViews
  PROVE  RowInv' /\ RawDaysStep
<1> DEFINE D(B, i) == {j \in DOMAIN visits[i].rows : <<i, j>> \notin B}
<1>1. PICK B \in Batches(StaleViews(purge.before)) :
        visits' = [i \in DOMAIN visits |-> [visits[i] EXCEPT !.rows = Restrict(@, {j \in DOMAIN @ : <<i, j>> \notin B})]]
  BY Zenon DEF PurgeViews
<1>2. B \subseteq StaleViews(purge.before)
  BY Zenon DEF Batches
<1>3. UNCHANGED <<now, sites, seen>> /\ purge # Idle
  BY Zenon, IdleIs DEF PurgeViews, siteVars
<1>4. DOMAIN visits' = DOMAIN visits
  BY Zenon, <1>1
<1>5. \A i \in DOMAIN visits : visits'[i] = Thinned(visits[i], D(B, i))
  BY Zenon, <1>1 DEF Thinned
<1>6. \A i \in DOMAIN visits : VisitOK(visits[i], now) /\ visits[i].site \in sites
  BY Zenon DEF RowInv
<1>7. \A i : D(B, i) \subseteq DOMAIN visits[i].rows
  BY Zenon
<1>8. ASSUME NEW i \in DOMAIN visits
      PROVE  /\ VisitOK(visits'[i], now) /\ visits'[i].site = visits[i].site /\ visits'[i].views = visits[i].views
             /\ DOMAIN visits'[i].rows = D(B, i) /\ \A j \in D(B, i) : visits'[i].rows[j] = visits[i].rows[j]
  <2>1. VisitOK(visits'[i], now) /\ OnlyRows(visits'[i], visits[i], D(B, i))
    BY Zenon, <1>5, <1>6, <1>7, FewerRowsOK
  <2> QED
    BY Zenon, <2>1 DEF OnlyRows
<1>9. RowInv'
  <2>1. \A i \in DOMAIN visits' : visits'[i] \in Visit
    BY Zenon, <1>4, <1>8 DEF VisitOK
  <2>2. visits' \in [DOMAIN visits' -> Visit]
    BY Zenon, <1>1, <1>4, <2>1
  <2> QED
    BY Zenon, <1>3, <1>4, <1>6, <1>8, <2>2, FewerKeeps
<1>10. ASSUME NEW i \in DOMAIN visits, NEW j \in DOMAIN visits[i].rows, Day(visits[i].rows[j]) >= RawFrom(now)
       PROVE  j \in D(B, i)
  <2> SUFFICES ASSUME <<i, j>> \in B
               PROVE  FALSE
    BY Zenon
  <2>1. <<i, j>> \in StaleViews(purge.before)
    BY Zenon, <1>2
  <2>2. visits[i].rows[j] < purge.before
    BY <2>1 DEF StaleViews
  <2>3. visits[i].rows[j] \in Nat
    BY Zenon, <1>6, RowTicks
  <2> QED
    BY Zenon, <1>3, <1>10, <2>2, <2>3, BeforeRaw
<1> HIDE DEF D
<1> QED
  BY Zenon, <1>4, <1>8, <1>9, <1>10 DEF RawDaysStep

LEMMA PurgeVisitsKeeps ==
  ASSUME RowInv, PurgeInv, now \in Nat, PurgeVisits
  PROVE  RowInv' /\ RawDaysStep
<1>1. PICK B \in Batches(StaleVisits(purge.before)) : visits' = Restrict(visits, DOMAIN visits \ B)
  BY Zenon DEF PurgeVisits
<1>2. B \subseteq StaleVisits(purge.before)
  BY Zenon DEF Batches
<1>3. UNCHANGED <<now, sites, seen>> /\ purge # Idle
  BY Zenon, IdleIs DEF PurgeVisits, siteVars
<1>4. DOMAIN visits' = DOMAIN visits \ B /\ \A i \in DOMAIN visits \ B : visits'[i] = visits[i]
  BY Zenon, <1>1, RestrictIs
<1>5. \A i \in DOMAIN visits : visits[i] \in Visit /\ VisitOK(visits[i], now) /\ visits[i].site \in sites
  BY Zenon DEF RowInv
<1>6. RowInv'
  <2>1. visits' \in [DOMAIN visits' -> Visit]
    BY Zenon, <1>1, <1>4, <1>5, RestrictTyped
  <2> QED
    BY Zenon, <1>3, <1>4, <1>5, <2>1, FewerKeeps
<1>7. ASSUME NEW i \in DOMAIN visits, NEW j \in DOMAIN visits[i].rows, Day(visits[i].rows[j]) >= RawFrom(now)
      PROVE  i \notin B
  <2> SUFFICES ASSUME i \in B
               PROVE  FALSE
    BY Zenon
  <2>1. visits[i].last < purge.before
    BY Zenon, <1>2 DEF StaleVisits
  <2>2. visits[i].last \in Nat
    BY Zenon, <1>5, RowTicks
  <2>3. Day(visits[i].last) = Day(visits[i].rows[j])
    BY Zenon, <1>5 DEF VisitOK
  <2> QED
    BY Zenon, <1>3, <1>7, <2>1, <2>2, <2>3, BeforeRaw
<1> QED
  BY Zenon, <1>4, <1>6, <1>7 DEF RawDaysStep

(* A purge at another point. *)
PurgeAt(r, p, n) == [r EXCEPT !.pc = p, !.n = n]

(* The purge goes on. *)
LEMMA PurgeSteps ==
  ASSUME PurgeInv, now \in Nat, UNCHANGED now, PurgeBegins \/ PurgeViews \/ PurgeVisits \/ PurgeFails
  PROVE  PurgeInv'
<1>1. CASE PurgeBegins
  <2> DEFINE before == now - Retention * DayLen
  <2>1. before \in Int /\ before <= now - Retention * DayLen
    BY RetentionNat
  <2>2. purge' = [pc |-> "views", before |-> before, n |-> 0]
    BY Zenon, <1>1 DEF PurgeBegins
  <2> HIDE DEF before
  <2>3. "before" \in DOMAIN purge' /\ purge'.before = before
    BY Zenon, <2>2
  <2> QED
    BY Zenon, <2>1, <2>3 DEF PurgeInv
<1>2. ASSUME NEW p, NEW n, purge # Idle, purge' = PurgeAt(purge, p, n)
      PROVE  PurgeInv'
  <2>1. /\ "before" \in DOMAIN purge
        /\ purge.before \in Int /\ purge.before <= now - Retention * DayLen
    BY Zenon, <1>2 DEF PurgeInv
  <2>2. "before" \in DOMAIN purge' /\ purge'.before = purge.before
    <3>1. "before" \in DOMAIN PurgeAt(purge, p, n) /\ PurgeAt(purge, p, n).before = purge.before
      BY Zenon, <2>1 DEF PurgeAt
    <3> QED
      BY Zenon, <1>2, <3>1
  <2> QED
    BY Zenon, <2>1, <2>2 DEF PurgeInv
<1>3. CASE PurgeViews
  <2>1. purge # Idle
    BY Zenon, <1>3, IdleIs DEF PurgeViews
  <2>2. \E n : purge' = PurgeAt(purge, "visits", n)
    BY Zenon, <1>3 DEF PurgeViews, PurgeAt
  <2> QED
    BY Zenon, <1>2, <2>1, <2>2
<1>4. CASE PurgeVisits
  <2>1. purge # Idle
    BY Zenon, <1>4, IdleIs DEF PurgeVisits
  <2>2. purge' = Idle \/ purge' = PurgeAt(purge, "views", 0)
    BY Zenon, <1>4 DEF PurgeVisits, PurgeAt
  <2>3. CASE purge' = Idle
    BY Zenon, <2>3 DEF PurgeInv, Idle
  <2> QED
    BY Zenon, <1>2, <2>1, <2>2, <2>3
<1>5. CASE PurgeFails
  <2>1. purge' = Idle
    BY Zenon, <1>5 DEF PurgeFails
  <2> QED
    BY Zenon, <2>1 DEF PurgeInv, Idle
<1> QED
  BY Zenon, <1>1, <1>3, <1>4, <1>5

(* No purge goes on. *)
LEMMA SamePurge ==
  ASSUME PurgeInv, now \in Nat, now' \in Nat, now <= now', UNCHANGED purge
  PROVE  PurgeInv'
<1> DEFINE m == Retention * DayLen
<1>1. m \in Nat
  BY Zenon, RetentionNat
<1>2. CASE purge = Idle
  BY Zenon, <1>2 DEF PurgeInv, Idle
<1>3. CASE purge # Idle
  <2>1. /\ "before" \in DOMAIN purge
        /\ purge.before \in Int /\ purge.before <= now - m
    BY Zenon, <1>3 DEF PurgeInv
  <2> HIDE DEF m
  <2>2. purge.before <= now' - m
    BY <1>1, <2>1
  <2> QED
    BY Zenon, <2>1, <2>2 DEF PurgeInv, m
<1> QED
  BY Zenon, <1>2, <1>3

-----------------------------------------------------------------------------
(* Rollup *)

LEMMA MinIs ==
  ASSUME NEW T \in SUBSET Nat, T # {}
  PROVE  Min(T) \in T /\ Min(T) \in Nat
<1>1. \E x \in T : \A y \in T : x <= y
  BY Zenon, Least
<1>2. Min(T) \in T
  BY Zenon, <1>1 DEF Min
<1> QED
  BY Zenon, <1>2

LEMMA MaxOfTwo ==
  ASSUME NEW a \in Int, NEW b \in Int
  PROVE  Max({a, b}) \in Int /\ Max({a, b}) >= a
<1>1. \E x \in {a, b} : \A y \in {a, b} : x >= y
  OBVIOUS
<1>2. Max({a, b}) \in {a, b} /\ \A y \in {a, b} : Max({a, b}) >= y
  BY Zenon, <1>1 DEF Max
<1> QED
  BY Zenon, <1>2

(* The days a run builds are days of the history. *)
LEMMA WantedDays ==
  ASSUME RowInv, now \in Ticks, NEW at \in Ticks, NEW s, \E i \in DOMAIN visits : visits[i].site = s
  PROVE  Wanted(s, at) \in SUBSET Days
<1> DEFINE K == {k \in DOMAIN visits : visits[k].site = s}
           T == {Day(visits[i].start) : i \in K}
           first == Min(T)
           raw == RawFrom(now)
           from == Max({first, raw})
<1>1. \A i \in K : visits[i].start \in Nat
  BY Zenon DEF RowInv, VisitOK, Visit
<1>2. T \in SUBSET Nat /\ T # {}
  BY Zenon, <1>1, DayNat
<1>3. first \in Nat
  BY Zenon, <1>2, MinIs
<1>4. now \in Nat /\ at \in Nat /\ at <= MaxTick /\ MaxTick \in Nat
  BY Numbers DEF Ticks
<1>5. raw \in Int
  <2>1. now - Retention * DayLen \in Int
    BY <1>4, RetentionNat
  <2>2. now - Retention * DayLen <= now - Retention * DayLen
    BY <2>1
  <2>3. Day(now - Retention * DayLen) \in Int
    BY Zenon, <2>1, <2>2, DayGrows
  <2> QED
    BY <2>3 DEF RawFrom
<1>6. Wanted(s, at) \subseteq from..Day(at)
  BY Zenon DEF Wanted
<1> HIDE DEF first, raw
<1>7. from \in Int /\ from >= first
  BY Zenon, <1>3, <1>5, MaxOfTwo, IntOfNat
<1>8. Day(at) \in Int /\ Day(MaxTick) \in Int /\ Day(at) <= Day(MaxTick)
  BY Zenon, <1>4, DayGrows, IntOfNat
<1> HIDE DEF from
<1>9. from..Day(at) \subseteq Days
  BY <1>3, <1>7, <1>8 DEF Days
<1> QED
  BY Zenon, <1>6, <1>9

(* What is stored, and a run as it may be at a tick. *)
Stored == \A s \in Sites : \A d \in DOMAIN daily[s] : d \in Days /\ s \in sites /\ DOMAIN daily[s][d] = Dimensions

RollOK(p, t) ==
  p = Idle \/
    /\ p.at \in Ticks /\ p.at <= t
    /\ p.pc = "sites" \/ (p.days \subseteq Days /\ p.days # {})

LEMMA DailyIs ==
  /\ DailyInv <=> RollOK(roll, now) /\ daily = [s \in Sites |-> daily[s]] /\ Stored
  /\ DailyInv' <=> RollOK(roll', now') /\ daily' = [s \in Sites |-> daily'[s]] /\ Stored'
BY Zenon DEF DailyInv, RollOK, Stored, Idle

LEMMA RollLater ==
  ASSUME NEW p, NEW t \in Nat, NEW u \in Nat, t <= u, RollOK(p, t)
  PROVE  RollOK(p, u)
<1>1. CASE p = Idle
  BY Zenon, <1>1 DEF RollOK
<1>2. CASE p # Idle
  <2>1. p.at \in Nat /\ p.at <= t
    BY <1>2, Numbers DEF RollOK, Ticks
  <2>2. p.at <= u
    BY <2>1
  <2> QED
    BY Zenon, <1>2, <2>2 DEF RollOK
<1> QED
  BY Zenon, <1>1, <1>2

(* No run goes on, nothing is stored and no site goes. *)
LEMMA SameDaily ==
  ASSUME DailyInv, now \in Nat, now' \in Nat, now <= now', UNCHANGED daily, roll' \in {roll, Idle}, sites \subseteq sites'
  PROVE  DailyInv'
<1>1. RollOK(roll', now')
  BY Zenon, DailyIs, RollLater DEF RollOK
<1>2. Stored'
  BY Zenon, DailyIs DEF Stored
<1> QED
  BY Zenon, <1>1, <1>2, DailyIs

LEMMA CascadeKeepsDaily ==
  ASSUME DailyInv, NEW s \in Sites, Cascade(s), sites' = sites \ {s}, UNCHANGED <<now, roll>>
  PROVE  DailyInv'
<1>1. daily' = [daily EXCEPT ![s] = <<>>] /\ daily = [t \in Sites |-> daily[t]] /\ Stored
  BY Zenon, DailyIs DEF Cascade
<1>2. DOMAIN <<>> = {}
  OBVIOUS
<1>3. /\ daily' = [t \in Sites |-> daily'[t]]
      /\ daily'[s] = <<>> /\ \A t \in Sites : t # s => daily'[t] = daily[t]
  BY Zenon, <1>1
<1>4. Stored'
  BY Zenon, <1>1, <1>2, <1>3 DEF Stored
<1> QED
  BY Zenon, <1>3, <1>4, DailyIs

(* A run that goes on with some days of a site. *)
LEMMA NextDayOK ==
  ASSUME NEW t, RollOK(roll, t), roll # Idle, NEW s, NEW days \in SUBSET Days
  PROVE  RollOK(NextDay(s, days), t)
<1>1. roll.at \in Ticks /\ roll.at <= t
  BY Zenon DEF RollOK
<1>2. CASE days = {}
  <2>1. NextDay(s, days).pc = "sites" /\ NextDay(s, days).at = roll.at
    BY <1>2 DEF NextDay
  <2> QED
    BY Zenon, <1>1, <2>1 DEF RollOK
<1>3. CASE days # {}
  <2>1. NextDay(s, days).days = days /\ NextDay(s, days).at = roll.at
    BY <1>3 DEF NextDay
  <2> QED
    BY Zenon, <1>1, <1>3, <2>1 DEF RollOK
<1> QED
  BY Zenon, <1>2, <1>3

LEMMA RollSteps ==
  ASSUME DailyInv, RowInv, now \in Ticks, sites \subseteq Sites,
         RollBegins \/ RollSite \/ RollReadsTotal \/ RollReadsPage \/ RollStores \/ RollEnds \/ RollFails
  PROVE  DailyInv'
<1>1. UNCHANGED <<now, sites>>
  BY Zenon DEF RollBegins, RollSite, RollReadsTotal, RollReadsPage, RollStores, RollEnds, RollFails, siteVars
<1>2. RollOK(roll, now) /\ daily = [s \in Sites |-> daily[s]] /\ Stored
  BY Zenon, DailyIs
<1>3. now \in Nat /\ now <= now
  BY Numbers DEF Ticks
<1>4. ASSUME UNCHANGED daily, RollOK(roll', now)
      PROVE  DailyInv'
  <2>1. Stored'
    BY Zenon, <1>1, <1>2, <1>4 DEF Stored
  <2> QED
    BY Zenon, <1>1, <1>2, <1>4, <2>1, DailyIs
<1>5. CASE RollBegins
  <2>1. roll' = [pc |-> "sites", at |-> now, todo |-> sites] /\ UNCHANGED daily
    BY Zenon, <1>5 DEF RollBegins
  <2>2. roll'.pc = "sites" /\ roll'.at = now
    BY Zenon, <2>1
  <2> QED
    BY Zenon, <1>3, <1>4, <2>1, <2>2 DEF RollOK
<1>6. CASE RollSite
  <2>1. roll # Idle
    BY Zenon, <1>6, IdleIs DEF RollSite
  <2>2. PICK s : roll' = NextDay(s, IF \E i \in DOMAIN visits : visits[i].site = s THEN Wanted(s, roll.at) ELSE {})
    BY Zenon, <1>6 DEF RollSite
  <2>3. UNCHANGED daily /\ roll.at \in Ticks
    BY Zenon, <1>2, <1>6, <2>1 DEF RollSite, RollOK
  <2>4. (IF \E i \in DOMAIN visits : visits[i].site = s THEN Wanted(s, roll.at) ELSE {}) \in SUBSET Days
    BY Zenon, <2>3, WantedDays
  <2> QED
    BY Zenon, <1>2, <1>4, <2>1, <2>2, <2>3, <2>4, NextDayOK
<1>7. ASSUME roll # Idle, roll.pc # "sites", roll'.at = roll.at, roll'.days = roll.days
      PROVE  RollOK(roll', now)
  BY Zenon, <1>2, <1>7 DEF RollOK
<1>8. CASE RollReadsTotal
  <2>1. roll.pc = "total" /\ UNCHANGED daily
    BY Zenon, <1>8 DEF RollReadsTotal
  <2>2. roll # Idle /\ roll.pc # "sites"
    BY Zenon, <2>1, IdleIs
  <2>3. roll'.at = roll.at /\ roll'.days = roll.days
    BY Zenon, <1>8 DEF RollReadsTotal
  <2> QED
    BY Zenon, <1>4, <1>7, <2>1, <2>2, <2>3
<1>9. CASE RollReadsPage
  <2>1. roll.pc = "page" /\ UNCHANGED daily
    BY Zenon, <1>9 DEF RollReadsPage
  <2>2. roll # Idle /\ roll.pc # "sites"
    BY Zenon, <2>1, IdleIs
  <2>3. roll'.at = roll.at /\ roll'.days = roll.days
    BY Zenon, <1>9 DEF RollReadsPage
  <2> QED
    BY Zenon, <1>4, <1>7, <2>1, <2>2, <2>3
<1>10. CASE RollStores
  <2> DEFINE d == Min(roll.days)
             row == [total |-> roll.total, page |-> roll.page]
  <2>1. roll # Idle /\ roll.pc # "sites"
    BY Zenon, <1>10, IdleIs DEF RollStores
  <2>2. roll.days \in SUBSET Days /\ roll.days # {}
    BY Zenon, <1>2, <2>1 DEF RollOK
  <2>3. Days \subseteq Nat
    BY DEF Days
  <2>4. d \in Days
    <3>1. roll.days \in SUBSET Nat
      BY Zenon, <2>2, <2>3
    <3>2. d \in roll.days
      BY Zenon, <2>2, <3>1, MinIs
    <3> QED
      BY Zenon, <2>2, <3>2
  <2>5. DOMAIN row = Dimensions
    BY DEF Dimensions
  <2> HIDE DEF row
  <2>6. CASE ~ HasSite(roll.site)
    <3>1. roll' = Idle /\ UNCHANGED daily
      BY Zenon, <1>10, <2>6 DEF RollStores
    <3> QED
      BY Zenon, <1>4, <3>1 DEF RollOK
  <2>7. CASE HasSite(roll.site)
    <3>1. /\ daily' = [daily EXCEPT ![roll.site] = With(@, d, row)]
          /\ roll' = NextDay(roll.site, roll.days \ {d})
      BY Zenon, <1>10, <2>7 DEF RollStores, row
    <3>2. roll.site \in sites /\ roll.site \in Sites
      BY Zenon, <2>7 DEF HasSite
    <3>3. RollOK(roll', now)
      BY Zenon, <1>2, <2>1, <2>2, <3>1, NextDayOK
    <3> HIDE DEF d
    <3>4. /\ daily' = [s \in Sites |-> daily'[s]]
          /\ daily'[roll.site] = With(daily[roll.site], d, row)
          /\ \A s \in Sites : s # roll.site => daily'[s] = daily[s]
      BY Zenon, <1>2, <3>1, <3>2
    <3>5. \A k \in DOMAIN daily'[roll.site] : k \in Days /\ DOMAIN daily'[roll.site][k] = Dimensions
      <4>1. \A k \in DOMAIN daily[roll.site] : k \in Days /\ DOMAIN daily[roll.site][k] = Dimensions
        BY Zenon, <1>2, <3>2 DEF Stored
      <4> QED
        BY Zenon, <2>4, <2>5, <3>4, <4>1 DEF With
    <3>6. Stored'
      BY Zenon, <1>1, <1>2, <3>2, <3>4, <3>5 DEF Stored
    <3> QED
      BY Zenon, <1>1, <3>3, <3>4, <3>6, DailyIs
  <2> QED
    BY Zenon, <2>6, <2>7
<1>11. CASE RollEnds
  <2>1. roll' = Idle /\ daily' = [s \in Sites |-> Restrict(daily[s], {d \in DOMAIN daily[s] : d >= Day(roll.at) - History})]
    BY Zenon, <1>11 DEF RollEnds
  <2>2. daily' = [s \in Sites |-> daily'[s]]
    BY Zenon, <2>1
  <2>3. \A s \in Sites : /\ DOMAIN daily'[s] \subseteq DOMAIN daily[s]
                         /\ \A d \in DOMAIN daily'[s] : daily'[s][d] = daily[s][d]
    BY Zenon, <2>1 DEF Restrict
  <2>4. Stored'
    BY Zenon, <1>1, <1>2, <2>3 DEF Stored
  <2>5. RollOK(roll', now')
    BY Zenon, <2>1 DEF RollOK
  <2> QED
    BY Zenon, <2>2, <2>4, <2>5, DailyIs
<1>12. CASE RollFails
  <2>1. roll' = Idle /\ UNCHANGED daily
    BY Zenon, <1>12 DEF RollFails
  <2> QED
    BY Zenon, <1>4, <2>1 DEF RollOK
<1> QED
  BY Zenon, <1>5, <1>6, <1>8, <1>9, <1>10, <1>11, <1>12

-----------------------------------------------------------------------------
(* Every step *)

LEMMA InitIInv == Init => IInv
<1> SUFFICES ASSUME Init
             PROVE  IInv
  OBVIOUS
<1>1. /\ now = 0 /\ sites = {} /\ unused = Sites /\ cache = NoList /\ lister = Nobody /\ owed = 0
      /\ req = [r \in Requests |-> Idle] /\ visits = <<>> /\ daily = [s \in Sites |-> <<>>]
      /\ roll = Idle /\ purge = Idle /\ seen = {} /\ ran = FALSE
  BY Zenon DEF Init
<1>2. Idle \in Handling /\ Idle.pc # "list" /\ Idle.pc # "record"
  BY DEF Handling, Idle
<1>3. req \in [Requests -> Handling] /\ \A r \in Requests : req[r] = Idle
  BY Zenon, <1>1, <1>2
<1>4. \A r \in Requests : req[r].pc # "list" /\ req[r].pc # "record"
  BY Zenon, <1>2, <1>3
<1>5. ListInv
  <2>1. owed \in 0..MaxCalls
    BY <1>1, Numbers
  <2>2. \A r \in Requests : req[r].pc = "list" <=> lister = r
    BY Zenon, <1>1, <1>4, AnalyticsAssumption DEF Nobody
  <2>3. CacheFresh
    BY Zenon, <1>1, <1>4 DEF CacheFresh
  <2> QED
    BY Zenon, <1>1, <1>3, <2>1, <2>2, <2>3 DEF ListInv
<1>6. Young
  <2>1. now \in Ticks
    BY <1>1, Numbers DEF Ticks
  <2> QED
    BY Zenon, <1>1, <1>4, <2>1 DEF Young
<1>7. RoomInv
  <2>1. Active = {}
    BY Zenon, <1>3 DEF Active
  <2>2. IsFiniteSet(seen) /\ Cardinality(seen) = 0 /\ Cardinality(Active) = 0
    BY Zenon, <1>1, <2>1, FS_EmptySet
  <2>3. Cardinality(seen) + Cardinality(Active) <= MaxViews
    BY <2>2, Numbers
  <2> QED
    BY Zenon, <2>2, <2>3 DEF RoomInv
<1>8. DOMAIN <<>> = {} /\ 0 \in Nat
  OBVIOUS
<1>9. RowInv
  <2>1. visits \in [DOMAIN visits -> Visit]
    BY <1>1
  <2> QED
    BY Zenon, <1>1, <1>8, <2>1 DEF RowInv
<1>10. PurgeInv
  BY Zenon, <1>1 DEF PurgeInv
<1>11. DailyInv
  <2>1. daily = [s \in Sites |-> daily[s]] /\ \A s \in Sites : DOMAIN daily[s] = {}
    BY Zenon, <1>1, <1>8
  <2>2. Stored
    BY Zenon, <2>1 DEF Stored
  <2>3. RollOK(roll, now)
    BY Zenon, <1>1 DEF RollOK
  <2> QED
    BY Zenon, <2>1, <2>2, <2>3, DailyIs
<1> QED
  BY Zenon, <1>5, <1>6, <1>7, <1>9, <1>10, <1>11 DEF IInv

(* A step that leaves the rows, the clock, the purge and the daily job alone. *)
LEMMA SiteStep ==
  ASSUME IInv, ListInv', UNCHANGED <<now, rowVars, daily, purge, ran>>, roll' \in {roll, Idle}, sites \subseteq sites',
         RoomInv', Young'
  PROVE  IInv' /\ RawDaysStep
<1>1. now \in Nat /\ now' \in Nat /\ now <= now'
  BY Numbers DEF IInv, Young, Ticks
<1>2. RowInv'
  BY Zenon, SameRows DEF IInv
<1>3. PurgeInv'
  BY Zenon, <1>1, SamePurge DEF IInv
<1>4. DailyInv'
  BY Zenon, <1>1, SameDaily DEF IInv
<1>5. RawDaysStep
  BY Zenon DEF RawDaysStep, rowVars
<1> QED
  BY Zenon, <1>2, <1>3, <1>4, <1>5 DEF IInv

(* The calls that change the site list. *)
LEMMA SiteCalls ==
  ASSUME IInv, (\E s \in Sites : CreateSite(s) \/ DeleteSite(s)) \/ CreateRefused \/ ResetSites
  PROVE  IInv' /\ RawDaysStep
<1>2. ASSUME UNCHANGED <<req, now, ran>>, seen' \subseteq seen
      PROVE  RoomInv' /\ Young'
  <2>1. Active' \subseteq Active
    BY Zenon, <1>2 DEF Active
  <2>2. RoomInv'
    BY Zenon, <1>2, <2>1, RoomLess DEF IInv
  <2>3. Young'
    BY Zenon, <1>2 DEF IInv, Young
  <2> QED
    BY Zenon, <2>2, <2>3
<1>3. ASSUME NEW s \in Sites, CreateSite(s)
      PROVE  IInv' /\ RawDaysStep
  <2>1. UNCHANGED <<req, now, ran, cache, lister, rowVars, daily, roll, purge>> /\ owed < MaxCalls /\ owed' = owed + 1
    BY Zenon, <1>3 DEF CreateSite
  <2>2. sites' = sites \cup {s} /\ unused' = unused \ {s}
    BY Zenon, <1>3 DEF CreateSite
  <2>3. sites' \subseteq Sites /\ unused' \subseteq Sites /\ sites' \cap unused' = {} /\ sites \subseteq sites'
    BY Zenon, <2>2 DEF IInv, ListInv
  <2>4. ListInv'
    BY Zenon, <2>1, <2>3, OwedKeeps DEF IInv
  <2>5. seen' \subseteq seen
    BY Zenon, <2>1 DEF rowVars
  <2> QED
    BY Zenon, <1>2, <2>1, <2>3, <2>4, <2>5, SiteStep
<1>4. CASE CreateRefused
  <2>1. UNCHANGED <<req, now, ran, sites, unused, cache, lister, rowVars, daily, roll, purge>> /\ owed < MaxCalls /\ owed' = owed + 1
    BY Zenon, <1>4 DEF CreateRefused
  <2>2. sites' \subseteq Sites /\ unused' \subseteq Sites /\ sites' \cap unused' = {} /\ sites \subseteq sites'
    BY Zenon, <2>1 DEF IInv, ListInv
  <2>3. ListInv'
    BY Zenon, <2>1, <2>2, OwedKeeps DEF IInv
  <2>4. seen' \subseteq seen
    BY Zenon, <2>1 DEF rowVars
  <2> QED
    BY Zenon, <1>2, <2>1, <2>2, <2>3, <2>4, SiteStep
<1>5. CASE ResetSites
  <2>1. UNCHANGED <<req, now, ran, sites, rowVars, daily, roll, purge>>
    BY Zenon, <1>5 DEF ResetSites
  <2>2. ListInv'
    BY Zenon, <1>5, ResetKeeps DEF IInv
  <2>3. seen' \subseteq seen /\ sites \subseteq sites'
    BY Zenon, <2>1 DEF rowVars
  <2> QED
    BY Zenon, <1>2, <2>1, <2>2, <2>3, SiteStep
<1>6. ASSUME NEW s \in Sites, DeleteSite(s)
      PROVE  IInv' /\ RawDaysStep
  <2>1. /\ UNCHANGED <<req, now, ran, unused, cache, lister, roll, purge>> /\ owed < MaxCalls /\ owed' = owed + 1
        /\ sites' = sites \ {s} /\ Cascade(s)
    BY Zenon, <1>6 DEF DeleteSite
  <2>2. sites' \subseteq Sites /\ unused' \subseteq Sites /\ sites' \cap unused' = {}
    BY Zenon, <2>1 DEF IInv, ListInv
  <2>3. ListInv'
    BY Zenon, <2>1, <2>2, OwedKeeps DEF IInv
  <2>4. seen' \subseteq seen
    BY Zenon, <2>1 DEF Cascade
  <2>5. RoomInv' /\ Young'
    BY Zenon, <1>2, <2>1, <2>4
  <2>6. RowInv' /\ RawDaysStep
    BY Zenon, <2>1, CascadeKeeps DEF IInv
  <2>7. DailyInv'
    BY Zenon, <2>1, CascadeKeepsDaily DEF IInv
  <2>8. now \in Nat /\ now' \in Nat /\ now <= now'
    BY <2>1, Numbers DEF IInv, Young, Ticks
  <2>9. PurgeInv'
    BY Zenon, <2>1, <2>8, SamePurge DEF IInv
  <2> QED
    BY Zenon, <2>3, <2>5, <2>6, <2>7, <2>9 DEF IInv
<1> QED
  BY Zenon, <1>3, <1>4, <1>5, <1>6

(* What a handler does to the site list and to the room. *)
LEMMA HandlerStep ==
  ASSUME IInv, NEW r \in Requests, NEW q \in Handling, req' = [req EXCEPT ![r] = q],
         q.pc = "record" => q.ts = now, ListInv', UNCHANGED <<now, sites, rowVars, daily, roll, purge, ran>>,
         (req[r] = Idle /\ Views < MaxViews) \/ req[r] # Idle
  PROVE  IInv' /\ RawDaysStep
<1>1. /\ req'[r] = q
      /\ \A p \in Requests : p # r => req'[p] = req[p]
  BY Zenon, OneHandler DEF IInv, ListInv
<1>2. Young'
  <2>1. \A p \in Requests : req'[p].pc = "record" => req'[p] = req[p] \/ req'[p].ts = now
    BY Zenon, <1>1
  <2> QED
    BY Zenon, <2>1, YoungKept DEF IInv
<1>3. UNCHANGED seen /\ seen' \subseteq seen
  BY Zenon DEF rowVars
<1>4. CASE req[r] = Idle /\ Views < MaxViews
  <2>1. RoomInv'
    BY Zenon, <1>1, <1>3, <1>4, RoomBegins DEF IInv
  <2> QED
    BY Zenon, <1>2, <2>1, SiteStep
<1>5. CASE req[r] # Idle
  <2>1. Active' \subseteq Active
    BY Zenon, <1>1, <1>5 DEF Active
  <2>2. RoomInv'
    BY Zenon, <1>3, <2>1, RoomLess DEF IInv
  <2> QED
    BY Zenon, <1>2, <2>2, SiteStep
<1> QED
  BY Zenon, <1>4, <1>5

LEMMA NowNat ==
  ASSUME IInv
  PROVE  now \in Nat
BY Numbers DEF IInv, Young, Ticks

LEMMA IdleHandling == Idle \in Handling /\ Idle.pc # "list" /\ Idle.pc # "record"
BY DEF Handling, Idle

LEMMA BeaconSteps ==
  ASSUME IInv, NEW r \in Requests,
         \/ \E s \in Sites, w \in Visitors : Lookup(r, s, w) \/ ListBegins(r, s, w)
         \/ ListEnds(r) \/ ListFails(r) \/ RecordFails(r)
  PROVE  IInv' /\ RawDaysStep
<1>1. now \in Nat
  BY Zenon, NowNat
<1>2. ASSUME NEW s \in Sites, NEW w \in Visitors, Lookup(r, s, w)
      PROVE  IInv' /\ RawDaysStep
  <2>1. /\ req[r] = Idle /\ Views < MaxViews /\ req' = [req EXCEPT ![r] = Admitted(s, w)]
        /\ UNCHANGED <<now, siteVars, rowVars, daily, roll, purge, ran>>
    BY Zenon, <1>2 DEF Lookup
  <2>2. Admitted(s, w) \in Handling /\ Admitted(s, w).pc # "list" /\ Admitted(s, w).ts = now
    BY Zenon, <1>1, AdmittedIs
  <2>3. ListInv'
    BY Zenon, <2>1, <2>2, IdleHandling, HandlerKeeps DEF IInv
  <2>4. UNCHANGED sites
    BY Zenon, <2>1 DEF siteVars
  <2> QED
    BY Zenon, <2>1, <2>2, <2>3, <2>4, HandlerStep
<1>3. ASSUME NEW s \in Sites, NEW w \in Visitors, ListBegins(r, s, w)
      PROVE  IInv' /\ RawDaysStep
  <2> DEFINE q == [pc |-> "list", site |-> s, who |-> w, list |-> sites]
  <2>1. /\ req[r] = Idle /\ Views < MaxViews /\ req' = [req EXCEPT ![r] = q]
        /\ UNCHANGED <<now, sites, rowVars, daily, roll, purge, ran>>
    BY Zenon, <1>3 DEF ListBegins
  <2>2. q \in Handling /\ q.pc # "record"
    BY DEF Handling, Listing, IInv, ListInv
  <2>3. ListInv'
    BY Zenon, <1>3, ListBeginsKeeps DEF IInv
  <2> HIDE DEF q
  <2> QED
    BY Zenon, <2>1, <2>2, <2>3, HandlerStep
<1>4. CASE ListEnds(r)
  <2> DEFINE q == IF req[r].site \in req[r].list THEN Admitted(req[r].site, req[r].who) ELSE Idle
  <2>1. /\ req[r].pc = "list" /\ lister' = Nobody /\ cache' = req[r].list /\ req' = [req EXCEPT ![r] = q]
        /\ UNCHANGED <<now, sites, unused, owed, rowVars, daily, roll, purge, ran>>
    BY Zenon, <1>4 DEF ListEnds
  <2>2. req[r] \in Listing
    BY Zenon, <2>1, Doing DEF IInv, ListInv
  <2>3. req[r].site \in Sites /\ req[r].who \in Visitors
    BY Zenon, <2>2 DEF Listing
  <2>4. q \in Handling /\ q.pc # "list" /\ (q.pc = "record" => q.ts = now)
    BY Zenon, <1>1, <2>3, AdmittedIs, IdleHandling
  <2> HIDE DEF q
  <2>5. ListInv'
    BY Zenon, <2>1, <2>4, LockBackKeeps DEF IInv
  <2>6. req[r] # Idle
    BY Zenon, <2>1, IdleHandling
  <2> QED
    BY Zenon, <2>1, <2>4, <2>5, <2>6, HandlerStep
<1>5. CASE ListFails(r)
  <2>1. /\ req[r].pc = "list" /\ lister' = Nobody /\ UNCHANGED cache /\ req' = [req EXCEPT ![r] = Idle]
        /\ UNCHANGED <<now, sites, unused, owed, rowVars, daily, roll, purge, ran>>
    BY Zenon, <1>5 DEF ListFails
  <2>2. ListInv'
    BY Zenon, <2>1, IdleHandling, LockBackKeeps DEF IInv
  <2>3. req[r] # Idle
    BY Zenon, <2>1, IdleHandling
  <2> QED
    BY Zenon, <2>1, <2>2, <2>3, IdleHandling, HandlerStep
<1>6. CASE RecordFails(r)
  <2>1. /\ req[r].pc = "record" /\ req' = [req EXCEPT ![r] = Idle]
        /\ UNCHANGED <<now, siteVars, rowVars, daily, roll, purge, ran>>
    BY Zenon, <1>6 DEF RecordFails
  <2>2. req[r] # Idle /\ req[r].pc # "list" /\ UNCHANGED sites
    BY Zenon, <2>1, IdleHandling DEF siteVars
  <2>3. ListInv'
    BY Zenon, <2>1, <2>2, IdleHandling, HandlerKeeps DEF IInv
  <2> QED
    BY Zenon, <2>1, <2>2, <2>3, IdleHandling, HandlerStep
<1> QED
  BY Zenon, <1>2, <1>3, <1>4, <1>5, <1>6

(* One transaction of RecordPageview. *)
LEMMA RecordStep ==
  ASSUME IInv, NEW r \in Requests, Record(r)
  PROVE  IInv' /\ RawDaysStep
<1> DEFINE q == req[r]
           n == Max({x.n : x \in seen} \cup {0}) + 1
           i == IF Open(q) = {} THEN n ELSE LatestOf(Open(q))
           x == [n |-> n, site |-> q.site, day |-> Day(q.ts), who |-> q.who, visit |-> i]
<1>1. /\ q.pc = "record" /\ req' = [req EXCEPT ![r] = Idle]
      /\ UNCHANGED <<now, siteVars, daily, roll, purge, ran>>
  BY Zenon DEF Record
<1>2. HasSite(q.site) =>
        /\ visits' = IF i = n THEN With(visits, n, Opened(q)) ELSE [visits EXCEPT ![i] = Continued(@, q.ts)]
        /\ seen' = seen \cup {x}
  BY Zenon DEF Record
<1>3. ~ HasSite(q.site) => UNCHANGED rowVars
  BY Zenon DEF Record
<1>4. now \in Nat
  BY Zenon, NowNat
<1>5. q \in Recording /\ q # Idle /\ q.pc # "list"
  BY Zenon, <1>1, Doing, IdleHandling DEF IInv, ListInv
<1>6. q.ts <= now /\ now <= q.ts + 1
  BY Zenon, <1>1 DEF IInv, Young
<1>7. n \in Nat /\ \A y \in seen : y.n < n
  BY Zenon, NextId DEF IInv
<1>8. ListInv' /\ UNCHANGED sites
  BY Zenon, <1>1, <1>5, IdleHandling, HandlerKeeps DEF IInv, siteVars
<1>9. CASE ~ HasSite(q.site)
  <2>1. UNCHANGED rowVars
    BY Zenon, <1>3, <1>9
  <2> HIDE DEF n, i, x
  <2> QED
    BY Zenon, <1>1, <1>5, <1>8, <2>1, IdleHandling, HandlerStep
<1>10. CASE HasSite(q.site)
  <2>1. q.site \in sites
    BY Zenon, <1>10 DEF HasSite
  <2>2. x.n = n /\ x.visit = i /\ x.site = q.site
    BY Zenon
  <2>3. IsFiniteSet(seen) /\ RowInv
    BY Zenon DEF IInv, RoomInv
  <2>4. i # n => i \in DOMAIN visits /\ visits[i].hash = Hash(q)
    <3> SUFFICES ASSUME i # n
                 PROVE  i \in DOMAIN visits /\ visits[i].hash = Hash(q)
      BY Zenon
    <3>1. Open(q) # {} /\ i = LatestOf(Open(q))
      BY Zenon
    <3>2. Open(q) \subseteq DOMAIN visits
      BY Zenon DEF Open
    <3>3. i \in Open(q)
      BY Zenon, <1>4, <2>3, <3>1, <3>2, LatestIs
    <3> QED
      BY Zenon, <3>3 DEF Open
  <2>5. /\ visits' = IF i = n THEN With(visits, n, Opened(q)) ELSE [visits EXCEPT ![i] = Continued(@, q.ts)]
        /\ seen' = seen \cup {x}
    BY Zenon, <1>2, <1>10
  <2> HIDE DEF n, i, x
  <2>6. RowInv' /\ RowsStay
    <3>1. CASE i = n
      <4>1. visits' = With(visits, n, Opened(q)) /\ x.visit = n
        BY Zenon, <2>2, <2>5, <3>1
      <4> QED
        BY Zenon, <1>1, <1>4, <1>5, <1>6, <1>7, <1>8, <2>1, <2>2, <2>3, <2>5, <4>1, OpenedKeeps
    <3>2. CASE i # n
      <4>1. visits' = [visits EXCEPT ![i] = Continued(@, q.ts)]
        BY Zenon, <2>5, <3>2
      <4> QED
        BY Zenon, <1>1, <1>4, <1>5, <1>6, <1>7, <1>8, <2>2, <2>3, <2>4, <2>5, <3>2, <4>1, ContinuedKeeps
    <3> QED
      BY Zenon, <3>1, <3>2
  <2>7. RawDaysStep
    BY Zenon, <2>6 DEF RawDaysStep, RowsStay
  <2>8. /\ req'[r] = Idle
        /\ \A p \in Requests : p # r => req'[p] = req[p]
    BY Zenon, <1>1, IdleHandling, OneHandler DEF IInv, ListInv
  <2>9. RoomInv'
    BY Zenon, <1>5, <2>5, <2>8, RoomRecords DEF IInv
  <2>10. Young'
    <3>1. \A p \in Requests : req'[p].pc = "record" => req'[p] = req[p] \/ req'[p].ts = now
      BY Zenon, <2>8, IdleHandling
    <3> QED
      BY Zenon, <1>1, <3>1, YoungKept DEF IInv
  <2>11. now' \in Nat /\ now <= now'
    BY <1>1, <1>4
  <2>12. PurgeInv' /\ DailyInv'
    BY Zenon, <1>1, <1>4, <1>8, <2>11, SamePurge, SameDaily DEF IInv
  <2> QED
    BY Zenon, <1>8, <2>6, <2>7, <2>9, <2>10, <2>12 DEF IInv
<1> QED
  BY Zenon, <1>9, <1>10

(* The two jobs. *)
LEMMA JobSteps ==
  ASSUME IInv,
         \/ PurgeBegins \/ PurgeViews \/ PurgeVisits \/ PurgeFails
         \/ RollBegins \/ RollSite \/ RollReadsTotal \/ RollReadsPage \/ RollStores \/ RollEnds \/ RollFails
  PROVE  IInv' /\ RawDaysStep
<1>1. UNCHANGED <<now, sites, unused, cache, lister, owed, req, seen>>
  BY Zenon DEF PurgeBegins, PurgeViews, PurgeVisits, PurgeFails, RollBegins, RollSite, RollReadsTotal,
    RollReadsPage, RollStores, RollEnds, RollFails, siteVars, rowVars
<1>2. ran' \in BOOLEAN
  <2>1. UNCHANGED ran \/ ran' = (roll.at = now)
    BY Zenon DEF PurgeBegins, PurgeViews, PurgeVisits, PurgeFails, RollBegins, RollSite, RollReadsTotal,
      RollReadsPage, RollStores, RollEnds, RollFails
  <2>2. ran \in BOOLEAN
    BY Zenon DEF IInv, Young
  <2> QED
    BY Zenon, <2>1, <2>2
<1>3. ListInv'
  BY Zenon, <1>1 DEF IInv, ListInv, CacheFresh
<1>4. Young'
  BY Zenon, <1>1, <1>2 DEF IInv, Young
<1>5. RoomInv'
  BY Zenon, <1>1 DEF IInv, RoomInv, Active
<1>6. now \in Nat /\ now' \in Nat /\ now <= now' /\ now \in Ticks
  BY <1>1, Numbers DEF IInv, Young, Ticks
<1>7. UNCHANGED visits => RowInv' /\ RawDaysStep
  <2> SUFFICES ASSUME UNCHANGED visits
               PROVE  RowInv' /\ RawDaysStep
    BY Zenon
  <2>1. UNCHANGED rowVars /\ sites \subseteq sites'
    BY Zenon, <1>1 DEF rowVars
  <2>2. RowInv'
    BY Zenon, <1>1, <2>1, SameRows DEF IInv
  <2>3. RawDaysStep
    BY Zenon DEF RawDaysStep
  <2> QED
    BY Zenon, <2>2, <2>3
<1>8. CASE PurgeBegins \/ PurgeViews \/ PurgeVisits \/ PurgeFails
  <2>1. PurgeInv'
    BY Zenon, <1>1, <1>6, <1>8, PurgeSteps DEF IInv
  <2>2. UNCHANGED <<daily, roll>>
    BY Zenon, <1>8 DEF PurgeBegins, PurgeViews, PurgeVisits, PurgeFails
  <2>3. DailyInv'
    BY Zenon, <1>1, <1>6, <2>2, SameDaily DEF IInv
  <2>4. PurgeBegins \/ PurgeFails => UNCHANGED visits
    BY Zenon DEF PurgeBegins, PurgeFails, rowVars
  <2>5. RowInv' /\ RawDaysStep
    BY Zenon, <1>6, <1>7, <1>8, <2>4, PurgeViewsKeeps, PurgeVisitsKeeps DEF IInv
  <2> QED
    BY Zenon, <1>3, <1>4, <1>5, <2>1, <2>3, <2>5 DEF IInv
<1>9. CASE RollBegins \/ RollSite \/ RollReadsTotal \/ RollReadsPage \/ RollStores \/ RollEnds \/ RollFails
  <2>1. DailyInv'
    BY Zenon, <1>6, <1>9, RollSteps DEF IInv, ListInv
  <2>2. UNCHANGED <<visits, purge>>
    BY Zenon, <1>9 DEF RollBegins, RollSite, RollReadsTotal, RollReadsPage, RollStores, RollEnds, RollFails, rowVars
  <2>3. PurgeInv'
    BY Zenon, <1>6, <2>2, SamePurge DEF IInv
  <2> QED
    BY Zenon, <1>3, <1>4, <1>5, <1>7, <2>1, <2>2, <2>3 DEF IInv
<1> QED
  BY Zenon, <1>8, <1>9

LEMMA TickStep ==
  ASSUME IInv, Tick
  PROVE  IInv' /\ RawDaysStep
<1>1. /\ now < MaxTick /\ owed = 0 /\ now' = now + 1 /\ ran' = FALSE /\ cache' = NoList
      /\ \A r \in Requests : req[r].pc = "record" => req[r].ts = now
      /\ UNCHANGED <<sites, unused, lister, owed, req, rowVars, daily, roll, purge>>
  BY Zenon DEF Tick
<1>2. now \in Nat
  BY Zenon, NowNat
<1>3. now' \in Ticks /\ now' \in Nat /\ now <= now'
  BY <1>1, <1>2, Numbers DEF Ticks
<1>4. ListInv'
  BY Zenon, <1>1 DEF IInv, ListInv, CacheFresh
<1>5. Young'
  <2>1. \A r \in Requests : req'[r].pc = "record" => req'[r].ts = now
    BY Zenon, <1>1
  <2>2. now <= now' /\ now' <= now + 1
    BY <1>1, <1>2
  <2>3. \A r \in Requests : req'[r].pc = "record" => req'[r].ts <= now' /\ now' <= req'[r].ts + 1
    BY Zenon, <2>1, <2>2
  <2> QED
    BY Zenon, <1>1, <1>3, <2>3 DEF Young
<1>6. RoomInv'
  BY Zenon, <1>1 DEF IInv, RoomInv, Active, rowVars
<1>7. RowInv'
  BY Zenon, <1>1, <1>2, TickKeepsRows DEF IInv
<1>8. PurgeInv' /\ DailyInv'
  BY Zenon, <1>1, <1>2, <1>3, SamePurge, SameDaily DEF IInv
<1>9. RawDaysStep
  BY Zenon, <1>1 DEF RawDaysStep, rowVars
<1> QED
  BY Zenon, <1>4, <1>5, <1>6, <1>7, <1>8, <1>9 DEF IInv

LEMMA RestartStep ==
  ASSUME IInv, Restart
  PROVE  IInv' /\ RawDaysStep
<1>1. /\ req' = [r \in Requests |-> Idle] /\ roll' = Idle /\ purge' = Idle
      /\ UNCHANGED <<now, sites, unused, rowVars, daily, ran>>
  BY Zenon DEF Restart
<1>2. ListInv'
  BY Zenon, RestartKeepsList DEF IInv
<1>3. \A r \in Requests : req'[r] = Idle
  BY Zenon, <1>1
<1>4. Young'
  BY Zenon, <1>1, <1>3, IdleHandling DEF IInv, Young
<1>5. RoomInv'
  <2>1. Active' \subseteq Active /\ seen' \subseteq seen
    BY Zenon, <1>1, <1>3 DEF Active, rowVars
  <2> QED
    BY Zenon, <2>1, RoomLess DEF IInv
<1>6. now \in Nat /\ now' \in Nat /\ now <= now' /\ sites \subseteq sites'
  BY <1>1, NowNat
<1>7. RowInv' /\ RawDaysStep
  BY Zenon, <1>1, <1>6, SameRows DEF IInv, RawDaysStep, rowVars
<1>8. PurgeInv'
  BY Zenon, <1>1 DEF PurgeInv, Idle
<1>9. DailyInv'
  BY Zenon, <1>1, <1>6, SameDaily DEF IInv
<1> QED
  BY Zenon, <1>2, <1>4, <1>5, <1>7, <1>8, <1>9 DEF IInv

LEMMA NextIInv ==
  ASSUME IInv, [Next]_vars
  PROVE  IInv' /\ RawDaysStep
<1>1. CASE UNCHANGED vars
  <2>1. UNCHANGED <<now, sites, unused, cache, lister, owed, req, visits, seen, daily, roll, purge, ran>>
    BY Zenon, <1>1 DEF vars, siteVars, rowVars
  <2>2. /\ ListInv' /\ Young' /\ RoomInv'
    BY Zenon, <2>1 DEF IInv, ListInv, CacheFresh, Young, RoomInv, Active
  <2>3. UNCHANGED <<now, rowVars, daily, purge, ran>> /\ roll' \in {roll, Idle} /\ sites \subseteq sites'
    BY Zenon, <2>1 DEF rowVars
  <2> QED
    BY Zenon, <2>2, <2>3, SiteStep
<1>2. CASE Next
  BY Zenon, <1>2, SiteCalls, BeaconSteps, RecordStep, JobSteps, TickStep, RestartStep DEF Next
<1> QED
  BY Zenon, <1>1, <1>2

-----------------------------------------------------------------------------
(* The strengthening holds, with beacons, site changes, the purge and the    *)
(* daily job of internal/analytics interleaved in any order and the server   *)
(* starting again at any time.                                               *)
THEOREM AnalyticsInductive == Spec => []IInv
<1>1. IInv /\ [Next]_vars => IInv'
  BY NextIInv
<1> QED
  BY InitIInv, <1>1, PTL DEF Spec

(* Once no CreateSite or DeleteSite is under way, the list every beacon looks *)
(* its site up in is the table, and so is the one a request is loading: a     *)
(* load that began before a change never outlives the reset that follows it,  *)
(* for any number of handlers and calls.                                      *)
THEOREM CacheFreshHolds == Spec => []CacheFresh
<1>1. IInv => CacheFresh
  BY Zenon DEF IInv, ListInv
<1> QED
  BY <1>1, AnalyticsInductive, PTL

LEMMA CountsInBounds ==
  ASSUME IInv, NEW i \in DOMAIN visits
  PROVE  /\ visits[i].views \in 1..MaxViews
         /\ Cardinality(DOMAIN visits[i].rows) <= visits[i].views
<1> DEFINE v == visits[i].views
<1>1. v \in Nat /\ v >= 1 /\ DOMAIN visits[i].rows \subseteq 1..v
  BY Zenon DEF IInv, RowInv, VisitOK, Visit
<1>2. v <= Cardinality(ViewsOf(i))
  BY Zenon DEF IInv, RowInv
<1>3. ViewsOf(i) \subseteq seen /\ IsFiniteSet(seen) /\ Cardinality(seen) + Cardinality(Active) <= MaxViews
  BY Zenon DEF ViewsOf, IInv, RoomInv
<1>4. IsFiniteSet(ViewsOf(i)) /\ Cardinality(ViewsOf(i)) <= Cardinality(seen)
  BY Zenon, <1>3, FS_Subset
<1>5. Cardinality(ViewsOf(i)) \in Nat /\ Cardinality(seen) \in Nat /\ Cardinality(Active) \in Nat /\ MaxViews \in Nat
  BY Zenon, <1>3, <1>4, FS_CardinalityType, ActiveFinite, Numbers
<1> HIDE DEF v
<1>6. v \in 1..MaxViews
  BY <1>1, <1>2, <1>3, <1>4, <1>5
<1>7. IsFiniteSet(1..v) /\ Cardinality(1..v) = v
  <2>1. 1 \in Int /\ v \in Int /\ ~ (1 > v) /\ v - 1 + 1 = v
    BY <1>1
  <2> QED
    BY Zenon, <2>1, FS_Interval
<1>8. Cardinality(DOMAIN visits[i].rows) <= v
  BY Zenon, <1>1, <1>7, FS_Subset
<1> QED
  BY Zenon, <1>6, <1>8 DEF v

(* A visit and all its page views are of one day of the site, the one in its  *)
(* hash; its ends are at most a tick off although RecordPageview sets last_at *)
(* to whatever commits last; it counts every row it has, whatever the purge   *)
(* took; and every variable has its type.                                     *)
THEOREM VisitInOneDayHolds == Spec => []VisitInOneDay
<1>1. IInv => VisitInOneDay
  <2> SUFFICES ASSUME IInv
               PROVE  VisitInOneDay
    OBVIOUS
  <2>1. /\ now \in Ticks /\ owed \in 0..MaxCalls /\ ran \in BOOLEAN
        /\ sites \subseteq Sites /\ unused \subseteq Sites /\ sites \cap unused = {}
        /\ cache = NoList \/ cache \subseteq Sites
        /\ lister \in Requests \cup {Nobody}
        /\ \A r \in Requests : req[r].pc = "list" <=> lister = r
    BY Zenon DEF IInv, ListInv, Young
  <2>2. \A i \in DOMAIN visits : VisitOK(visits[i], now) /\ visits[i].site \in sites
    BY Zenon DEF IInv, RowInv
  <2>3. \A i \in DOMAIN visits : {visits[i].start, visits[i].last} \subseteq Ticks
    <3> TAKE i \in DOMAIN visits
    <3>1. /\ visits[i].start \in Nat /\ visits[i].last \in Nat
          /\ visits[i].start <= now /\ visits[i].last <= now
      BY Zenon, <2>2 DEF VisitOK, Visit
    <3>2. now \in Nat /\ now <= MaxTick /\ MaxTick \in Nat
      BY <2>1, Numbers DEF Ticks
    <3> QED
      BY <3>1, <3>2 DEF Ticks
  <2>4. \A s \in Sites : \A d \in DOMAIN daily[s] : d \in Days /\ s \in sites /\ DOMAIN daily[s][d] = Dimensions
    BY Zenon DEF IInv, DailyInv
  <2>5. sites \cup unused \subseteq Sites
    BY Zenon, <2>1
  <2>6. TypeOK
    BY Zenon, <2>1, <2>2, <2>3, <2>4, <2>5, CountsInBounds DEF TypeOK
  <2>7. ASSUME NEW i \in DOMAIN visits
        PROVE  /\ Day(visits[i].start) = Day(visits[i].last)
               /\ \A j \in DOMAIN visits[i].rows :
                    /\ Day(visits[i].rows[j]) = Day(visits[i].start)
                    /\ visits[i].rows[j] >= visits[i].start - 1 /\ visits[i].rows[j] <= visits[i].last + 1
    BY Zenon, <2>2 DEF VisitOK
  <2> QED
    BY Zenon, <2>6, <2>7, CountsInBounds DEF VisitInOneDay
<1> QED
  BY <1>1, AnalyticsInductive, PTL

(* No step takes away a page view of a day that queries still read from raw   *)
(* rows (RawFrom, the first day the raw boundary leaves whole), unless its    *)
(* site is deleted: however many batches a Purge needs, whatever it was begun *)
(* with and however late it deletes, it stays behind the boundary that a      *)
(* query computes from its own clock.                                         *)
THEOREM RawDaysKept == Spec => [][RawDaysStep]_vars
<1>1. IInv /\ [Next]_vars => [RawDaysStep]_vars
  BY Zenon, NextIInv
<1> QED
  BY <1>1, AnalyticsInductive, PTL DEF Spec

(* The points of a time series cut its range: every day of it is in exactly   *)
(* one bucket, no bucket is empty and none reaches outside the range, for     *)
(* every range and width (buckets clips the first and the last).              *)
THEOREM BucketsCutRange ==
  ASSUME NEW from \in Int, NEW to \in Int, NEW w \in Nat \ {0}
  PROVE  /\ UNION Buckets(from, to, w) = from..to
         /\ \A B \in Buckets(from, to, w) : B # {} /\ B \subseteq from..to
         /\ \A B, C \in Buckets(from, to, w) : B # C => B \cap C = {}
<1> DEFINE S == {d \div w : d \in from..to}
           P(b) == {d \in from..to : d \div w = b}
<1>1. Buckets(from, to, w) = {P(b) : b \in S}
  BY Zenon DEF Buckets
<1>2. \A d \in from..to : d \div w \in S /\ d \in P(d \div w)
  BY Zenon
<1>3. \A b \in S : P(b) \subseteq from..to /\ P(b) # {}
  BY Zenon
<1>4. \A b, c \in S : P(b) # P(c) => P(b) \cap P(c) = {}
  BY Zenon
<1> HIDE DEF S, P
<1>5. \A B \in Buckets(from, to, w) : \E b \in S : B = P(b)
  BY Zenon, <1>1
<1>6. \A B \in Buckets(from, to, w) : B # {} /\ B \subseteq from..to
  BY Zenon, <1>3, <1>5
<1>7. \A B, C \in Buckets(from, to, w) : B # C => B \cap C = {}
  BY Zenon, <1>4, <1>5
<1>8. \A d \in from..to : \E B \in Buckets(from, to, w) : d \in B
  BY Zenon, <1>1, <1>2
<1>9. UNION Buckets(from, to, w) = from..to
  BY Zenon, <1>6, <1>8
<1> QED
  BY Zenon, <1>6, <1>7, <1>9

=============================================================================
