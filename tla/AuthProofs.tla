----------------------------- MODULE AuthProofs -----------------------------
(***************************************************************************)
(* The safety of the two limiters in front of the server, for any limits,  *)
(* table sizes and numbers of requests: the limiter of failed passwords    *)
(* (Auth), with the sessions, and the token buckets (RateLimit).           *)
(*                                                                         *)
(* For Auth the strengthening says that a request is counted under the     *)
(* client that sent it, that wrong passwords are told apart, and that the  *)
(* table holds one row a client, within its capacity.                      *)
(***************************************************************************)
EXTENDS Auth, RateLimit, FiniteSetTheorems, TLAPS

Clients == {s.client : s \in Sources}

ReqRecord ==
  [pc : {"hash", "failure", "issue", "success"}, key : Clients, client : Clients, kind : {"issue", "success"}]

WrongRecord == [client : Clients, at : Nat, id : Nat]

AttemptRecord == [key : Clients, failures : Nat, resetAt : Nat, seen : Nat]

PlainTypes ==
  /\ now \in Nat /\ now <= MaxTime
  /\ issued \in Nat /\ issued <= MaxTokens
  /\ hash \in Passwords \cup {NoHash}
  /\ server \in {"down", "ensure", "up"}
  /\ \A s \in sessions : s.token \in 1..issued /\ s.expires \in 0..(MaxTime + SessionTTL)

ReqInv ==
  /\ req \in [Requests -> {Idle} \cup ReqRecord]
  /\ \A r \in Requests : req[r] # Idle => server = "up" /\ req[r].key = req[r].client

Together(c, t) == {w \in wrong : w.client = c /\ w.at = t}

WrongInv ==
  /\ wrong \subseteq WrongRecord /\ IsFiniteSet(wrong) /\ Cardinality(wrong) <= MaxWrong
  /\ \A w \in wrong : w.at <= now /\ w.id < Cardinality(Together(w.client, w.at))

(* The wrong passwords of a row's client since its window opened. *)
Own(a) == {w \in wrong : w.client = a.key /\ w.at \in a.resetAt - Window..now}

RowOK(a) ==
  /\ a.failures >= 1 /\ a.failures <= Cardinality(Own(a))
  /\ a.seen <= now /\ a.resetAt <= now + Window

TableInv ==
  /\ attempts \subseteq AttemptRecord
  /\ IsFiniteSet(attempts) /\ Cardinality(attempts) <= MaxClients
  /\ \A a, b \in attempts : a.key = b.key => a = b
  /\ \A a \in attempts : RowOK(a)

IInv == PlainTypes /\ ReqInv /\ WrongInv /\ TableInv /\ AttemptsBounded

-----------------------------------------------------------------------------
(* Helpers. *)

\* A request is counted under the client that sent it.
LEMMA KeyIsClient ==
  ASSUME NEW s \in Sources
  PROVE  ClientKey(s) = s.client /\ s.client \in Clients
BY Zenon, SourceAssumption DEF ClientKey, ClientIP, Clients

\* What is counted is finite.
LEMMA Counts ==
  ASSUME IInv, NEW k
  PROVE  /\ \A a : IsFiniteSet(Own(a)) /\ Cardinality(Own(a)) \in Nat /\ Cardinality(Own(a)) <= Cardinality(wrong)
         /\ IsFiniteSet(InFlight(k)) /\ Cardinality(InFlight(k)) \in Nat
         /\ Cardinality(InFlight(k)) <= Cardinality(Requests)
         /\ Cardinality(Requests) \in Nat /\ Cardinality(wrong) \in Nat
<1>1. IsFiniteSet(wrong) /\ Cardinality(wrong) \in Nat /\ IsFiniteSet(Requests) /\ Cardinality(Requests) \in Nat
  BY Zenon, AuthAssumption, FS_CardinalityType DEF IInv, WrongInv
<1>2. ASSUME NEW a
      PROVE  IsFiniteSet(Own(a)) /\ Cardinality(Own(a)) \in Nat /\ Cardinality(Own(a)) <= Cardinality(wrong)
  <2>1. Own(a) \in SUBSET wrong
    BY Zenon DEF Own
  <2> QED
    BY Zenon, <1>1, <2>1, FS_Subset, FS_CardinalityType
<1>3. InFlight(k) \in SUBSET Requests
  BY Zenon DEF InFlight
<1> QED
  BY Zenon, <1>1, <1>2, <1>3, FS_Subset, FS_CardinalityType

\* Time passes and rows may go, but nothing is counted.
LEMMA TablePart ==
  ASSUME IInv, attempts' \subseteq attempts, wrong' = wrong, now' \in Nat, now <= now'
  PROVE  TableInv' /\ WrongInv'
<1>1. now \in Nat /\ Window \in Nat
  BY Zenon, AuthAssumption DEF IInv, PlainTypes
<1>2. WrongInv'
  <2>1. \A w \in wrong : w.at \in Nat /\ w.at <= now /\ w.id < Cardinality(Together(w.client, w.at))
    BY Zenon DEF IInv, WrongInv, WrongRecord
  <2>2. \A w \in wrong : w.at <= now' /\ w.id < Cardinality(Together(w.client, w.at))'
    BY <1>1, <2>1 DEF Together
  <2> QED
    BY Zenon, <2>2 DEF IInv, WrongInv
<1>3. IsFiniteSet(attempts') /\ Cardinality(attempts') <= MaxClients
  <2>1. IsFiniteSet(attempts) /\ Cardinality(attempts) <= MaxClients /\ Cardinality(attempts) \in Nat
    BY Zenon, FS_CardinalityType DEF IInv, TableInv
  <2>2. IsFiniteSet(attempts') /\ Cardinality(attempts') <= Cardinality(attempts) /\ Cardinality(attempts') \in Nat
    BY Zenon, <2>1, FS_Subset, FS_CardinalityType
  <2> QED
    BY <2>1, <2>2, AuthAssumption
<1>4. ASSUME NEW a \in attempts'
      PROVE  RowOK(a)'
  <2>1. a \in AttemptRecord /\ RowOK(a)
    BY Zenon, <1>4 DEF IInv, TableInv
  <2>2. Own(a) \in SUBSET Own(a)' /\ Own(a)' \in SUBSET wrong
    <3>1. \A t : t \in a.resetAt - Window..now => t \in a.resetAt - Window..now'
      BY <1>1, <2>1 DEF AttemptRecord
    <3> QED
      BY Zenon, <3>1 DEF Own
  <2>3. IsFiniteSet(Own(a)') /\ Cardinality(Own(a)') \in Nat
    BY Zenon, <2>2, FS_Subset, FS_CardinalityType DEF IInv, WrongInv
  <2>4. Cardinality(Own(a)) <= Cardinality(Own(a)') /\ Cardinality(Own(a)) \in Nat
    BY Zenon, <2>2, <2>3, FS_Subset, Counts
  <2>5. a.failures \in Nat /\ a.seen \in Nat /\ a.resetAt \in Nat
    BY Zenon, <2>1 DEF AttemptRecord
  <2>6. a.failures >= 1 /\ a.failures <= Cardinality(Own(a)) /\ a.seen <= now /\ a.resetAt <= now + Window
    BY Zenon, <2>1 DEF RowOK
  <2>7. a.failures <= Cardinality(Own(a)') /\ a.seen <= now' /\ a.resetAt <= now' + Window
    BY <1>1, <2>3, <2>4, <2>5, <2>6
  <2> QED
    BY Zenon, <2>6, <2>7 DEF RowOK
<1> QED
  BY Zenon, <1>2, <1>3, <1>4 DEF IInv, TableInv

\* Nor are more requests under way.
LEMMA BoundStays ==
  ASSUME IInv, attempts' \subseteq attempts, now' \in Nat, now <= now',
         \A k : InFlight(k)' \subseteq InFlight(k)
  PROVE  AttemptsBounded'
<1> SUFFICES ASSUME NEW a \in attempts', Live(a)'
             PROVE  a.failures + Cardinality(InFlight(a.key)') < Limit + Cardinality(Requests)
  BY Zenon DEF AttemptsBounded, InFlight
<1>1. a \in attempts /\ a.failures \in Nat /\ a.resetAt \in Nat /\ now \in Nat
  BY Zenon DEF IInv, TableInv, AttemptRecord, PlainTypes
<1>2. Live(a)
  BY <1>1 DEF Live
<1>3. a.failures + Cardinality(InFlight(a.key)) < Limit + Cardinality(Requests)
  BY Zenon, <1>1, <1>2 DEF IInv, AttemptsBounded
<1>4. IsFiniteSet(InFlight(a.key)) /\ Cardinality(InFlight(a.key)) \in Nat /\ Cardinality(Requests) \in Nat
  BY Zenon, Counts
<1>5. Cardinality(InFlight(a.key)') <= Cardinality(InFlight(a.key)) /\ Cardinality(InFlight(a.key)') \in Nat
  BY Zenon, <1>4, FS_Subset, FS_CardinalityType
<1> QED
  BY <1>1, <1>3, <1>4, <1>5, AuthAssumption


-----------------------------------------------------------------------------
(* The steps. *)

\* A step that counts nothing and starts no request.
LEMMA CalmKeeps ==
  ASSUME IInv, PlainTypes', ReqInv', attempts' \subseteq attempts, wrong' = wrong, now <= now',
         \A k : InFlight(k)' \subseteq InFlight(k)
  PROVE  IInv'
<1>1. now' \in Nat
  BY Zenon DEF PlainTypes
<1> QED
  BY Zenon, <1>1, TablePart, BoundStays DEF IInv

\* The password is set, or the server starts with one.
LEMMA PasswordKeeps ==
  ASSUME IInv, \/ \E p \in Passwords : SetAdminPassword(p) \/ EnsureAdminPassword(p)
               \/ StartProduction \/ StartDevelopment
  PROVE  IInv'
<1>1. /\ UNCHANGED <<now, issued, sessions, attempts, req, wrong>>
      /\ hash' \in Passwords \cup {NoHash} /\ server' \in {"down", "ensure", "up"}
      /\ server = "up" => server' = "up"
  BY Zenon DEF SetAdminPassword, EnsureAdminPassword, StartProduction, StartDevelopment, IInv, PlainTypes
<1>2. PlainTypes' /\ now <= now'
  BY <1>1 DEF IInv, PlainTypes
<1>3. ReqInv'
  BY Zenon, <1>1 DEF IInv, ReqInv
<1>4. \A k : InFlight(k)' \subseteq InFlight(k)
  BY Zenon, <1>1 DEF InFlight
<1> QED
  BY Zenon, <1>1, <1>2, <1>3, <1>4, CalmKeeps

\* Sessions end with a logout, and time passes.
LEMMA LogoutTickKeeps ==
  ASSUME IInv, Tick \/ \E t \in 1..issued : Logout(t)
  PROVE  IInv'
<1>1. /\ UNCHANGED <<hash, issued, server, attempts, req, wrong>> /\ sessions' \subseteq sessions
      /\ now' \in Nat /\ now <= now' /\ now' <= MaxTime
  BY AuthAssumption DEF Tick, Logout, IInv, PlainTypes
<1>2. PlainTypes'
  BY Zenon, <1>1 DEF IInv, PlainTypes
<1>3. ReqInv'
  BY Zenon, <1>1 DEF IInv, ReqInv
<1>4. \A k : InFlight(k)' \subseteq InFlight(k)
  BY Zenon, <1>1 DEF InFlight
<1> QED
  BY Zenon, <1>1, <1>2, <1>3, <1>4, CalmKeeps

\* The server stops.
LEMMA StopKeeps ==
  ASSUME IInv, Stop
  PROVE  IInv'
<1>1. /\ UNCHANGED <<now, hash, issued>> /\ server' = "down" /\ sessions' = {} /\ attempts' = {} /\ wrong' = {}
      /\ req' = [r \in Requests |-> Idle]
  BY Zenon DEF Stop
<1>2. PlainTypes' /\ ReqInv'
  BY Zenon, <1>1 DEF IInv, PlainTypes, ReqInv
<1>3. IsFiniteSet({}) /\ Cardinality({}) = 0 /\ 0 <= MaxWrong /\ 0 <= MaxClients
  BY FS_EmptySet, AuthAssumption
<1>4. WrongInv' /\ TableInv' /\ AttemptsBounded'
  BY Zenon, <1>1, <1>3 DEF WrongInv, TableInv, AttemptsBounded
<1> QED
  BY Zenon, <1>2, <1>4 DEF IInv

\* One request moves; the others stay.
LEMMA ReqMoves ==
  ASSUME ReqInv, NEW r \in Requests, NEW v \in {Idle} \cup ReqRecord, req' = [req EXCEPT ![r] = v],
         server' = server, v # Idle => server = "up" /\ v.key = v.client
  PROVE  /\ ReqInv' /\ req'[r] = v
         /\ \A q \in Requests : q # r => req'[q] = req[q]
BY Zenon DEF ReqInv

\* A request under way has a client.
LEMMA UnderWay ==
  ASSUME IInv, NEW r \in Requests, req[r].pc # "idle"
  PROVE  req[r] \in ReqRecord /\ req[r].key = req[r].client /\ server = "up" /\ req[r] # Idle
BY DEF IInv, ReqInv, Idle

\* A request arrives: refused, or under way with a count below the limit.
LEMMA ArrivesKeeps ==
  ASSUME IInv, NEW r \in Requests, NEW s \in Sources, NEW kind \in {"issue", "success"}, Arrives(r, s, kind)
  PROVE  IInv'
<1>1. PICK k \in Clients : k = ClientKey(s) /\ k = s.client
  BY Zenon, KeyIsClient
<1>2. /\ UNCHANGED <<now, hash, server, sessions, issued, wrong>> /\ server = "up" /\ req[r] = Idle
      /\ attempts' = Checked(k)
  BY Zenon, <1>1 DEF Arrives
<1>3. attempts' \subseteq attempts /\ now \in Nat /\ now <= now'
  BY <1>2 DEF Checked, IInv, PlainTypes
<1>4. PlainTypes'
  BY Zenon, <1>2 DEF IInv, PlainTypes
<1>5. CASE Limited(k)
  <2>1. req' = req
    BY Zenon, <1>1, <1>2, <1>5 DEF Arrives, IInv, ReqInv
  <2>2. ReqInv' /\ \A j : InFlight(j)' \subseteq InFlight(j)
    BY Zenon, <1>2, <2>1 DEF IInv, ReqInv, InFlight
  <2> QED
    BY Zenon, <1>2, <1>3, <1>4, <2>2, CalmKeeps
<1>6. CASE ~Limited(k)
  <2>1. PICK v \in ReqRecord : v = [pc |-> "hash", key |-> k, client |-> k, kind |-> kind]
    BY Zenon DEF ReqRecord
  <2>2. req' = [req EXCEPT ![r] = v] /\ v.key = k /\ v.client = k
    BY Zenon, <1>1, <1>6, <2>1 DEF Arrives
  <2>3. ReqInv' /\ req'[r] = v /\ \A q \in Requests : q # r => req'[q] = req[q]
    BY Zenon, <1>2, <2>2, ReqMoves DEF IInv
  <2>4. AttemptsBounded'
    <3> SUFFICES ASSUME NEW a \in attempts', Live(a)'
                 PROVE  a.failures + Cardinality(InFlight(a.key)') < Limit + Cardinality(Requests)
      BY Zenon DEF AttemptsBounded, InFlight
    <3>1. a \in attempts /\ a.failures \in Nat /\ Live(a)
      BY Zenon, <1>2, <1>3 DEF IInv, TableInv, AttemptRecord, Live
    <3>2. IsFiniteSet(Requests) /\ Cardinality(Requests) \in Nat /\ Limit \in Nat
      BY Zenon, AuthAssumption, FS_CardinalityType
    <3>3. CASE a.key = k
      <4>1. a.failures < Limit
        BY <1>6, <3>1, <3>2, <3>3 DEF Limited, Of
      <4>2. InFlight(a.key)' \in SUBSET Requests
        BY Zenon DEF InFlight
      <4>3. Cardinality(InFlight(a.key)') <= Cardinality(Requests) /\ Cardinality(InFlight(a.key)') \in Nat
        BY Zenon, <3>2, <4>2, FS_Subset, FS_CardinalityType
      <4> QED
        BY <3>1, <3>2, <4>1, <4>3
    <3>4. CASE a.key # k
      <4>1. InFlight(a.key)' = InFlight(a.key)
        BY <1>2, <2>2, <2>3, <3>4 DEF InFlight, Idle
      <4> QED
        BY Zenon, <3>1, <4>1 DEF IInv, AttemptsBounded
    <3> QED
      BY Zenon, <3>3, <3>4
  <2> QED
    BY Zenon, <1>2, <1>3, <1>4, <2>3, <2>4, TablePart DEF IInv
<1> QED
  BY Zenon, <1>5, <1>6

\* A password is checked against the hash, or the request ends.
LEMMA VerifyKeeps ==
  ASSUME IInv, NEW r \in Requests, VerifyErrs(r) \/ \E p \in Passwords : Verify(r, p)
  PROVE  IInv'
<1>1. /\ UNCHANGED <<now, hash, server, sessions, issued, attempts, wrong>> /\ req[r].pc = "hash"
      /\ now <= now'
  BY DEF Verify, VerifyErrs, IInv, PlainTypes
<1>2. PICK v \in {Idle} \cup ReqRecord : /\ req' = [req EXCEPT ![r] = v]
                                         /\ v # Idle => v.key = req[r].key /\ v.client = req[r].client
  <2>1. CASE VerifyErrs(r)
    BY Zenon, <2>1 DEF VerifyErrs
  <2>2. ASSUME NEW p \in Passwords, Verify(r, p)
        PROVE  \E v \in ReqRecord : /\ req' = [req EXCEPT ![r] = v]
                                    /\ v.key = req[r].key /\ v.client = req[r].client
    <3>1. req[r] \in ReqRecord /\ req \in [Requests -> {Idle} \cup ReqRecord]
      BY Zenon, <1>1, UnderWay DEF IInv, ReqInv
    <3>2. PICK pc \in {"failure", "issue", "success"} : req' = [req EXCEPT ![r].pc = pc]
      BY Zenon, <2>2, <3>1 DEF Verify, ReqRecord
    <3>3. PICK v \in ReqRecord : v = [req[r] EXCEPT !.pc = pc]
      BY Zenon, <3>1 DEF ReqRecord
    <3>4. req' = [req EXCEPT ![r] = v] /\ v.key = req[r].key /\ v.client = req[r].client
      BY Zenon, <3>1, <3>2, <3>3 DEF ReqRecord
    <3> QED
      BY Zenon, <3>4
  <2> QED
    BY Zenon, <2>1, <2>2
<1>3. ReqInv' /\ req'[r] = v /\ \A q \in Requests : q # r => req'[q] = req[q]
  BY Zenon, <1>1, <1>2, UnderWay, ReqMoves DEF IInv
<1>4. PlainTypes'
  BY Zenon, <1>1 DEF IInv, PlainTypes
<1>5. \A k : InFlight(k)' \subseteq InFlight(k)
  BY <1>1, <1>2, <1>3 DEF InFlight, Idle
<1> QED
  BY Zenon, <1>1, <1>3, <1>4, <1>5, CalmKeeps


\* A right password is answered with a session.
LEMMA IssueKeeps ==
  ASSUME IInv, NEW r \in Requests, Issue(r)
  PROVE  IInv'
<1>1. /\ UNCHANGED <<now, hash, server, attempts, wrong>> /\ req[r].pc = "issue"
      /\ issued < MaxTokens /\ issued' = issued + 1 /\ now <= now'
      /\ sessions' = Pruned \cup {[token |-> issued + 1, expires |-> now + SessionTTL]}
      /\ req' = [req EXCEPT ![r].pc = "success"]
  BY DEF Issue, IInv, PlainTypes
<1>2. req[r] \in ReqRecord /\ req \in [Requests -> {Idle} \cup ReqRecord] /\ server = "up" /\ req[r].key = req[r].client
  BY Zenon, <1>1, UnderWay DEF IInv, ReqInv
<1>3. PICK v \in ReqRecord : v = [req[r] EXCEPT !.pc = "success"]
  BY Zenon, <1>2 DEF ReqRecord
<1>4. req' = [req EXCEPT ![r] = v] /\ v.key = v.client /\ v.pc = "success"
  BY Zenon, <1>1, <1>2, <1>3 DEF ReqRecord
<1>5. ReqInv' /\ req'[r] = v /\ \A q \in Requests : q # r => req'[q] = req[q]
  BY Zenon, <1>1, <1>2, <1>4, ReqMoves DEF IInv
<1>6. \A k : InFlight(k)' \subseteq InFlight(k)
  BY Zenon, <1>4, <1>5 DEF InFlight
<1>7. PlainTypes'
  <2>1. now \in Nat /\ now <= MaxTime /\ issued \in Nat /\ MaxTime \in Nat /\ MaxTokens \in Nat /\ SessionTTL \in Nat
    BY Zenon, AuthAssumption DEF IInv, PlainTypes
  <2>2. \A s \in sessions' : s.token \in 1..issued' /\ s.expires \in 0..(MaxTime + SessionTTL)
    <3> SUFFICES ASSUME NEW s \in sessions'
                 PROVE  s.token \in 1..issued' /\ s.expires \in 0..(MaxTime + SessionTTL)
      BY Zenon
    <3>1. CASE s \in sessions
      BY <1>1, <2>1, <3>1 DEF IInv, PlainTypes
    <3>2. CASE s \notin sessions
      <4>1. s.token = issued + 1 /\ s.expires = now + SessionTTL
        BY <1>1, <3>2 DEF Pruned
      <4> QED
        BY <1>1, <2>1, <4>1
    <3> QED
      BY Zenon, <3>1, <3>2
  <2>3. issued' \in Nat /\ issued' <= MaxTokens
    BY <1>1, <2>1
  <2> QED
    BY Zenon, <1>1, <2>2, <2>3 DEF IInv, PlainTypes
<1> QED
  BY Zenon, <1>1, <1>5, <1>6, <1>7, CalmKeeps

\* A right password clears the count of its client, and only that.
LEMMA SuccessKeeps ==
  ASSUME IInv, NEW r \in Requests, Success(r)
  PROVE  IInv'
<1>1. /\ UNCHANGED <<now, hash, server, sessions, issued>> /\ req[r].pc = "success"
      /\ attempts' = attempts \ Of(req[r].key) /\ req' = [req EXCEPT ![r] = Idle]
      /\ wrong' = {w \in wrong : w.client # req[r].client} /\ now <= now' /\ now' \in Nat
  BY DEF Success, IInv, PlainTypes
<1>2. PICK k \in Clients : k = req[r].key /\ k = req[r].client
  BY Zenon, <1>1, UnderWay DEF ReqRecord
<1>3. ReqInv' /\ req'[r] = Idle /\ \A q \in Requests : q # r => req'[q] = req[q]
  BY Zenon, <1>1, ReqMoves DEF IInv
<1>4. \A j : InFlight(j)' \subseteq InFlight(j)
  BY <1>1, <1>3 DEF InFlight, Idle
<1>5. PlainTypes' /\ AttemptsBounded'
  <2>1. PlainTypes'
    BY Zenon, <1>1 DEF IInv, PlainTypes
  <2>2. attempts' \subseteq attempts
    BY Zenon, <1>1
  <2> QED
    BY Zenon, <1>1, <1>4, <2>1, <2>2, BoundStays
<1>6. WrongInv'
  <2>1. wrong' \subseteq wrong /\ IsFiniteSet(wrong) /\ Cardinality(wrong) \in Nat /\ Cardinality(wrong) <= MaxWrong
    BY Zenon, <1>1, FS_CardinalityType DEF IInv, WrongInv
  <2>2. IsFiniteSet(wrong') /\ Cardinality(wrong') <= Cardinality(wrong) /\ Cardinality(wrong') \in Nat
    BY Zenon, <2>1, FS_Subset, FS_CardinalityType
  <2>3. Cardinality(wrong') <= MaxWrong
    BY <2>1, <2>2, AuthAssumption
  <2>4. ASSUME NEW w \in wrong'
        PROVE  w.at <= now' /\ w.id < Cardinality(Together(w.client, w.at)')
    <3>1. w \in wrong /\ w.client # k
      BY Zenon, <1>1, <1>2
    <3>2. Together(w.client, w.at)' = Together(w.client, w.at)
      BY Zenon, <1>1, <1>2, <3>1 DEF Together
    <3> QED
      BY Zenon, <1>1, <3>1, <3>2 DEF IInv, WrongInv
  <2>5. \A w \in wrong' : w.at <= now' /\ w.id < Cardinality(Together(w.client, w.at))'
    BY Zenon, <2>4 DEF Together
  <2> QED
    BY Zenon, <2>1, <2>2, <2>3, <2>5 DEF IInv, WrongInv
<1>7. TableInv'
  <2>1. attempts' \in SUBSET attempts /\ IsFiniteSet(attempts) /\ Cardinality(attempts) \in Nat
        /\ Cardinality(attempts) <= MaxClients
    BY Zenon, <1>1, FS_CardinalityType DEF IInv, TableInv
  <2>2. IsFiniteSet(attempts') /\ Cardinality(attempts') <= Cardinality(attempts) /\ Cardinality(attempts') \in Nat
    BY Zenon, <2>1, FS_Subset, FS_CardinalityType
  <2>3. Cardinality(attempts') <= MaxClients
    BY <2>1, <2>2, AuthAssumption
  <2>4. ASSUME NEW a \in attempts'
        PROVE  RowOK(a)'
    <3>1. a \in attempts /\ a.key # k /\ RowOK(a)
      BY Zenon, <1>1, <1>2 DEF Of, IInv, TableInv
    <3>2. Own(a)' = Own(a)
      BY Zenon, <1>1, <1>2, <3>1 DEF Own
    <3> QED
      BY Zenon, <1>1, <3>1, <3>2 DEF RowOK
  <2> QED
    BY Zenon, <2>1, <2>2, <2>3, <2>4 DEF IInv, TableInv
<1> QED
  BY Zenon, <1>3, <1>5, <1>6, <1>7 DEF IInv


\* makeRoom leaves part of the table, below its capacity.
LEMMA MadeRoom ==
  ASSUME IInv, NEW table \in MakeRoom
  PROVE  table \subseteq attempts /\ IsFiniteSet(table) /\ Cardinality(table) < MaxClients
<1> DEFINE live == {a \in attempts : Live(a)}
<1>1. IsFiniteSet(live) /\ Cardinality(live) \in Nat /\ Cardinality(live) <= MaxClients /\ MaxClients \in Nat
      /\ EvictFraction \in Nat \ {0} /\ MaxClients >= EvictFraction
  <2>1. IsFiniteSet(attempts) /\ Cardinality(attempts) \in Nat /\ Cardinality(attempts) <= MaxClients
    BY Zenon, FS_CardinalityType DEF IInv, TableInv
  <2>2. live \in SUBSET attempts
    BY Zenon
  <2>3. IsFiniteSet(live) /\ Cardinality(live) <= Cardinality(attempts) /\ Cardinality(live) \in Nat
    BY Zenon, <2>1, <2>2, FS_Subset, FS_CardinalityType
  <2> QED
    BY <2>1, <2>3, AuthAssumption
<1>2. CASE Cardinality(live) < MaxClients
  BY Zenon, <1>1, <1>2 DEF MakeRoom
<1>3. CASE ~(Cardinality(live) < MaxClients)
  <2>1. PICK gone \in SUBSET live : Cardinality(gone) = Cardinality(live) \div EvictFraction /\ table = live \ gone
    BY Zenon, <1>3 DEF MakeRoom
  <2>2. Cardinality(gone) >= 1 /\ Cardinality(gone) \in Nat
    <3>1. Cardinality(live) = MaxClients
      BY <1>1, <1>3
    <3> QED
      BY <1>1, <2>1, <3>1
  <2>3. gone = live \cap gone
    BY Zenon, <2>1
  <2>4. IsFiniteSet(table) /\ Cardinality(table) = Cardinality(live) - Cardinality(gone)
    <3> HIDE DEF live
    <3>1. IsFiniteSet(live \ gone) /\ Cardinality(live \ gone) = Cardinality(live) - Cardinality(live \cap gone)
      BY Zenon, <1>1, FS_Difference
    <3> QED
      BY Zenon, <2>1, <2>3, <3>1
  <2> QED
    BY <1>1, <2>1, <2>2, <2>4
<1> QED
  BY Zenon, <1>2, <1>3

\* A failure leaves one row of its client, with one failure more, or the
\* first of a new window, and room for it.
LEMMA OneRow ==
  ASSUME IInv, NEW k \in Clients, Failure(k)
  PROVE  \E rest \in SUBSET attempts, t \in AttemptRecord :
           /\ attempts' = rest \cup {t} /\ t.key = k /\ t.seen = now
           /\ \A a \in rest : a.key # k
           /\ IsFiniteSet(rest) /\ Cardinality(rest) < MaxClients
           /\ \/ \E a \in attempts : /\ Live(a) /\ a.key = k
                                     /\ t.failures = a.failures + 1 /\ t.resetAt = a.resetAt
              \/ t.failures = 1 /\ t.resetAt = now + Window
<1>1. PICK table \in IF Of(k) = {} /\ Cardinality(attempts) >= MaxClients THEN MakeRoom ELSE {attempts} :
        attempts' = Counted(k, table)
  BY Zenon DEF Failure
<1>2. /\ IsFiniteSet(attempts) /\ Cardinality(attempts) \in Nat /\ Cardinality(attempts) <= MaxClients
      /\ MaxClients \in Nat /\ attempts \subseteq AttemptRecord
      /\ \A a, b \in attempts : a.key = b.key => a = b
  BY Zenon, FS_CardinalityType, AuthAssumption DEF IInv, TableInv
<1>3. PICK rest \in SUBSET attempts : rest = table \ Of(k)
  BY Zenon, <1>1, MadeRoom
<1>4. IsFiniteSet(rest) /\ Cardinality(rest) < MaxClients
  <2>1. CASE Of(k) = {} /\ Cardinality(attempts) >= MaxClients
    <3>1. table \in MakeRoom /\ rest = table
      BY Zenon, <1>1, <1>3, <2>1
    <3> QED
      BY Zenon, <3>1, MadeRoom
  <2>2. CASE Of(k) = {} /\ ~(Cardinality(attempts) >= MaxClients)
    <3>1. rest = attempts
      BY Zenon, <1>1, <1>3, <2>2
    <3> QED
      BY <1>2, <2>2, <3>1
  <2>3. CASE Of(k) # {}
    <3>1. PICK a \in attempts : Of(k) = {a}
      BY Zenon, <1>2, <2>3 DEF Of
    <3>2. rest = attempts \ {a}
      BY Zenon, <1>1, <1>3, <2>3, <3>1
    <3>3. IsFiniteSet(rest) /\ Cardinality(rest) = Cardinality(attempts) - 1
      BY Zenon, <1>2, <3>1, <3>2, FS_RemoveElement
    <3> QED
      BY <1>2, <3>3
  <2> QED
    BY Zenon, <2>1, <2>2, <2>3
<1>5. \A a \in rest : a.key # k
  BY Zenon, <1>3 DEF Of
<1>6. now \in Nat /\ Window \in Nat
  BY Zenon, AuthAssumption DEF IInv, PlainTypes
<1>7. CASE \E a \in Of(k) : Live(a)
  <2>1. PICK a \in attempts : Of(k) = {a} /\ Live(a) /\ a.key = k /\ a \in AttemptRecord
    BY <1>2, <1>7 DEF Of
  <2>2. PICK t \in AttemptRecord : t = [a EXCEPT !.failures = @ + 1, !.seen = now]
    <3>1. a.failures + 1 \in Nat
      BY <2>1 DEF AttemptRecord
    <3>2. [a EXCEPT !.failures = @ + 1, !.seen = now] \in AttemptRecord
      BY Zenon, <1>6, <2>1, <3>1 DEF AttemptRecord
    <3> QED
      BY Zenon, <3>2
  <2>3. attempts' = rest \cup {t}
    BY Zenon, <1>1, <1>3, <1>7, <2>1, <2>2 DEF Counted
  <2>4. t.key = k /\ t.seen = now /\ t.failures = a.failures + 1 /\ t.resetAt = a.resetAt
    BY Zenon, <2>1, <2>2 DEF AttemptRecord
  <2> QED
    BY Zenon, <1>4, <1>5, <2>1, <2>3, <2>4
<1>8. CASE ~ \E a \in Of(k) : Live(a)
  <2>1. PICK t \in AttemptRecord : t = [key |-> k, failures |-> 1, resetAt |-> now + Window, seen |-> now]
    <3>1. now + Window \in Nat
      BY <1>6
    <3>2. [key |-> k, failures |-> 1, resetAt |-> now + Window, seen |-> now] \in AttemptRecord
      BY Zenon, <1>6, <3>1 DEF AttemptRecord
    <3> QED
      BY Zenon, <3>2
  <2>2. attempts' = rest \cup {t}
    BY Zenon, <1>1, <1>3, <1>8, <2>1 DEF Counted
  <2> QED
    BY Zenon, <1>4, <1>5, <2>1, <2>2
<1> QED
  BY Zenon, <1>7, <1>8


\* A request whose password was wrong is under way no longer.
LEMMA LeavesFlight ==
  ASSUME NEW r \in Requests, req[r].pc = "failure", req'[r] = Idle,
         \A q \in Requests : q # r => req'[q] = req[q]
  PROVE  /\ r \in InFlight(req[r].key)
         /\ \A j : InFlight(j)' = InFlight(j) \ {r}
         /\ \A j : j # req[r].key => InFlight(j)' = InFlight(j)
<1>1. req'[r].pc = "idle"
  BY DEF Idle
<1>2. \A j : InFlight(j)' = {q \in Requests : req'[q].pc \in {"hash", "failure"} /\ req'[q].key = j}
  BY Zenon DEF InFlight
<1>3. ASSUME NEW j
      PROVE  InFlight(j)' = InFlight(j) \ {r}
  <2>1. \A q \in Requests : q \in InFlight(j)' <=> q \in InFlight(j) \ {r}
    BY Zenon, <1>1, <1>2 DEF InFlight
  <2> QED
    BY Zenon, <1>2, <2>1 DEF InFlight
<1>4. r \in InFlight(req[r].key) /\ \A j : j # req[r].key => r \notin InFlight(j)
  BY Zenon DEF InFlight
<1> QED
  BY Zenon, <1>3, <1>4

\* A wrong password is counted once, for the client that sent it.
LEMMA FailsKeeps ==
  ASSUME IInv, NEW r \in Requests, Fails(r)
  PROVE  IInv'
<1>1. /\ UNCHANGED <<now, hash, server, sessions, issued>> /\ req[r].pc = "failure" /\ Cardinality(wrong) < MaxWrong
      /\ Failure(req[r].key) /\ req' = [req EXCEPT ![r] = Idle] /\ now \in Nat /\ Window \in Nat
  BY Zenon, AuthAssumption DEF Fails, IInv, PlainTypes
<1>2. PICK k \in Clients : k = req[r].key /\ k = req[r].client
  BY Zenon, <1>1, UnderWay DEF ReqRecord
<1>3. ReqInv' /\ req'[r] = Idle /\ \A q \in Requests : q # r => req'[q] = req[q]
  BY Zenon, <1>1, ReqMoves DEF IInv
<1>4. PlainTypes'
  BY Zenon, <1>1 DEF IInv, PlainTypes
<1>5. PICK w0 : w0 = [client |-> k, at |-> now, id |-> Cardinality(Together(k, now))]
  BY Zenon
<1>6. wrong' = wrong \cup {w0}
  BY Zenon, <1>2, <1>5 DEF Fails, Together
<1>7. /\ wrong \subseteq WrongRecord /\ IsFiniteSet(wrong) /\ Cardinality(wrong) \in Nat
      /\ \A w \in wrong : w.at <= now /\ w.id \in Nat /\ w.id < Cardinality(Together(w.client, w.at))
  BY Zenon, FS_CardinalityType DEF IInv, WrongInv, WrongRecord
<1>8. \A c, t : IsFiniteSet(Together(c, t)) /\ Cardinality(Together(c, t)) \in Nat
  <2> SUFFICES ASSUME NEW c, NEW t
               PROVE  IsFiniteSet(Together(c, t)) /\ Cardinality(Together(c, t)) \in Nat
    BY Zenon
  <2>1. Together(c, t) \in SUBSET wrong
    BY Zenon DEF Together
  <2> QED
    BY Zenon, <1>7, <2>1, FS_Subset, FS_CardinalityType
<1>9. w0 \notin wrong /\ w0 \in WrongRecord
  BY <1>1, <1>5, <1>7, <1>8 DEF WrongRecord
<1>10. IsFiniteSet(wrong') /\ Cardinality(wrong') = Cardinality(wrong) + 1 /\ Cardinality(wrong') <= MaxWrong
  <2>1. IsFiniteSet(wrong') /\ Cardinality(wrong') = Cardinality(wrong) + 1
    BY Zenon, <1>6, <1>7, <1>9, FS_AddElement
  <2> QED
    BY <1>1, <1>7, <2>1, AuthAssumption
<1>11. WrongInv'
  <2>1. ASSUME NEW w \in wrong'
        PROVE  w.at <= now' /\ w.id < Cardinality(Together(w.client, w.at)')
    <3>1. CASE w = w0
      <4>1. Together(k, now)' = Together(k, now) \cup {w0}
        BY <1>1, <1>5, <1>6 DEF Together
      <4>2. w0 \notin Together(k, now)
        BY Zenon, <1>9 DEF Together
      <4>3. Cardinality(Together(k, now) \cup {w0}) = Cardinality(Together(k, now)) + 1
        BY Zenon, <1>8, <4>2, FS_AddElement
      <4>4. Together(w.client, w.at)' = Together(k, now) \cup {w0}
        BY Zenon, <1>5, <1>6, <3>1 DEF Together
      <4>5. w.at = now /\ w.id = Cardinality(Together(k, now))
        BY <1>5, <3>1
      <4>6. Cardinality(Together(k, now)) \in Nat /\ now \in Nat /\ now' = now
        BY Zenon, <1>1, <1>8
      <4>7. Cardinality(Together(w.client, w.at)') = Cardinality(Together(k, now)) + 1
        BY Zenon, <4>3, <4>4
      <4> QED
        BY <4>5, <4>6, <4>7
    <3>2. CASE w \in wrong
      <4>1. Together(w.client, w.at) \in SUBSET Together(w.client, w.at)'
        BY Zenon, <1>6 DEF Together
      <4>2. Together(w.client, w.at)' \in SUBSET wrong'
        BY Zenon DEF Together
      <4>3. IsFiniteSet(Together(w.client, w.at)') /\ Cardinality(Together(w.client, w.at)') \in Nat
        BY Zenon, <1>10, <4>2, FS_Subset, FS_CardinalityType
      <4>4. Cardinality(Together(w.client, w.at)) <= Cardinality(Together(w.client, w.at)')
        BY Zenon, <4>1, <4>3, FS_Subset
      <4> QED
        BY <1>1, <1>7, <1>8, <3>2, <4>3, <4>4
    <3> QED
      BY Zenon, <1>6, <3>1, <3>2
  <2>2. \A w \in wrong' : w.at <= now' /\ w.id < Cardinality(Together(w.client, w.at))'
    BY Zenon, <2>1 DEF Together
  <2> QED
    BY Zenon, <1>6, <1>7, <1>9, <1>10, <2>2 DEF WrongInv
<1>12. PICK rest \in SUBSET attempts, t \in AttemptRecord :
           /\ attempts' = rest \cup {t} /\ t.key = k /\ t.seen = now
           /\ \A a \in rest : a.key # k
           /\ IsFiniteSet(rest) /\ Cardinality(rest) < MaxClients
           /\ \/ \E a \in attempts : /\ Live(a) /\ a.key = k
                                     /\ t.failures = a.failures + 1 /\ t.resetAt = a.resetAt
              \/ t.failures = 1 /\ t.resetAt = now + Window
  BY <1>1, <1>2, OneRow
<1>13. TableInv'
  <2>1. IsFiniteSet(attempts') /\ Cardinality(attempts') <= MaxClients
    <3>1. t \notin rest /\ Cardinality(rest) \in Nat
      BY Zenon, <1>12, FS_CardinalityType
    <3>2. IsFiniteSet(attempts') /\ Cardinality(attempts') = Cardinality(rest) + 1
      BY Zenon, <1>12, <3>1, FS_AddElement
    <3> QED
      BY <1>12, <3>1, <3>2, AuthAssumption
  <2>2. ASSUME NEW a \in rest
        PROVE  RowOK(a)'
    <3>1. a.key # k /\ RowOK(a)
      BY Zenon, <1>12 DEF IInv, TableInv
    <3>2. Own(a)' = Own(a)
      BY <1>1, <1>5, <1>6, <3>1 DEF Own
    <3> QED
      BY Zenon, <1>1, <3>1, <3>2 DEF RowOK
  <2>3. RowOK(t)'
    <3>1. t.resetAt \in Nat /\ t.resetAt <= now + Window /\ t.failures >= 1
      <4>1. ASSUME NEW a \in attempts, t.failures = a.failures + 1, t.resetAt = a.resetAt
            PROVE  t.resetAt <= now + Window /\ t.failures >= 1
        BY <4>1 DEF IInv, TableInv, RowOK, AttemptRecord
      <4> QED
        BY <1>1, <1>12, <4>1 DEF AttemptRecord
    <3>2. Own(t)' = Own(t) \cup {w0}
      <4>1. now \in t.resetAt - Window..now
        BY <1>1, <3>1
      <4> QED
        BY <1>1, <1>5, <1>6, <1>12, <4>1 DEF Own
    <3>3. IsFiniteSet(Own(t)) /\ Cardinality(Own(t)) \in Nat /\ w0 \notin Own(t)
      BY Zenon, <1>9, Counts DEF Own
    <3>4. Cardinality(Own(t)') = Cardinality(Own(t)) + 1
      BY Zenon, <3>2, <3>3, FS_AddElement
    <3>5. t.failures <= Cardinality(Own(t)')
      <4>1. ASSUME NEW a \in attempts, a.key = k, t.failures = a.failures + 1, t.resetAt = a.resetAt
            PROVE  t.failures <= Cardinality(Own(t)')
        <5>1. Own(a) = Own(t)
          BY Zenon, <1>12, <4>1 DEF Own
        <5>2. a.failures \in Nat /\ a.failures <= Cardinality(Own(t))
          BY Zenon, <5>1 DEF IInv, TableInv, RowOK, AttemptRecord
        <5> QED
          BY <3>3, <3>4, <4>1, <5>2
      <4>2. CASE t.failures = 1
        BY <3>3, <3>4, <4>2
      <4> QED
        BY Zenon, <1>12, <4>1, <4>2
    <3> QED
      BY <1>1, <1>12, <3>1, <3>5 DEF RowOK
  <2>4. attempts' \subseteq AttemptRecord /\ \A a, b \in attempts' : a.key = b.key => a = b
    BY Zenon, <1>12 DEF IInv, TableInv
  <2> QED
    BY Zenon, <1>12, <2>1, <2>2, <2>3, <2>4 DEF TableInv
<1>14. AttemptsBounded'
  <2> SUFFICES ASSUME NEW a \in attempts', Live(a)'
               PROVE  a.failures + Cardinality(InFlight(a.key)') < Limit + Cardinality(Requests)
    BY Zenon DEF AttemptsBounded, InFlight
  <2>1. CASE a \in rest
    <3>1. InFlight(a.key)' = InFlight(a.key)
      BY Zenon, <1>1, <1>2, <1>3, <1>12, <2>1, LeavesFlight
    <3> QED
      BY Zenon, <1>1, <2>1, <3>1 DEF IInv, AttemptsBounded, Live
  <2>2. CASE a = t
    <3>1. InFlight(k)' = InFlight(k) \ {r} /\ r \in InFlight(k)
      BY Zenon, <1>1, <1>2, <1>3, LeavesFlight
    <3>2. /\ IsFiniteSet(InFlight(k)) /\ Cardinality(InFlight(k)) \in Nat
          /\ Cardinality(InFlight(k)) <= Cardinality(Requests) /\ Cardinality(Requests) \in Nat
      BY Zenon, Counts
    <3>3. Cardinality(InFlight(k)') = Cardinality(InFlight(k)) - 1
      BY <3>1, <3>2, FS_RemoveElement
    <3>4. a.key = k /\ Limit \in Nat /\ Limit >= 1
      BY <1>12, <2>2, AuthAssumption
    <3>5. ASSUME NEW b \in attempts, Live(b), b.key = k, t.failures = b.failures + 1
          PROVE  a.failures + Cardinality(InFlight(k)') < Limit + Cardinality(Requests)
      <4>1. b.failures \in Nat /\ b.failures + Cardinality(InFlight(k)) < Limit + Cardinality(Requests)
        BY Zenon, <3>5 DEF IInv, TableInv, AttemptRecord, AttemptsBounded
      <4> QED
        BY <2>2, <3>2, <3>3, <3>4, <3>5, <4>1
    <3>6. ASSUME t.failures = 1
          PROVE  a.failures + Cardinality(InFlight(k)') < Limit + Cardinality(Requests)
      <4> DEFINE n == Cardinality(InFlight(k)) m == Cardinality(InFlight(k)') q == Cardinality(Requests)
      <4>1. n \in Nat /\ m = n - 1 /\ n <= q /\ q \in Nat /\ a.failures = 1
        BY Zenon, <2>2, <3>2, <3>3, <3>6
      <4> HIDE DEF n, m, q
      <4>2. a.failures + m < Limit + q
        BY <3>4, <4>1
      <4> QED
        BY Zenon, <4>2 DEF m, q
    <3>7. a.failures + Cardinality(InFlight(k)') < Limit + Cardinality(Requests)
      BY Zenon, <1>12, <3>5, <3>6
    <3> QED
      BY Zenon, <3>4, <3>7
  <2> QED
    BY Zenon, <1>12, <2>1, <2>2
<1> QED
  BY Zenon, <1>3, <1>4, <1>11, <1>13, <1>14 DEF IInv


-----------------------------------------------------------------------------
(* The results about passwords and sessions. *)

\* Nothing has been counted at first.
LEMMA InitAuth == Init => IInv
<1> SUFFICES ASSUME Init PROVE IInv
  BY Zenon
<1>1. IsFiniteSet({}) /\ Cardinality({}) = 0
  BY Zenon, FS_EmptySet
<1>2. PlainTypes
  BY AuthAssumption DEF Init, PlainTypes
<1>3. ReqInv
  BY Zenon DEF Init, ReqInv
<1>4. WrongInv /\ TableInv /\ AttemptsBounded
  BY <1>1, AuthAssumption DEF Init, WrongInv, TableInv, AttemptsBounded
<1> QED
  BY Zenon, <1>2, <1>3, <1>4 DEF IInv

\* Every step keeps the invariant.
LEMMA NextAuth == IInv /\ [Next]_vars => IInv'
<1> SUFFICES ASSUME IInv, [Next]_vars PROVE IInv'
  BY Zenon
<1>1. CASE \E p \in Passwords : SetAdminPassword(p) \/ EnsureAdminPassword(p)
  BY Zenon, <1>1, PasswordKeeps
<1>2. CASE StartProduction \/ StartDevelopment
  BY Zenon, <1>2, PasswordKeeps
<1>3. CASE Stop
  BY Zenon, <1>3, StopKeeps
<1>4. CASE \E r \in Requests, s \in Sources : Login(r, s) \/ \E t \in 1..issued : StepUp(r, s, t)
  BY Zenon, <1>4, ArrivesKeeps DEF Login, StepUp
<1>5. CASE \E r \in Requests : VerifyErrs(r) \/ \E p \in Passwords : Verify(r, p)
  BY Zenon, <1>5, VerifyKeeps
<1>6. CASE \E r \in Requests : Fails(r)
  BY Zenon, <1>6, FailsKeeps
<1>7. CASE \E r \in Requests : Issue(r)
  BY <1>7, IssueKeeps
<1>8. CASE \E r \in Requests : Success(r)
  BY <1>8, SuccessKeeps
<1>9. CASE Tick \/ \E t \in 1..issued : Logout(t)
  BY Zenon, <1>9, LogoutTickKeeps
<1>10. CASE UNCHANGED vars
  <2>1. UNCHANGED <<now, hash, server, sessions, issued, attempts, req, wrong>> /\ now <= now'
    BY <1>10 DEF vars, IInv, PlainTypes
  <2>2. PlainTypes' /\ ReqInv' /\ \A k : InFlight(k)' \subseteq InFlight(k)
    BY Zenon, <2>1 DEF IInv, PlainTypes, ReqInv, InFlight
  <2> QED
    BY Zenon, <2>1, <2>2, CalmKeeps
<1> QED
  BY Zenon, <1>1, <1>2, <1>3, <1>4, <1>5, <1>6, <1>7, <1>8, <1>9, <1>10 DEF Next

(* In every reachable state of logins, step-ups, restarts and password changes,
   requests are counted under the client they came from, each wrong password
   once, and the table is within its capacity. *)
THEOREM AuthInductive == Spec => []IInv
<1> QED
  BY InitAuth, NextAuth, PTL DEF Spec

\* The invariant gives the types, and whose failures are counted.
LEMMA OwnFromInv == IInv => OwnFailures
<1> SUFFICES ASSUME IInv PROVE OwnFailures
  BY Zenon
<1>1. \A a \in attempts :
        a.failures <= Cardinality({w \in wrong : w.client = a.key /\ w.at \in a.resetAt - Window..now})
  BY Zenon DEF IInv, TableInv, RowOK, Own
<1>2. ASSUME NEW a \in attempts
      PROVE  a.failures \in 1..MaxWrong /\ a.seen \in 0..now /\ Of(a.key) = {a}
  <2>1. a.failures \in Nat /\ a.failures >= 1 /\ a.failures <= Cardinality(Own(a)) /\ a.seen \in Nat /\ a.seen <= now
    BY Zenon DEF IInv, TableInv, RowOK, AttemptRecord
  <2>2. /\ Cardinality(Own(a)) \in Nat /\ Cardinality(Own(a)) <= Cardinality(wrong)
        /\ Cardinality(wrong) \in Nat /\ Cardinality(wrong) <= MaxWrong /\ MaxWrong \in Nat /\ now \in Nat
    BY Zenon, Counts, AuthAssumption DEF IInv, WrongInv, PlainTypes
  <2>3. a.failures \in 1..MaxWrong /\ a.seen \in 0..now
    BY <2>1, <2>2
  <2>4. Of(a.key) = {a}
    BY Zenon DEF IInv, TableInv, Of
  <2> QED
    BY Zenon, <2>3, <2>4
<1>3. now \in 0..MaxTime /\ issued \in 0..MaxTokens
  BY AuthAssumption DEF IInv, PlainTypes
<1>4. \A s \in sessions : s.token \in 1..issued /\ s.expires \in 0..MaxTime + SessionTTL
  BY Zenon DEF IInv, PlainTypes
<1>5. \A r \in Requests : req[r].pc \in {"idle", "hash", "failure", "issue", "success"}
  BY DEF IInv, ReqInv, ReqRecord, Idle
<1>6. server # "up" => \A r \in Requests : req[r] = Idle
  BY Zenon DEF IInv, ReqInv
<1>7. TypeOK
  BY Zenon, <1>2, <1>3, <1>4, <1>5, <1>6 DEF TypeOK, IInv, PlainTypes, TableInv
<1> QED
  BY Zenon, <1>1, <1>7 DEF OwnFailures

(* However requests interleave between the check, the hash and the count, and
   whatever proxies and headers they come with, a client's row counts only
   wrong passwords it sent itself since its window opened and since its last
   right one; the table never exceeds its capacity. *)
THEOREM CountsOwnFailures == Spec => []OwnFailures
<1> QED
  BY AuthInductive, OwnFromInv, PTL

(* Requests that passed the check together may all be counted after it, but
   the failures of a window stay below the limit and the requests there can
   be at once. *)
THEOREM ExcessIsBounded == Spec => []AttemptsBounded
<1>1. IInv => AttemptsBounded
  BY Zenon DEF IInv
<1> QED
  BY <1>1, AuthInductive, PTL

\* What a step does to the validity of a token issued before it.
LEMMA SessionStep ==
  ASSUME IInv, Next, NEW t \in 1..issued
  PROVE  /\ ~Valid(t) => ~Valid(t)'
         /\ Valid(t) /\ ~Valid(t)' => Logout(t) \/ Tick \/ Stop
<1>1. now \in Nat /\ issued \in Nat /\ \A s \in sessions : s.expires \in Nat
  <2>1. MaxTime + SessionTTL \in Nat
    BY AuthAssumption
  <2> QED
    BY <2>1 DEF IInv, PlainTypes
<1>2. CASE UNCHANGED <<sessions, now>>
  BY Zenon, <1>2 DEF Valid
<1>3. CASE Stop
  BY Zenon, <1>3 DEF Stop, Valid
<1>4. CASE Tick
  <2>1. sessions' = sessions /\ now' = now + 1
    BY Zenon, <1>4 DEF Tick
  <2>2. \A s \in sessions : now' <= s.expires => now <= s.expires
    BY <1>1, <2>1
  <2> QED
    BY Zenon, <1>4, <2>1, <2>2 DEF Valid
<1>5. ASSUME NEW u \in 1..issued, Logout(u)
      PROVE  /\ ~Valid(t) => ~Valid(t)'
             /\ Valid(t) /\ ~Valid(t)' => Logout(t) \/ Tick \/ Stop
  <2>1. sessions' = {s \in sessions : s.token # u} /\ now' = now
    BY Zenon, <1>5 DEF Logout
  <2> QED
    BY Zenon, <1>5, <2>1 DEF Valid
<1>6. ASSUME NEW r \in Requests, Issue(r)
      PROVE  /\ ~Valid(t) => ~Valid(t)'
             /\ Valid(t) /\ ~Valid(t)' => Logout(t) \/ Tick \/ Stop
  <2>1. PICK s0 : s0 = [token |-> issued + 1, expires |-> now + SessionTTL]
    BY Zenon
  <2>2. sessions' = {s \in sessions : now <= s.expires} \cup {s0} /\ now' = now /\ s0.token # t
    BY <1>1, <1>6, <2>1 DEF Issue, Pruned
  <2> QED
    BY Zenon, <2>2 DEF Valid
<1>7. ASSUME NEW r \in Requests, NEW s \in Sources, Login(r, s) \/ \E u \in 1..issued : StepUp(r, s, u)
      PROVE  UNCHANGED <<sessions, now>>
  BY Zenon, <1>7 DEF Login, StepUp, Arrives
<1>8. ASSUME NEW r \in Requests,
             VerifyErrs(r) \/ Fails(r) \/ Success(r) \/ \E p \in Passwords : Verify(r, p)
      PROVE  UNCHANGED <<sessions, now>>
  BY Zenon, <1>8 DEF VerifyErrs, Fails, Success, Verify
<1>9. ASSUME \/ \E p \in Passwords : SetAdminPassword(p) \/ EnsureAdminPassword(p)
             \/ StartProduction \/ StartDevelopment
      PROVE  UNCHANGED <<sessions, now>>
  BY Zenon, <1>9 DEF SetAdminPassword, EnsureAdminPassword, StartProduction, StartDevelopment
<1> QED
  BY Zenon, <1>2, <1>3, <1>4, <1>5, <1>6, <1>7, <1>8, <1>9 DEF Next

(* A token that stopped being valid stays so for good, though new ones are
   issued all along; and only its own logout, the clock or a restart ends it,
   never the pruning of another login. *)
THEOREM SessionsEndOnce == Spec => SessionLife
<1>1. IInv /\ [Next]_vars =>
        [\A t \in 1..issued :
           /\ ~Valid(t) => ~Valid(t)'
           /\ Valid(t) /\ ~Valid(t)' => Logout(t) \/ Tick \/ Stop]_vars
  BY Zenon, SessionStep
<1> QED
  BY <1>1, AuthInductive, PTL DEF Spec, SessionLife

-----------------------------------------------------------------------------
(* The token buckets.  The strengthening is an account of each entry: what  *)
(* its bucket holds and what it admitted were earned by the burst, by the   *)
(* time up to its last event, or by the lateness of its calls.              *)

EntryRecord ==
  [key : Keys, level : Int, last : Int, seen : Int, born : Int, admitted : Nat, late : Nat]

Account(e) ==
  /\ 0 <= e.level /\ e.level <= Full
  /\ e.last <= clock
  /\ e.level + e.admitted * Every <= Full + (e.last - e.born) + e.late

CallsOK ==
  /\ clock \in Nat
  /\ DOMAIN call = Calls
  /\ \A c \in Calls : call[c] = NoCall \/ (call[c] \in [key : Keys, at : Nat] /\ call[c].at <= clock)

TableOK ==
  /\ IsFiniteSet(entries) /\ Cardinality(entries) <= MaxKeys
  /\ \A e, f \in entries : e.key = f.key => e = f

EntriesOK == entries \subseteq EntryRecord /\ \A e \in entries : Account(e)

BucketInv == CallsOK /\ TableOK /\ EntriesOK

-----------------------------------------------------------------------------
\* A full bucket admits at least one event.
LEMMA FullFacts == Full \in Nat /\ Every \in Nat /\ Every >= 1 /\ Full >= Every
BY RateLimitAssumption DEF Full

\* Refill keeps to the burst and earns at most the time since the last event.
LEMMA RefillFacts ==
  ASSUME NEW e \in EntryRecord, NEW at \in Nat, 0 <= e.level, e.level <= Full
  PROVE  /\ Refill(e, at) \in Int /\ 0 <= Refill(e, at) /\ Refill(e, at) <= Full
         /\ at < e.last => Refill(e, at) <= e.level
         /\ at >= e.last => Refill(e, at) <= e.level + (at - e.last)
BY FullFacts DEF Refill, EntryRecord

\* Taking a token keeps the account of its entry.
LEMMA TakenKeeps ==
  ASSUME NEW e \in EntryRecord, NEW at \in Nat, at <= clock, clock \in Nat, Account(e)
  PROVE  Taken(e, at) \in EntryRecord /\ Taken(e, at).key = e.key /\ Account(Taken(e, at))
<1> DEFINE s == [e EXCEPT !.seen = at]
<1>1. s \in EntryRecord /\ s.key = e.key /\ Account(s)
  BY DEF EntryRecord, Account
<1>2. CASE Refill(e, at) < Every
  BY Zenon, <1>1, <1>2 DEF Taken
<1>3. CASE ~(Refill(e, at) < Every)
  <2>1. PICK r \in Int : r = Refill(s, at) /\ r = Refill(e, at) /\ r >= Every /\ r <= Full
            /\ (at < e.last => r <= e.level) /\ (at >= e.last => r <= e.level + (at - e.last))
    BY <1>1, <1>3, RefillFacts, FullFacts DEF Refill, EntryRecord, Account
  <2>2. PICK t : t = [key |-> e.key, level |-> r - Every, last |-> at, seen |-> at, born |-> e.born,
                      admitted |-> e.admitted + 1, late |-> e.late + (clock - at)]
    BY Zenon
  <2>3. Taken(e, at) = t
    <3>1. Taken(e, at) = Spend(s, at)
      BY Zenon, <1>3 DEF Taken
    <3>2. Spend(s, at) = [s EXCEPT !.level = r - Every, !.last = at, !.admitted = e.admitted + 1,
                                   !.late = e.late + (clock - at)]
      BY Zenon, <2>1 DEF Spend, EntryRecord
    <3>3. e = [key |-> e.key, level |-> e.level, last |-> e.last, seen |-> e.seen, born |-> e.born,
               admitted |-> e.admitted, late |-> e.late]
      BY Zenon DEF EntryRecord
    <3>4. s = [key |-> e.key, level |-> e.level, last |-> e.last, seen |-> at, born |-> e.born,
               admitted |-> e.admitted, late |-> e.late]
      BY <3>3
    <3> HIDE DEF s
    <3> QED
      BY <2>2, <3>1, <3>2, <3>4
  <2>4. t \in EntryRecord
    BY <2>1, <2>2, FullFacts DEF EntryRecord
  <2>5. (e.admitted + 1) * Every = e.admitted * Every + Every /\ e.admitted * Every \in Int
    BY FullFacts DEF EntryRecord
  <2>6. PICK spent \in Int : spent = e.admitted * Every
    BY Zenon, <2>5
  <2>7. e.level + spent <= Full + (e.last - e.born) + e.late /\ e.last <= clock
    BY Zenon, <2>6 DEF Account
  <2>8. (r - Every) + (spent + Every) <= Full + (at - e.born) + (e.late + (clock - at))
    BY <2>1, <2>7, FullFacts DEF EntryRecord
  <2>9. Account(t)
    BY <2>1, <2>2, <2>5, <2>6, <2>8, FullFacts DEF Account
  <2> QED
    BY <2>2, <2>3, <2>4, <2>9
<1> QED
  BY Zenon, <1>2, <1>3

\* makeRoom leaves a part of the table, with room for one.
LEMMA RoomFacts ==
  ASSUME TableOK, NEW at, NEW table \in BucketRoom(at)
  PROVE  table \subseteq entries /\ IsFiniteSet(table) /\ Cardinality(table) < MaxKeys
<1> DEFINE live == {e \in entries : at - e.seen <= IdleAfter}
<1>1. IsFiniteSet(live) /\ Cardinality(live) \in Nat /\ Cardinality(live) <= MaxKeys /\ MaxKeys \in Nat
  BY FS_Subset, FS_CardinalityType, RateLimitAssumption DEF TableOK
<1>2. CASE Cardinality(live) < MaxKeys
  BY Zenon, <1>1, <1>2 DEF BucketRoom
<1>3. CASE ~(Cardinality(live) < MaxKeys)
  <2>1. PICK gone \in SUBSET live : Dropped(live, gone) /\ table = live \ gone
    BY Zenon, <1>3 DEF BucketRoom
  <2>2. Cardinality(gone) = MaxKeys \div KeyFraction
    BY <1>1, <1>3, <2>1 DEF Dropped
  <2>3. Cardinality(gone) >= 1 /\ Cardinality(gone) \in Nat
    BY <1>1, <2>2, RateLimitAssumption
  <2>4. gone = live \cap gone
    BY Zenon, <2>1
  <2>5. IsFiniteSet(table) /\ Cardinality(table) = Cardinality(live) - Cardinality(gone)
    <3> HIDE DEF live
    <3>1. IsFiniteSet(live \ gone) /\ Cardinality(live \ gone) = Cardinality(live) - Cardinality(live \cap gone)
      BY Zenon, <1>1, FS_Difference
    <3> QED
      BY Zenon, <2>1, <2>4, <3>1
  <2> QED
    BY <1>1, <2>1, <2>3, <2>5
<1> QED
  BY Zenon, <1>2, <1>3

-----------------------------------------------------------------------------
\* Nothing is in the table at first.
LEMMA InitBucketInv == BucketInit => BucketInv
BY FS_EmptySet, RateLimitAssumption DEF BucketInit, BucketInv, CallsOK, TableOK, EntriesOK

\* Calls come and time passes.
LEMMA OutsideSteps ==
  ASSUME BucketInv, ClockTick \/ \E c \in Calls, k \in Keys : Begin(c, k)
  PROVE  BucketInv'
<1>1. UNCHANGED entries /\ clock' \in Nat /\ clock <= clock'
  BY DEF ClockTick, Begin, BucketInv, CallsOK
<1>2. CallsOK'
  BY DEF ClockTick, Begin, BucketInv, CallsOK
<1>3. TableOK'
  BY Zenon, <1>1 DEF BucketInv, TableOK
<1>4. EntriesOK'
  BY <1>1 DEF BucketInv, CallsOK, EntriesOK, Account, EntryRecord
<1> QED
  BY Zenon, <1>2, <1>3, <1>4 DEF BucketInv

\* A call under the lock replaces the entry of its key, or makes one.
LEMMA AllowStep ==
  ASSUME BucketInv, NEW c \in Calls, Allow(c)
  PROVE  BucketInv'
<1>1. PICK k, at : k = call[c].key /\ at = call[c].at
  BY Zenon
<1>2. k \in Keys /\ at \in Nat /\ at <= clock /\ clock \in Nat /\ UNCHANGED clock
  BY Zenon, <1>1 DEF Allow, BucketInv, CallsOK
<1>3. CallsOK'
  BY Zenon DEF Allow, BucketInv, CallsOK
<1>4. ASSUME NEW table \in SUBSET entries, NEW t \in EntryRecord, Account(t), t.key = k, entries' = table \cup {t},
             \A e \in table : e.key # k, IsFiniteSet(table), Cardinality(table) < MaxKeys
      PROVE  BucketInv'
  <2>1. IsFiniteSet(entries') /\ Cardinality(entries') = Cardinality(table) + 1
    BY Zenon, <1>4, FS_AddElement
  <2>2. TableOK'
    BY <1>4, <2>1, FS_CardinalityType, RateLimitAssumption DEF BucketInv, TableOK
  <2>3. EntriesOK'
    BY Zenon, <1>2, <1>4 DEF BucketInv, EntriesOK, Account
  <2> QED
    BY Zenon, <1>3, <2>2, <2>3 DEF BucketInv
<1>5. CASE Entry(k) # {}
  <2>1. PICK e \in entries : e.key = k
    BY Zenon, <1>5 DEF Entry
  <2>2. Entry(k) = {e}
    BY Zenon, <2>1 DEF Entry, BucketInv, TableOK
  <2>3. entries' = (entries \ {e}) \cup {Taken(e, at)}
    BY Zenon, <1>1, <1>5, <2>2 DEF Allow
  <2>4. Taken(e, at) \in EntryRecord /\ Taken(e, at).key = k /\ Account(Taken(e, at))
    BY Zenon, <1>2, <2>1, TakenKeeps DEF BucketInv, EntriesOK
  <2>5. IsFiniteSet(entries \ {e}) /\ Cardinality(entries \ {e}) = Cardinality(entries) - 1
    BY Zenon, <2>1, FS_RemoveElement DEF BucketInv, TableOK
  <2>6. Cardinality(entries \ {e}) < MaxKeys
    BY <2>5, FS_CardinalityType, RateLimitAssumption DEF BucketInv, TableOK
  <2>7. \A f \in entries \ {e} : f.key # k
    BY Zenon, <2>1 DEF BucketInv, TableOK
  <2> QED
    BY Zenon, <1>4, <2>3, <2>4, <2>5, <2>6, <2>7
<1>6. CASE Entry(k) = {}
  <2>1. PICK table \in IF Cardinality(entries) >= MaxKeys THEN BucketRoom(at) ELSE {entries} :
          entries' = table \cup {Taken(New(k, at), at)}
    BY Zenon, <1>1, <1>6 DEF Allow
  <2>2. table \subseteq entries /\ IsFiniteSet(table) /\ Cardinality(table) < MaxKeys
    BY <2>1, RoomFacts, FS_CardinalityType, RateLimitAssumption DEF BucketInv, TableOK
  <2>3. New(k, at) \in EntryRecord /\ New(k, at).key = k /\ Account(New(k, at))
    BY <1>2, FullFacts DEF New, EntryRecord, Account
  <2>4. Taken(New(k, at), at) \in EntryRecord /\ Taken(New(k, at), at).key = k /\ Account(Taken(New(k, at), at))
    BY Zenon, <1>2, <2>3, TakenKeeps
  <2>5. \A e \in table : e.key # k
    BY Zenon, <1>6, <2>2 DEF Entry
  <2> QED
    BY Zenon, <1>4, <2>1, <2>2, <2>4, <2>5
<1> QED
  BY Zenon, <1>5, <1>6

(* The account of every entry and the capacity of the table are invariant. *)
THEOREM BucketInductive == BucketSpec => []BucketInv
<1>1. BucketInv /\ [BucketNext]_bucketVars => BucketInv'
  <2> SUFFICES ASSUME BucketInv, [BucketNext]_bucketVars PROVE BucketInv'
    BY Zenon
  <2>1. CASE UNCHANGED bucketVars
    BY Zenon, <2>1 DEF bucketVars, BucketInv, CallsOK, TableOK, EntriesOK, Account
  <2>2. CASE BucketNext
    BY Zenon, <2>2, OutsideSteps, AllowStep DEF BucketNext
  <2> QED
    BY Zenon, <2>1, <2>2
<1> QED
  BY InitBucketInv, <1>1, PTL DEF BucketSpec

(* Allow admits no more than the burst and the rate of an entry, but for the
   lateness of its calls, whatever the limits and however calls overlap. *)
THEOREM RateAlwaysHolds == BucketSpec => []RateHolds
<1>1. BucketInv => RateHolds
  <2> SUFFICES ASSUME BucketInv, NEW e \in entries
               PROVE  e.admitted * Every <= Full + (clock - e.born) + e.late
    BY Zenon DEF RateHolds
  <2>1. e \in EntryRecord /\ Account(e) /\ clock \in Nat
    BY Zenon DEF BucketInv, EntriesOK, CallsOK
  <2>2. PICK spent \in Int : spent = e.admitted * Every
    BY <2>1, FullFacts DEF EntryRecord
  <2> QED
    BY <2>1, <2>2, FullFacts DEF Account, EntryRecord
<1> QED
  BY BucketInductive, <1>1, PTL

(* The table of buckets never outgrows its capacity, has one entry a key, and
   no bucket owes or exceeds the burst. *)
THEOREM TableHolds == BucketSpec => []BucketsOK
<1>1. BucketInv => BucketsOK
  <2> SUFFICES ASSUME BucketInv PROVE BucketsOK
    BY Zenon
  <2>1. \A e \in entries : e.level \in 0..Full
    BY FullFacts DEF BucketInv, EntriesOK, EntryRecord, Account
  <2>2. \A e \in entries : Entry(e.key) = {e}
    BY Zenon DEF BucketInv, TableOK, Entry
  <2>3. \A c \in Calls : call[c] # NoCall => call[c].at \in 0..clock
    BY DEF BucketInv, CallsOK
  <2> QED
    BY Zenon, <2>1, <2>2, <2>3 DEF BucketsOK, BucketInv, TableOK
<1> QED
  BY BucketInductive, <1>1, PTL

=============================================================================
