-------------------------------- MODULE Auth --------------------------------
(***************************************************************************)
(* The single admin password, sessions in memory, and the limiter of       *)
(* failed password checks that logins and the step-up of destructive       *)
(* commands share.  Each handler reads the limiter, the stored hash, and   *)
(* then the limiter again, each under a lock or transaction of its own, so *)
(* requests interleave between them; the owner may set the password from   *)
(* the command line, and the server may stop, at any moment.               *)
(*                                                                         *)
(* A hash is named by the one password it matches.  An address stands for  *)
(* itself (IPv4) or for a /64 of which it is one (IPv6): Prefix.           *)
(***************************************************************************)
EXTENDS Integers, FiniteSets

CONSTANTS
  Passwords, NoHash,
  Requests,                 \* requests that may be under way at once
  Sources,                  \* how requests arrive: [peer, forwarded, client]
  Trusted, Prefix, NoAddr,  \* trusted proxies; limiter key of an address; no or a bad header
  Limit, Window,            \* loginFailureLimit, loginFailureWindow
  MaxClients, EvictFraction,
  SessionTTL,
  MaxTime, MaxTokens, MaxWrong  \* bounds: the clock, sessions issued, wrong passwords

ASSUME AuthAssumption ==
  /\ Limit \in Nat \ {0} /\ Window \in Nat \ {0} /\ SessionTTL \in Nat
  /\ EvictFraction \in Nat \ {0} /\ MaxClients \in Nat /\ MaxClients >= EvictFraction
  /\ NoHash \notin Passwords /\ IsFiniteSet(Requests)
  /\ MaxTime \in Nat /\ MaxTokens \in Nat /\ MaxWrong \in Nat

\* client is whom a request is from: a trusted proxy names it truly, and anyone
\* else may write what it likes into the header.
ASSUME SourceAssumption ==
  \A s \in Sources :
    /\ s.peer \notin Trusted => s.client = Prefix[s.peer]
    /\ s.peer \in Trusted => s.client = Prefix[IF s.forwarded = NoAddr THEN s.peer ELSE s.forwarded]

VARIABLES
  now,
  hash,     \* the stored admin password
  server,   \* "down", "ensure" (first run, about to store), "up"
  sessions, \* live in the process: token and expiry
  issued,   \* tokens made so far
  attempts, \* the limiter's table
  req,      \* each request under way
  wrong     \* history: wrong passwords since a client's last right one

vars == <<now, hash, server, sessions, issued, attempts, req, wrong>>

Idle == [pc |-> "idle"]

Init ==
  /\ now = 0 /\ hash = NoHash /\ server = "down"
  /\ sessions = {} /\ issued = 0
  /\ attempts = {}
  /\ req = [r \in Requests |-> Idle]
  /\ wrong = {}

-----------------------------------------------------------------------------
(* The password *)

\* "admin set-password", a process of its own: its sessions are none.
SetAdminPassword(p) ==
  /\ hash' = p
  /\ UNCHANGED <<now, server, sessions, issued, attempts, req, wrong>>

\* RequireAdminPassword
Initialized == hash # NoHash

\* Production: start only with a password.
StartProduction ==
  /\ server = "down" /\ Initialized
  /\ server' = "up"
  /\ UNCHANGED <<now, hash, sessions, issued, attempts, req, wrong>>

\* Development: EnsureAdminPassword reads, and then stores what it generated.
StartDevelopment ==
  /\ server = "down"
  /\ server' = IF hash # NoHash THEN "up" ELSE "ensure"
  /\ UNCHANGED <<now, hash, sessions, issued, attempts, req, wrong>>

EnsureAdminPassword(p) ==
  /\ server = "ensure"
  /\ hash' = p /\ server' = "up"
  /\ UNCHANGED <<now, sessions, issued, attempts, req, wrong>>

Stop ==
  /\ server # "down"
  /\ server' = "down" /\ sessions' = {} /\ attempts' = {}
  /\ req' = [r \in Requests |-> Idle] /\ wrong' = {}
  /\ UNCHANGED <<now, hash, issued>>

-----------------------------------------------------------------------------
(* The limiter of failed checks *)

ClientIPAnyProxy(s) == IF s.forwarded # NoAddr THEN s.forwarded ELSE s.peer

\* The TCP peer, or what a trusted proxy says.
ClientIP(s) == IF s.peer \in Trusted /\ s.forwarded # NoAddr THEN s.forwarded ELSE s.peer

ClientKey(s) == Prefix[ClientIP(s)]

Of(k) == {a \in attempts : a.key = k}
Live(a) == now < a.resetAt

LimitedLate(k) == \E a \in Of(k) : Live(a) /\ a.failures > Limit

\* retryAfter: still refused; it forgets an entry whose window ended.
Limited(k) == \E a \in Of(k) : Live(a) /\ a.failures >= Limit

Checked(k) == attempts \ {a \in Of(k) : ~Live(a)}

\* gone are the least recently seen of a table.
Stalest(table, gone) == \A a \in gone, b \in table \ gone : a.seen <= b.seen

\* makeRoom: the tables it can leave; ties go either way.
MakeRoom ==
  LET live == {a \in attempts : Live(a)} IN
  IF Cardinality(live) < MaxClients THEN {live}
  ELSE {live \ gone : gone \in {g \in SUBSET live :
          Cardinality(g) = Cardinality(live) \div EvictFraction /\ Stalest(live, g)}}

\* failure, given the table that is left
Counted(k, table) ==
  (table \ Of(k)) \cup
    (IF \E a \in Of(k) : Live(a)
       THEN {[a EXCEPT !.failures = @ + 1, !.seen = now] : a \in Of(k)}
       ELSE {[key |-> k, failures |-> 1, resetAt |-> now + Window, seen |-> now]})

Failure(k) ==
  \E table \in IF Of(k) = {} /\ Cardinality(attempts) >= MaxClients THEN MakeRoom ELSE {attempts} :
    attempts' = Counted(k, table)

-----------------------------------------------------------------------------
(* Requests *)

Valid(t) == \E s \in sessions : s.token = t /\ now <= s.expires

\* Refused, or about to read the hash; kind is what a right password leads to.
Arrives(r, s, kind) ==
  /\ server = "up" /\ req[r] = Idle
  /\ attempts' = Checked(ClientKey(s))
  /\ req' = [req EXCEPT ![r] = IF Limited(ClientKey(s)) THEN Idle
       ELSE [pc |-> "hash", key |-> ClientKey(s), client |-> s.client, kind |-> kind]]
  /\ UNCHANGED <<now, hash, server, sessions, issued, wrong>>

\* POST /api/auth/login
Login(r, s) == Arrives(r, s, "issue")

\* A destructive command: RequireSession, then StepUp.
StepUp(r, s, t) == Valid(t) /\ Arrives(r, s, "success")

\* VerifyPassword
Matches(p) == hash = p

\* The request's password is checked against the hash as it is read.
Verify(r, p) ==
  /\ req[r].pc = "hash"
  /\ req' = [req EXCEPT ![r].pc = IF Matches(p) THEN req[r].kind ELSE "failure"]
  /\ UNCHANGED <<now, hash, server, sessions, issued, attempts, wrong>>

\* A failed read, or a client that went away, ends the request uncounted.
VerifyErrs(r) ==
  /\ req[r].pc = "hash"
  /\ req' = [req EXCEPT ![r] = Idle]
  /\ UNCHANGED <<now, hash, server, sessions, issued, attempts, wrong>>

\* A wrong password is counted.
Fails(r) ==
  /\ req[r].pc = "failure" /\ Cardinality(wrong) < MaxWrong
  /\ Failure(req[r].key)
  /\ wrong' = wrong \cup {[client |-> req[r].client, at |-> now, id |->
       Cardinality({w \in wrong : w.client = req[r].client /\ w.at = now})]}
  /\ req' = [req EXCEPT ![r] = Idle]
  /\ UNCHANGED <<now, hash, server, sessions, issued>>

PrunedAtExpiry == {s \in sessions : now < s.expires}

\* Expired sessions are pruned on a login.
Pruned == {s \in sessions : now <= s.expires}

Issue(r) ==
  /\ req[r].pc = "issue" /\ issued < MaxTokens
  /\ issued' = issued + 1
  /\ sessions' = Pruned \cup {[token |-> issued + 1, expires |-> now + SessionTTL]}
  /\ req' = [req EXCEPT ![r].pc = "success"]
  /\ UNCHANGED <<now, hash, server, attempts, wrong>>

\* limiter.success, and the answer
Success(r) ==
  /\ req[r].pc = "success"
  /\ attempts' = attempts \ Of(req[r].key)
  /\ req' = [req EXCEPT ![r] = Idle]
  /\ wrong' = {w \in wrong : w.client # req[r].client}
  /\ UNCHANGED <<now, hash, server, sessions, issued>>

Logout(t) ==
  /\ server = "up"
  /\ sessions' = {s \in sessions : s.token # t}
  /\ UNCHANGED <<now, hash, server, issued, attempts, req, wrong>>

Tick ==
  /\ now < MaxTime /\ now' = now + 1
  /\ UNCHANGED <<hash, server, sessions, issued, attempts, req, wrong>>

Next ==
  \/ \E p \in Passwords : SetAdminPassword(p) \/ EnsureAdminPassword(p)
  \/ StartProduction \/ StartDevelopment \/ Stop
  \/ \E r \in Requests :
       \/ \E s \in Sources : Login(r, s) \/ \E t \in 1..issued : StepUp(r, s, t)
       \/ \E p \in Passwords : Verify(r, p)
       \/ VerifyErrs(r) \/ Fails(r) \/ Issue(r) \/ Success(r)
  \/ \E t \in 1..issued : Logout(t)
  \/ Tick

Spec == Init /\ [][Next]_vars

-----------------------------------------------------------------------------
InFlight(k) == {r \in Requests : req[r].pc \in {"hash", "failure"} /\ req[r].key = k}

\* Every variable holds values of its kind, and the table has one row a key
\* and no more rows than its capacity.
TypeOK ==
  /\ now \in 0..MaxTime /\ issued \in 0..MaxTokens
  /\ hash \in Passwords \cup {NoHash}
  /\ server \in {"down", "ensure", "up"}
  /\ \A s \in sessions : s.token \in 1..issued /\ s.expires \in 0..MaxTime + SessionTTL
  /\ \A a \in attempts : a.failures \in 1..MaxWrong /\ a.seen \in 0..now /\ Of(a.key) = {a}
  /\ Cardinality(attempts) <= MaxClients
  /\ \A r \in Requests : req[r].pc \in {"idle", "hash", "failure", "issue", "success"}
  /\ server # "up" => \A r \in Requests : req[r] = Idle

(* What counts against a client are wrong passwords it sent itself since its
   window opened and since its last right one: it is never limited for others
   behind the same proxy, nor for what others wrote in a header, and its own
   network cannot split the count. With it, every variable has its type and
   the table is within its capacity. *)
OwnFailures ==
  /\ TypeOK
  /\ \A a \in attempts :
       a.failures <= Cardinality({w \in wrong : w.client = a.key /\ w.at \in a.resetAt - Window..now})

(* The check and the count are apart, so requests under way together pass the
   check together; the excess is never more than those. *)
AttemptsBounded ==
  \A a \in attempts : Live(a) => a.failures + Cardinality(InFlight(a.key)) < Limit + Cardinality(Requests)

(* A session that ended, by a logout, expiry or a restart, never becomes valid
   again; and none ends but by its own logout, its expiry or a restart: a login
   that prunes does not end one that is still valid. *)
SessionLife ==
  [][\A t \in 1..issued :
       /\ ~Valid(t) => ~Valid(t)'
       /\ Valid(t) /\ ~Valid(t)' => Logout(t) \/ Tick \/ Stop]_vars

=============================================================================
