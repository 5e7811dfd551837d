----------------------------- MODULE Enrollment -----------------------------
(***************************************************************************)
(* Enrollment and the tunnel: hosts with one-time secrets, the "agent      *)
(* enroll" command, the transaction that turns a secret into a stored      *)
(* peer, the tunnel device that must accept the peer, the start-up of the  *)
(* server that reads or makes its key and replays the peers, and the       *)
(* sessions of agents, whose source address names their host.              *)
(*                                                                         *)
(* A secret is named by the host it was made for.  Addresses are offsets   *)
(* into the subnet.  A request or its answer may be lost or repeated at    *)
(* any time, and any process may stop at any time.                         *)
(***************************************************************************)
EXTENDS Integers, FiniteSets

CONSTANTS
  Hosts, Servers, Commands, \* host ids; server processes; "agent enroll" processes
  Paths,                    \* agent config files
  NoKey, NoFile, Partial,   \* no server key stored; no file; a file cut short
  SubnetSize,               \* addresses of the tunnel subnet
  EnrollmentTTL,
  MaxTime, MaxKeys          \* bounds: the clock, key pairs agents generate

ASSUME EnrollmentAssumption ==
  /\ SubnetSize \in Nat /\ EnrollmentTTL \in Nat \ {0} /\ MaxTime \in Nat /\ MaxKeys \in Nat
  /\ NoKey \notin Servers

VARIABLES
  now,
  secrets,  \* host_enrollments: the one secret of each host
  peers,    \* host_peers
  setting,  \* the stored server key
  server,   \* each server process
  tunnel,   \* the device: which key may use which address
  calls,    \* enrollment requests under way, from the request to the answer
  command,  \* each "agent enroll" process
  keys,     \* key pairs generated so far
  file,     \* agent config files
  session   \* the config each running agent has dialled with

dbVars == <<secrets, peers, setting>>
serverVars == <<server, tunnel>>
agentVars == <<command, keys, file, session>>
vars == <<now, dbVars, serverVars, calls, agentVars>>

Idle == [pc |-> "idle"]
Down == [pc |-> "down"]
Holds(p) == server[p].pc \in {"restore", "up"}
Serving == \E p \in Servers : server[p].pc = "up"

Init ==
  /\ now = 0
  /\ secrets = [h \in Hosts |-> [state |-> "none", expires |-> 0]] /\ peers = {} /\ setting = NoKey
  /\ server = [p \in Servers |-> Down] /\ tunnel = {}
  /\ calls = {}
  /\ command = [c \in Commands |-> Idle] /\ keys = 0
  /\ file = [f \in Paths |-> NoFile]
  /\ session = [f \in Paths |-> NoFile]

-----------------------------------------------------------------------------
(* The database side *)

\* From the dashboard or the command line; a name that exists is refused.
CreateHost(h) ==
  /\ secrets[h].state = "none"
  /\ secrets' = [secrets EXCEPT ![h] = [state |-> "unused", expires |-> now + EnrollmentTTL]]
  /\ UNCHANGED <<now, peers, setting, serverVars, calls, agentVars>>

\* usedTunnelIPs
Used == {p.ip : p \in peers}

\* nextFreeAddr: neither the network, the server (1) nor the broadcast address
Free == {ip \in 2..SubnetSize - 2 : ip \notin Used}

ValidTwice(h) == secrets[h].state # "none" /\ secrets[h].expires > now

\* The conditional UPDATE finds the secret unused and not expired.
Valid(h) == secrets[h].state = "unused" /\ secrets[h].expires > now

Accepts(c) == Valid(c.host) /\ Free # {} /\ \A p \in peers : p.key # c.key

-----------------------------------------------------------------------------
(* The handler of POST /api/enroll *)

\* One transaction.  A request that arrives twice runs twice.
Enroll(c, again) ==
  /\ Serving /\ c \in calls /\ c.pc = "sent"
  /\ Accepts(c)
  /\ \E ip \in Free :
       /\ \A other \in Free : ip <= other
       /\ secrets' = [secrets EXCEPT ![c.host].state = "used"]
       /\ peers' = peers \cup {[host |-> c.host, key |-> c.key, ip |-> ip]}
       /\ calls' = (IF again THEN calls ELSE calls \ {c})
                     \cup {[pc |-> "add", host |-> c.host, key |-> c.key, ip |-> ip]}
  /\ UNCHANGED <<now, setting, serverVars, agentVars>>

\* A full subnet or a key already enrolled rolls the secret back.
Refuse(c, again) ==
  /\ Serving /\ c \in calls /\ c.pc = "sent"
  /\ ~Accepts(c)
  /\ calls' = (IF again THEN calls ELSE calls \ {c}) \cup {[pc |-> "refused", host |-> c.host, key |-> c.key]}
  /\ UNCHANGED <<now, dbVars, serverVars, agentVars>>

\* The device: replace_allowed_ips, then the one address.
Allows(key, ip) == {t \in tunnel : t.key # key /\ t.ip # ip} \cup {[key |-> key, ip |-> ip]}

AddPeer(c, p) ==
  /\ server[p].pc = "up" /\ c \in calls /\ c.pc = "add"
  /\ tunnel' = Allows(c.key, c.ip)
  /\ calls' = (calls \ {c}) \cup {[pc |-> "answer", cfg |->
       [host |-> c.host, key |-> c.key, ip |-> c.ip, server |-> server[p].key], host |-> c.host, key |-> c.key]}
  /\ UNCHANGED <<now, dbVars, server, agentVars>>

\* The peer is stored, and the agent is told that enrollment failed.
AddPeerFails(c) ==
  /\ c \in calls /\ c.pc = "add"
  /\ calls' = (calls \ {c}) \cup {[pc |-> "refused", host |-> c.host, key |-> c.key]}
  /\ UNCHANGED <<now, dbVars, serverVars, agentVars>>

\* A request that never arrives, or an answer.
Lost(c) ==
  /\ c \in calls /\ c.pc # "add"
  /\ calls' = calls \ {c}
  /\ UNCHANGED <<now, dbVars, serverVars, agentVars>>

-----------------------------------------------------------------------------
(* "agent enroll" *)

\* Refuses a path that exists, makes a key pair and posts the public half.
Start(c, h, f) ==
  /\ command[c] = Idle /\ file[f] = NoFile
  /\ secrets[h].state # "none" /\ keys < MaxKeys
  /\ keys' = keys + 1
  /\ command' = [command EXCEPT ![c] = [pc |-> "wait", path |-> f, key |-> keys + 1]]
  /\ calls' = calls \cup {[pc |-> "sent", host |-> h, key |-> keys + 1]}
  /\ UNCHANGED <<now, dbVars, serverVars, file, session>>

Answered(c) ==
  /\ command[c].pc = "wait"
  /\ \E m \in calls :
       /\ m.key = command[c].key /\ m.pc \in {"answer", "refused"}
       /\ calls' = calls \ {m}
       /\ command' = [command EXCEPT ![c] =
            IF m.pc = "refused" THEN Idle
            ELSE [pc |-> "write", path |-> @.path, cfg |-> m.cfg]]
  /\ UNCHANGED <<now, dbVars, serverVars, keys, file, session>>

\* O_EXCL: a file that another command wrote meanwhile stays.
Writes(c, content) ==
  file' = [file EXCEPT ![command[c].path] = IF @ = NoFile THEN content ELSE @]

WriteConfig(c) ==
  /\ command[c].pc = "write"
  /\ \E content \in {command[c].cfg, Partial} : Writes(c, content)
  /\ command' = [command EXCEPT ![c] = Idle]
  /\ UNCHANGED <<now, dbVars, serverVars, calls, keys, session>>

\* A timeout, a signal or a crash; a file already begun was written partly.
Abandon(c) ==
  /\ command[c] # Idle
  /\ command' = [command EXCEPT ![c] = Idle]
  /\ UNCHANGED <<now, dbVars, serverVars, calls, keys, file, session>>

\* The operator deletes the file to enroll again.
DeleteConfig(f) ==
  /\ file[f] # NoFile
  /\ file' = [file EXCEPT ![f] = NoFile]
  /\ UNCHANGED <<now, dbVars, serverVars, calls, command, keys, session>>

-----------------------------------------------------------------------------
(* Sessions *)

\* The handshake succeeds when each side knows the other's key.
Shakes(cfg) ==
  /\ \E p \in Servers : Holds(p) /\ server[p].key = cfg.server
  /\ \E t \in tunnel : t.key = cfg.key

Dial(f) ==
  /\ session[f] = NoFile /\ file[f] \notin {NoFile, Partial}
  /\ Shakes(file[f])
  /\ session' = [session EXCEPT ![f] = file[f]]
  /\ UNCHANGED <<now, dbVars, serverVars, calls, command, keys, file>>

Hangup(f) ==
  /\ session[f] # NoFile
  /\ session' = [session EXCEPT ![f] = NoFile]
  /\ UNCHANGED <<now, dbVars, serverVars, calls, command, keys, file>>

HostsFrom(ip) == {p.host : p \in {q \in peers : q.ip >= ip}}

\* HostByTunnelIP: whose data it is that comes from an address.
HostsBehind(ip) == {p.host : p \in {q \in peers : q.ip = ip}}

-----------------------------------------------------------------------------
(* The server process *)

ReadKey(p) ==
  /\ server[p] = Down
  /\ server' = [server EXCEPT ![p] =
       IF setting = NoKey THEN [pc |-> "insert", key |-> p] ELSE [pc |-> "bind", key |-> setting]]
  /\ UNCHANGED <<now, dbVars, tunnel, calls, agentVars>>

\* INSERT ... ON CONFLICT DO NOTHING
InsertKey(p) ==
  /\ server[p].pc = "insert"
  /\ setting' = IF setting = NoKey THEN server[p].key ELSE setting
  /\ server' = [server EXCEPT ![p] = [pc |-> "reread", key |-> @.key]]
  /\ UNCHANGED <<now, secrets, peers, tunnel, calls, agentVars>>

Reread(p) == setting

RereadKey(p) ==
  /\ server[p].pc = "reread"
  /\ server' = [server EXCEPT ![p] = [pc |-> "bind", key |-> Reread(p)]]
  /\ UNCHANGED <<now, dbVars, tunnel, calls, agentVars>>

PortTaken == \E q \in Servers : Holds(q)

\* The second process cannot bind the UDP port.
Bind(p) ==
  /\ server[p].pc = "bind"
  /\ IF PortTaken
       THEN server' = [server EXCEPT ![p] = Down] /\ UNCHANGED tunnel
       ELSE /\ server' = [server EXCEPT ![p] = [pc |-> "restore", key |-> @.key, todo |-> peers]]
            /\ tunnel' = {}
  /\ UNCHANGED <<now, dbVars, calls, agentVars>>

RestorePeer(p) ==
  /\ server[p].pc = "restore"
  /\ \E x \in server[p].todo :
       /\ tunnel' = Allows(x.key, x.ip)
       /\ server' = [server EXCEPT ![p] = [pc |-> "restore", key |-> @.key, todo |-> @.todo \ {x}]]
  /\ UNCHANGED <<now, dbVars, calls, agentVars>>

ServeEarly(p) == server[p].pc = "restore"

Restored(p) == server[p].pc = "restore" /\ server[p].todo = {}

Serve(p) ==
  /\ Restored(p)
  /\ server' = [server EXCEPT ![p] = [pc |-> "up", key |-> @.key]]
  /\ UNCHANGED <<now, dbVars, tunnel, calls, agentVars>>

\* A crash, a stop, or a failure at start-up; the device and every handler
\* go with the process that holds them.
Stop(p) ==
  /\ server[p] # Down
  /\ server' = [server EXCEPT ![p] = Down]
  /\ IF Holds(p) THEN tunnel' = {} /\ calls' = {c \in calls : c.pc # "add"}
     ELSE UNCHANGED <<tunnel, calls>>
  /\ UNCHANGED <<now, dbVars, agentVars>>

Tick ==
  /\ now < MaxTime /\ now' = now + 1
  /\ UNCHANGED <<dbVars, serverVars, calls, agentVars>>

Next ==
  \/ \E h \in Hosts : CreateHost(h)
  \/ \E c \in calls :
       \/ \E again \in BOOLEAN : Enroll(c, again) \/ Refuse(c, again)
       \/ \E p \in Servers : AddPeer(c, p)
       \/ AddPeerFails(c) \/ Lost(c)
  \/ \E c \in Commands :
       \/ \E h \in Hosts, f \in Paths : Start(c, h, f)
       \/ Answered(c) \/ WriteConfig(c) \/ Abandon(c)
  \/ \E f \in Paths : DeleteConfig(f) \/ Dial(f) \/ Hangup(f)
  \/ \E p \in Servers :
       ReadKey(p) \/ InsertKey(p) \/ RereadKey(p) \/ Bind(p) \/ RestorePeer(p) \/ Serve(p) \/ Stop(p)
  \/ Tick

Spec == Init /\ [][Next]_vars

-----------------------------------------------------------------------------
Written == {f \in Paths : file[f] \notin {NoFile, Partial}}

(* A secret is used exactly when its host has its one peer: a full subnet, a
   conflict or a repeated request neither burns a secret nor enrolls twice. *)
SecretPairsPeer ==
  /\ \A h \in Hosts : secrets[h].state = "used" <=> \E p \in peers : p.host = h
  /\ \A p, q \in peers : p.host = q.host => p = q

(* No two peers share a tunnel address or a key, and none has the network's,
   the server's or the broadcast address. *)
AddressesApart ==
  /\ \A p \in peers : p.ip \in 2..SubnetSize - 2
  /\ \A p, q \in peers : p.ip = q.ip \/ p.key = q.key => p = q

(* Two starters racing converge on one stored key: every server about to open
   the tunnel, and every config an agent ever wrote, has the stored key. *)
OneServerKey ==
  /\ \A p \in Servers : server[p].pc \in {"bind", "restore", "up"} => server[p].key = setting
  /\ \A f \in Written : file[f].server = setting

(* Whatever crashed between the commit and AddPeer, whatever answer was lost
   and whoever raced, an agent that holds a config is a stored peer, and a
   server that serves accepts it at its address. *)
ConfigAccepted ==
  \A f \in Written : LET c == file[f] IN
    /\ [host |-> c.host, key |-> c.key, ip |-> c.ip] \in peers
    /\ Serving => [key |-> c.key, ip |-> c.ip] \in tunnel

(* What the tunnel lets an agent send from is the address of its own host, also
   for an agent that runs on with a config deleted since: its data is never
   stored as another host's. *)
RightHost ==
  \A f \in Paths : session[f] # NoFile =>
    \A t \in tunnel : t.key = session[f].key => HostsBehind(t.ip) = {session[f].host}

(* A config that was written is never replaced, only deleted by the operator:
   a second command that passed the existence check cannot destroy the
   private key of an enrolled host. *)
ConfigKept == [][\A f \in Written : file'[f] \in {file[f], NoFile}]_file

=============================================================================
